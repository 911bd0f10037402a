SPECIFICATION Spec
CONSTANTS
    o1 = o1
    o2 = o2
    alice = alice
    bob = bob
    Orders = {o1, o2}
    Customers = {alice, bob}
    CustomerOf <- MCCustomerOf
    QuantityOf <- MCQuantityOf
    MaxQuantity = 2
    TotalTickets = 3
    h1 = h1
    h2 = h2
    Handlers = {h1, h2}
    SweepBatch = 1
    Unlabelled = {}
    NoEvent = NoEvent
    Faults = {}
    MaxFaults = 0
INVARIANTS
    DeadChargeIsAlerted
