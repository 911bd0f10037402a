SPECIFICATION FairSpec
CONSTANTS
    o1 = o1
    o2 = o2
    alice = alice
    bob = bob
    Orders = {o1, o2}
    Customers = {alice, bob}
    CustomerOf <- MCCustomerOf
    QuantityOf <- MCQuantityOf
    MaxQuantity = 2
    TotalTickets = 2
    p1 = p1
    p2 = p2
    Pods = {p1, p2}
    NoPod = NoPod
    Tolerance = 1
    MaxConsecutiveFailures = 2
    MaxFaults = 2
INVARIANTS
    CreatedOrGone
    Ledger
PROPERTIES
    GaugeSettles
