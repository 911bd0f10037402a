SPECIFICATION Spec
CONSTANTS
    o1 = o1
    o2 = o2
    o3 = o3
    alice = alice
    bob = bob
    Orders = {o1, o2, o3}
    Customers = {alice, bob}
    CustomerOf <- MCCustomerOf
    QuantityOf <- MCQuantityOf
    MaxQuantity = 2
    TotalTickets = 3
    w1 = w1
    Workers = {w1}
    BatchSize = 2
    MaxRetries = 2
    Oversized = {}
    Faults = {"ack", "crash"}
    MaxFaults = 2
INVARIANTS
    RedisAgreesWhenDrained
