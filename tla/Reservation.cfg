SPECIFICATION IdempotencyFairSpec
CONSTANTS
    o1 = o1
    o2 = o2
    o3 = o3
    alice = alice
    bob = bob
    Orders = {o1, o2, o3}
    Customers = {alice, bob}
    CustomerOf <- MCCustomerOf
    QuantityOf <- MCQuantityOf
    MaxQuantity = 2
    TotalTickets = 2
    w1 = w1
    Workers = {w1}
    BatchSize = 2
    MaxRetries = 2
    Oversized = {o3}
    Faults = {"crash", "db", "commit", "redis", "resend", "ack", "metadata"}
    MaxFaults = 1
    k1 = k1
    Keys = {k1}
    NoKey = NoKey
    KeyOf <- MCKeyOf
    BodyOf <- MCBodyOf
    Earlier = Earlier
    Nothing = Nothing
INVARIANTS
    TypeOK
    RedisLedger
    NoBookingLost
PROPERTIES
    ImplementsLifecycle
    AcceptedIsResolved
    ReplayIsOfSameRequest
