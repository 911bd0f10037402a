SPECIFICATION ServerFairSpec
CONSTANTS
    o1 = o1
    o2 = o2
    o3 = o3
    alice = alice
    bob = bob
    Orders = {o1, o2, o3}
    Requests <- MCRequests
    Customers = {alice, bob}
    CustomerOf <- MCCustomerOf
    QuantityOf <- MCQuantityOf
    MaxQuantity = 2
    TotalTickets = 2
    Sweeper = Sweeper
    c1 = c1
    Confirmers = {c1}
    NoOrder = NoOrder
    SweepBatch = 1
    Oversized = {}
    w1 = w1
    Workers = {w1}
    BatchSize = 1
    MaxRetries = 1
    Faults = {"crash", "stop", "db", "ack", "commit", "redis", "resend", "metadata", "kafka"}
    MaxFaults = 1
INVARIANTS
    CompensatedIsBack
    CommittedIsAccounted
    RedisNeverOversells
    AnsweredIsTrue
    StopLosesNothing
PROPERTIES
    StagesImplementLifecycle
    StagesAccepted
    OverdueIsReleased
