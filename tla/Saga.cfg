SPECIFICATION ReconFairSpec
CONSTANTS
    o1 = o1
    o2 = o2
    alice = alice
    bob = bob
    Orders = {o1, o2}
    Customers = {alice, bob}
    CustomerOf <- MCCustomerOf
    QuantityOf <- MCQuantityOf
    MaxQuantity = 2
    TotalTickets = 3
    r1 = r1
    r2 = r2
    Relays = {r1, r2}
    Failing = {o1}
    q1 = q1
    q2 = q2
    Reconcilers = {q1, q2}
    ReconBatch = 1
    NoRelay = NoRelay
    RelayBatch = 2
    StuckBatch = 1
    SagaMaxRetries = 1
    Faults = {"crash", "db", "commit", "redis", "kafka", "session", "age", "gateway"}
    MaxFaults = 1
INVARIANTS
    ReconTypeOK
    NoPhantomTickets
    SagaLedger
    ProcessedIsPublished
PROPERTIES
    VerdictIsFollowed
    ImplementsLifecycle
    FailedIsCompensated
    AgedIsResolved
