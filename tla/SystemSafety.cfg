SPECIFICATION SystemSpec
CONSTANTS
    o1 = o1
    o2 = o2
    alice = alice
    bob = bob
    Orders = {o1, o2}
    Customers = {alice, bob}
    CustomerOf <- TwoCustomers
    QuantityOf <- MCQuantityOf
    MaxQuantity = 2
    TotalTickets = 2
    w1 = w1
    w2 = w2
    Workers = {w1, w2}
    BatchSize = 1
    MaxRetries = 1
    Oversized = {}
    Handlers = {h1}
    SweepBatch = 1
    Unlabelled = {}
    NoEvent = NoEvent
    Relays = {r1}
    NoRelay = NoRelay
    RelayBatch = 1
    StuckBatch = 1
    SagaMaxRetries = 1
    Faults = {"db", "resend", "metadata", "gateway", "redeliver", "kafka", "session", "age"}
    MaxFaults = 1
CONSTRAINT NobodyPays
INVARIANTS
    NoOversell
    RestsInAgreement
