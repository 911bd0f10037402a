SPECIFICATION FairFeedSpec
CONSTANTS
    c1 = c1
    Conns = {c1}
    BusCapacity = 1
    StreamMaxLen = 1
    ReadCount = 2
    RegisterCapacity = 1
    BroadcastCapacity = 1
    SendCapacity = 1
    ReplayMaxCount = 2
    MaxConsecFailures = 2
    MaxEvents = 2
    MaxFailedCalls = 1
INVARIANTS
    OpenWhileRegistered
    NoSilentLoss
PROPERTIES
    RelayedInOrder
    ShutdownEnds
