SPECIFICATION MCSpec
CONSTANTS
    Addresses = {a1, a2}
    NoAddress = NoAddress
    Callers = {c1, c2}
    DisableTimeout = 2
    Timeout = 2
    WatchPeriod = 1
    MaxTime = 7
    MaxRequests = 3
SYMMETRY Symmetry
INVARIANTS
    TypeOK
    EvenUse
    OutageBounded
PROPERTIES
    NoReviveInFlight
    PoolSpec
