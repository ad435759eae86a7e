SPECIFICATION MCSpec
CONSTANTS
    Addresses = {a1}
    NoAddress = NoAddress
    Callers = {c1, c2}
    DisableTimeout = 1
    Timeout = 1
    WatchPeriod = 1
    MaxTime = 5
    MaxRequests = 5
    Keys = {k1}
    NoItem = NoItem
    ExpireTimeout = 2
    CachingEnabled = TRUE
    ActualizeTimeout = 2
    Leases = {0, 1, 3}
    Grants = {TRUE}
SYMMETRY Symmetry
INVARIANTS
    TypeOK
    HitsAreCurrent
    StaleIsBounded
    FallbackHonoured
PROPERTIES
    BoundedRegression
    
