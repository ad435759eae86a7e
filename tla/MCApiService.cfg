SPECIFICATION MCFairSpec
CONSTANTS
    Addresses = {a1}
    NoAddress = NoAddress
    Callers = {c1, c2}
    DisableTimeout = 1
    Timeout = 1
    WatchPeriod = 1
    MaxTime = 3
    MaxRequests = 3
    Keys = {k1}
    NoItem = NoItem
    ExpireTimeout = 1
    CachingEnabled = TRUE
    ActualizeTimeout = 1
    Leases = {0, 2}
    Grants = {TRUE, FALSE}
PROPERTIES
    GetReturns
    ServiceSpec
