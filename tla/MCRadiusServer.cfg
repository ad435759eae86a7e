SPECIFICATION MCFairSpec
CONSTANTS
    Requests <- MCRequests
    Goroutines = {g1, g2}
    Answers <- MCAnswers
    Wrap = 8
    Capacity = 1
    NoRequest = NoRequest
    NoAnswer = NoAnswer
    MaxHandled = 3
    MaxRestarts = 1
    MaxTime = 2
INVARIANTS
    TypeOK
    KeysAreHeld
    ClassUnique
    ReportsAreTrue
    EveryClassIsReported
    
PROPERTIES KeysAreFreed
