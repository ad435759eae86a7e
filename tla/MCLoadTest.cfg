SPECIFICATION MCFairSpec
CONSTANTS
    Workers = {w1, w2}
    Served = {w1}
    Count = 3
    Buffer = 2
    MaxTickers = 2
INVARIANTS
    TypeOK
    EndsAtCount
    RateNotOverstated
PROPERTIES TestEnds
