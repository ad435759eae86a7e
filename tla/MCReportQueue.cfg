SPECIFICATION MCFairSpec
CONSTANTS
    Capacity = 3
    Readers = {d1, d2}
    Addresses = 2
    ReadTimeout = 1
    MaxReports = 6
    MaxTime = 7
INVARIANTS
    TypeOK
    NoneLostNoneTwice
    OvertakenIsHeld
    DelayBounded
PROPERTIES
    AcceptedIsReported
    ReporterSpec
