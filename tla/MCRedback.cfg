SPECIFICATION MCSpec
CONSTANTS
    Attributes <- MCAttributes
    Values <- MCValues
    Tags = {0, 7, 40}
    RawVsas <- MCRawVsas
    OtherVendor = 9
    MaxVendor = 8
    MaxValue = 7
    MaxVsas = 3
INVARIANTS
    TypeOK
    AddedIsFound
    
    AgentIsFirstAdded
PROPERTIES AccessorsIndependent
