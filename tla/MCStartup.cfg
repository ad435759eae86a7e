SPECIFICATION MCFairSpec
CONSTANTS
    Document <- MCDocument
    Environments <- MCEnvironments
    Levels = {0, 1, 4, 6}
INVARIANTS
    TypeOK
    
    DeathIsLogged
    NumbersAreUnique
PROPERTIES ServesOrStops
