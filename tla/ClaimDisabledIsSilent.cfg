SPECIFICATION MCFairSpec
CONSTANTS
    Document <- MCDocument
    Environments <- MCEnvironments
    Levels = {0, 1, 4, 6}
INVARIANT DisabledIsSilent
