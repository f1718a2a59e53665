SPECIFICATION Spec
CONSTANTS
    Lbds <- SomeLbds
    Tier2Every = 2
    LocalEvery = 3
    Untouched = 3
    RaiseAt = 3
    RaiseBelow = 1
    VivifyEvery = 4
    MaxLevel = 1
    MaxLearnts = 2
    MaxConflicts = 6
PROPERTIES
    ProtectedOnce
CHECK_DEADLOCK FALSE
