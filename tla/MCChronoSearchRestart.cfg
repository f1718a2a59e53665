SPECIFICATION FairSpec
CONSTANTS
    NumVars = 4
    Chrono <- NeverChrono
    ConflToChrono = 0
    CcMinMode = 1
    SimplifyEvery = 1
    Problems <- RestartProblems
INVARIANTS
    InputNumbering
    UnitCidsLevelZero
PROPERTIES
    Termination
    ImplementsCertified
