SPECIFICATION FairSpec
CONSTANTS
    NumVars = 5
    Chrono = 0
    ConflToChrono = 0
    CcMinMode = 1
    SimplifyEvery = 1
    Problems <- BasicMinimizationProblems
INVARIANTS
    DumpedGritOrdered
