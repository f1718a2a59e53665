SPECIFICATION ReadSpec
CONSTANTS
    NumVars = 3
    Chrono = 100
    ConflToChrono = 4000
    CcMinMode = 2
    SimplifyEvery = 1
    Problems <- SatisfiableProblems
    Grow = 0
    IterateFrom = 10000
INVARIANTS
    UnsatOnlyIfSo
