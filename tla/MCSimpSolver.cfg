SPECIFICATION SimpSpec
CONSTANTS
    NumVars = 5
    Chrono <- NeverChrono
    ConflToChrono = 0
    CcMinMode = 2
    SimplifyEvery = 1
    Problems <- SimpProblems
    Grow = 0
    IterateFrom = 1
INVARIANTS
    OccurrencesExact
    NothingSubsumed
    RecordsCheckable
PROPERTIES
    ImplementsCertifiedSimp
    SimpTermination
