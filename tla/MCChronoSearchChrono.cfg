SPECIFICATION FairSpec
CONSTANTS
    NumVars = 5
    Chrono = 0
    ConflToChrono = 0
    CcMinMode = 2
    SimplifyEvery = 1
    Problems <- ChronoProblems
INVARIANTS
    TrailOK
    ReasonSound
    NoMissedImplication
    LearntAsserting
    RecordsCheckable
    CidCoherent
    NoTraceOfAnalysis
    WatchesPaired
    UnorderedOrderable
    DratChecks
