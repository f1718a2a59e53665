SPECIFICATION MCSpec
CONSTANTS
    Clauses = {c1, empty}
    EmptyClause = empty
    Reorder = TRUE
    Files = {"trace", "lrat", "drat", "grit"}
    MaxRecords = 5
    MaxHints = 2
INVARIANTS
    HintsPointBack
    InitialNumbered
    MarkedClosed
    MarkedNeeded
    NumbersResolve
CHECK_DEADLOCK FALSE
