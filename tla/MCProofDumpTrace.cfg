SPECIFICATION MCSpec
CONSTANTS
    Clauses = {c1, empty}
    EmptyClause = empty
    Reorder = FALSE
    Files = {"trace"}
    MaxRecords = 4
    MaxHints = 1
INVARIANTS
    TraceHintsResolve
CHECK_DEADLOCK FALSE
