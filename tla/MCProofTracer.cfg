SPECIFICATION MCSpec
CONSTANTS
    Clauses = {c1, empty}
    EmptyClause = empty
    Reorder = FALSE
    MaxRecords = 2
    MaxHints = 3
    MaxUnits = 1
    MaxMarkers = 2
INVARIANTS
    TypeOK
    MarkersExact
    UnorderedCounted
CHECK_DEADLOCK FALSE
