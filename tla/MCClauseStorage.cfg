SPECIFICATION FairSpec
CONSTANTS
    Config <- ThreeFiles
    Shapes <- SmallRecords
    PageSize = 16
    MinFileSize = 64
    InitialSize = 64
INVARIANTS
    StorageOK
    CidsResolve
PROPERTIES
    ImplementsLog
    CallsEnd
CHECK_DEADLOCK FALSE
