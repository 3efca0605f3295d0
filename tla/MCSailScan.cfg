SPECIFICATION Spec
CONSTANTS
    f1 = f1
    f2 = f2
    Files <- MCFiles
    Layouts <- MCLayouts
    Filters <- MCFilters
    Depth <- MCDepth
    MaxDepth = 1
    Asked <- MCAsked
    MaxByte = 1
    MaxSnapshots = 3
    Null = Null
    None = None
INVARIANTS
    PruningIsSound
    SnapshotScanIsComplete
    IncrementalScanIsComplete
    TokensStayValid
CHECK_DEADLOCK FALSE
