\* Three versions, one of another project; at most two results.
CONSTANTS
    MinVisible = 2
    HeaderImage = 3
    ChunkSize = 2
    Overlap = 1
    Versions = {1, 2, 3}
    Owned = {1, 2}
    Libraries <- MCLibraries
    MaxLimit = 2
    MaxScore = 2
SPECIFICATION Spec
CHECK_DEADLOCK FALSE
INVARIANTS
    ResultIsExact
    ReportIsTrue
    FlagAgreesWithStatus
