SPECIFICATION FairSpec
CONSTANTS
    NumWindows = 2
    MaxRetries = 3
    BufSize = 2
    Limit = 3
    LineSizes <- Sizes
    MaxLines = 2
INVARIANTS
    ContentExact
    LinesCounted
    PartsTile
    PartsAreFull
    ArchiveComplete
PROPERTIES
    ExportEnds
CHECK_DEADLOCK FALSE
