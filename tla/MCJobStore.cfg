SPECIFICATION Spec
CONSTANTS
    j1 = j1
    j2 = j2
    Job <- TwoJobs
    MaxCrashes = 2
    TornWrites = FALSE
SYMMETRY JobSymmetry
INVARIANTS
    TypeOK
    DiskIsCurrent
    AcceptedIsKept
    DoneHasFile
    QueueIsRestored
    RecoveryIsClean
PROPERTY PersistedMovesForward
CHECK_DEADLOCK FALSE
