SPECIFICATION Spec
CONSTANTS
    j1 = j1
    j2 = j2
    Job <- OneJob
    MaxCrashes = 1
    TornWrites = TRUE
INVARIANT AcceptedIsKept
CHECK_DEADLOCK FALSE
