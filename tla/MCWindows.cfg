SPECIFICATION Spec
CONSTANTS
    Instant <- Instants
    Hour = 2
    MaxWindows = 12
    MaxDuration = 800
INVARIANTS
    WindowsTile
    WindowsBounded
CHECK_DEADLOCK FALSE
