SPECIFICATION FairSpec
CONSTANTS
    MaxItems = 3
    MaxTime = 2
    Cron <- Crons
    NextMatch <- Matches
    MaxCalls = 2
    Me = 1
    MaxClicks = 3
INVARIANTS
    TypeOK
    SchedulePlanned
    FormGoesHome
PROPERTY DueRuns
CHECK_DEADLOCK FALSE
