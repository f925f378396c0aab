SPECIFICATION FairSpec
CONSTANTS
    Job <- TwoJobs
    Unfinished <- OneUnfinished
    MaxCalls = 2
    Limits <- TwoLimits
    MaxLinks = 2
    MaxGets = 1
    MaxClicks = 3
INVARIANTS
    LinkBounds
    ModalShowsItsJob
PROPERTIES
    LiveLinkKeepsJob
    UsedUpIsPurged
CHECK_DEADLOCK FALSE
