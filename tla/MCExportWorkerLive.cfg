SPECIFICATION FairSpec
CONSTANTS
    NumJobs = 2
    MaxLimit = 1
    Deletable <- OneJob
    Limits <- OneLimit
PROPERTIES
    QueuedIsServed
    RunningEnds
