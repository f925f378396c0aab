SPECIFICATION Spec
CONSTANTS
    NumJobs = 2
    MaxLimit = 2
    Deletable <- OneJob
    Limits <- TwoLimits
INVARIANTS
    QueueAgrees
    SlotsAgree
    NoQueuedJobLost
    NoZombie
    DoneIsDownloadable
    CancelledLeavesNothing
    NoLostWakeup
PROPERTY ImplementsLifecycle
