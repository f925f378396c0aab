SPECIFICATION Spec
CONSTANTS
    NumJobs = 1
    MaxLimit = 1
    Deletable <- AllJobs
    Limits <- OneLimit
INVARIANT DeletedRunIsCancelled
