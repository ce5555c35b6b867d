\* Two jobs of two priorities, two workers, a queue of one entry, one retry,
\* a grace period and a restart.
CONSTANTS
    Jobs = {1, 2}
    Workers = {w1, w2}
    NoJob = NoJob
    Rank <- RankOfJobs
    MaxSize = 1
    MaxRetries = 1
    GracePeriod = TRUE
    MaxStarts = 2
SPECIFICATION FairSpec
INVARIANTS
    TypeOK
    PendingHasOnePlace
    HandlerHasOneWorker
PROPERTIES
    FateSpec
    RunsAreRecorded
    Served
    CancelledHandlerEnds
    StopReturns
CHECK_DEADLOCK FALSE
