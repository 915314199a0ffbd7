SPECIFICATION FairSpec
CONSTANTS
    MaxJobs = 2
    MaxGids = 2
    Workers = {w1, w2}
    NoWorker = NoWorker
    Retries = 1
    MaxOps = 2
    NoGid = 0
INVARIANTS
    RunningIsFollowed
    ClosedIsQuiet
PROPERTIES
    WorkerGetsOut
CHECK_DEADLOCK FALSE
