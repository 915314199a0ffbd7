SPECIFICATION FairSpec
CONSTANTS
    MaxJobs = 3
    Workers = {w1, w2}
    NoWorker = NoWorker
    Files = {m1, m2, f1}
    NoFile = NoFile
    LegacyJobs = 1
    MegaFiles = {m1, m2}
    Retries = 1
    RawConcurrency = {1, 2}
    PriorityBound = 1
    MaxOps = 2
INVARIANTS
    OneMegaJob
PROPERTIES
    RespectsConcurrency
    QueuedIsServed
    RunningEnds
    CancelledWorkerLeaves
CHECK_DEADLOCK FALSE
