SPECIFICATION Spec
CONSTANTS
    MaxJobs = 1
    Workers = {w1, w2, w3}
    NoWorker = NoWorker
    Files = {m1}
    NoFile = NoFile
    LegacyJobs = 0
    MegaFiles = {m1}
    Retries = 1
    RawConcurrency = {2}
    PriorityBound = 0
    MaxOps = 5
SYMMETRY WorkerSymmetry
INVARIANTS
    RunningHasWorker
    OneWorkerPerJob
    ActiveIsReachable
    TransferIsVetted
PROPERTIES
    CompletedIsFinal
CHECK_DEADLOCK FALSE
