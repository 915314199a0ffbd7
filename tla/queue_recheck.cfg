SPECIFICATION Spec
CONSTANTS
    MaxJobs = 1
    Workers = {w1, w2}
    NoWorker = NoWorker
    Files = {f1}
    NoFile = NoFile
    LegacyJobs = 0
    MegaFiles = {}
    Retries = 1
    RawConcurrency = {2}
    PriorityBound = 0
    MaxOps = 5
SYMMETRY WorkerSymmetry
PROPERTY
    ResumedJobIsRechecked
CHECK_DEADLOCK FALSE
