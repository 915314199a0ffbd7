SPECIFICATION MCSpec
CONSTANTS
    Savers = {r1, r2}
    MaxVersion = 3
    Missing = Missing
    Empty = Empty
    Torn = Torn
    Paths = {p1, p2}
    Wanted = p1
    Listed = {p2}
    Temporary = {}
    Outside = {p2}
    MaxChanges = 1
    MaxWalks = 2
    Remotes = {r1, r2}
    Scans = {c1, c2}
    Checks = {k1}
    Downloads = {d1}
    Compared = {"MISSING"}
    Outcomes = {"VERIFIED"}
    MaxRows = 2
    MaxScans = 2
    MaxMarks = 1
    MaxTasks = 1
    MaxUndo = 1
    Sources = {s1, s2}
    Apart = {s1}
    Unsized = {}
    Outputs = {p1, p2}
    Edits = {e1}
    Syncs = {c1, c2}
    Ids = {1}
    Unknown = Unknown
    MaxSaves = 2
    MaxTimes = 2
    MaxStarts = 1
    Files = {r1, r2}
    NoPath = NoPath
SYMMETRY Symmetry
INVARIANTS
    FileIsIntact
    CleanIsStored
    QuietMeansSaved
    HashIsCurrent
    GuardVerdictHolds
    RowsShowDecisions
    DownloadsAreKnown
    CopyIsNotHidden
    DownloadIsJustified
    VerifiedIsProven
PROPERTY ImplementsDurableValue
CHECK_DEADLOCK FALSE
