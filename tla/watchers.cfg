SPECIFICATION MCSpec
CONSTANTS
    Windows = {h1, h2}
    NoWindow = NoWindow
    NativeGrace = 1
    GoneTicks = 2
    FalseGrace = 2
    HintAge = 3
    Missing = 4
    Roots = {a, b}
    Operations = {"index", "download"}
    MaxEvents = 3
    MaxErrors = 1
    MaxBeats = 1
INVARIANT SlotIsOwed
PROPERTIES
    StopIsJustified
    ClosedWindowStops
    FoldersAreApplied
CHECK_DEADLOCK FALSE
