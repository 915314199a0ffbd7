SPECIFICATION Spec
CONSTANTS
    MaxVersion = 2
    MaxLaunches = 3
    MaxTime = 4
    Missing = Missing
    Torn = Torn
INVARIANTS
    SavedSurvives
    BackupSurvives
CHECK_DEADLOCK FALSE
CONSTRAINT Undisturbed
