SPECIFICATION Spec
CONSTANTS
    MaxFaults = 2
    MaxEvents = 2
INVARIANTS
    ExecutableSurvives
    OnlyHealthyStays
PROPERTIES
    UpdateEndsRunning
CHECK_DEADLOCK FALSE
