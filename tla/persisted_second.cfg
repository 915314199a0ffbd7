SPECIFICATION Spec
CONSTANTS
    MaxVersion = 2
    MaxLaunches = 2
    MaxTime = 4
    Missing = Missing
    Torn = Torn
PROPERTY
    SecondLaunchIsHarmless
CHECK_DEADLOCK FALSE
