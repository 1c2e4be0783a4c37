SPECIFICATION FairSpec
CONSTANTS
    NumInitStrings = 1
    Configs <- MCConfigs
    MaxNest = 2
    MaxSignals = 2
INVARIANTS
    DialIsGuarded
    PppdIsKnown
    LineIsAttended
PROPERTY LogOnEnds
CHECK_DEADLOCK FALSE
