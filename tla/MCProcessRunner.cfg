CONSTANTS
    Pid <- FewPids
    MaxBirths = 4
    MaxFaults = 2
SPECIFICATION MCSpec
INVARIANTS
    OnlyMeasuredKilled
    ResultMeansQuiet
    RootNotLeft
    LeftoversKilled
CHECK_DEADLOCK FALSE
