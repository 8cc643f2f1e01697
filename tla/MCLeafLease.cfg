SPECIFICATION Spec
CONSTANTS
    p1 = p1
    p2 = p2
    joiner = joiner
    Pid <- MCPid
    Joiner = joiner
    MaxUse = 3
INVARIANTS
    PeakIsFinal
    OneWorkload
    LeftoverReported
PROPERTIES
    NoPeakAfterKill
    NothingAfterClose
CHECK_DEADLOCK FALSE
