SPECIFICATION LocksSpec
CONSTANTS
    Thread = {t1, t2, t3}
    NoThread = none
    MaxNested = 1
CHECK_DEADLOCK FALSE
INVARIANTS
    ForkSerialized
