SPECIFICATION Spec
CONSTANTS
    Name = {n1}
    ValidLeaf = {leaf1, leaf2}
    MalformedLeaf = {}
    OtherChild = {}
    Fixed <- MCFixed
    Other <- MCOther
    MaxRuns = 1
    Attempts = 2
    MaxEntries = 2
    Failing <- AnyFault
    MaxMeddling = 0
    OutsiderAt = {}
INVARIANT
    CleanupFailureVisible
CHECK_DEADLOCK FALSE
