SPECIFICATION FairSpec
CONSTANTS
    Name = {n1, n2}
    ValidLeaf = {leaf1}
    MalformedLeaf = {odd}
    OtherChild = {other}
    Fixed <- MCFixed
    Other <- MCOther
    MaxRuns = 2
    Attempts = 2
    MaxEntries = 1
    Failing <- Faults
    MaxMeddling = 1
    OutsiderAt <- Interference
INVARIANTS
    SuccessLeavesNothing
    NoOverlap
    CleanupRemovesAll
PROPERTIES
    OwnSessionOnly
    CleanupEnds
CHECK_DEADLOCK FALSE
