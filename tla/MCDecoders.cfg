SPECIFICATION Spec
CONSTANTS
    A = A
    B = B
    Fold <- MCFold
    ParentOf <- MCParentOf
    Portable <- MCPortable
    MaxChunk = 2
    LaneOf <- MCLaneOf
    FramePayload = 1
    MaxLaneFrames = 3
    Starts <- MCStarts
    MaxOutput = 3
    MaxFrames = 3
    MaxArchive = 2
INVARIANTS
    CacheHit
    AcceptsOnlyWhole
    RefusesOnlyDamaged
    OutputBounded
    FailureCleans
PROPERTIES
    PublishesAtomically
    DecodingEnds
