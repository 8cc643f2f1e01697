SPECIFICATION Spec
CONSTANTS
    A = A
    B = B
    C = C
    D = D
    PathOrder <- MCPathOrder
    Parent <- MCParent
    Ino <- MCIno
    NoIno = 0
    Chunk <- MCChunk
    Contents <- MCContents
    Fold <- MCFold
    ParentOf <- MCParentOf
    Portable <- MCPortable
    MaxChunk = 1
    Starts <- MCStarts
    Normal <- MCNormal
    MaxFrameCount = 5
    LaneOf <- MCLaneOf
    FramePayload = 2
    MaxLaneFrames = 4
INVARIANTS
    PublishedWhole
    PublishedIsSnapshot
    NothingLeftBehind
    NeverInsideSource
PROPERTIES
    PublishesAtomically
