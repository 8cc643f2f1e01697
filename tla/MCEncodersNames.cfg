SPECIFICATION FairSpec
CONSTANTS
    A = A
    B = B
    C = C
    D = D
    PathOrder <- PortablePathOrder
    Parent <- PortableParent
    Ino <- PortableIno
    NoIno = 0
    Chunk <- MCChunk
    Contents <- PortableContents
    Fold <- PortableFold
    ParentOf <- PortableParentOf
    Portable <- PortablePaths
    MaxChunk = 1
    Starts <- PortableStarts
    Normal <- PortableNormal
    MaxFrameCount = 2
    LaneOf <- MixedLaneOf
    FramePayload = 2
    MaxLaneFrames = 4
INVARIANTS
    PublishedWhole
PROPERTIES
    EncodingEnds
