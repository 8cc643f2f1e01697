CONSTANTS
    D1 = D1
    D2 = D2
    Dir = {D1, D2}
    Name = {"source", "destination", "plan"}
    NoIno = NoIno
    Ino <- ManyInos
    Block <- Blocks
    Contents <- OtherContents
    Expected <- WholeFile
    Trees <- SmallTrees
    MaxChanges = 2
    CoarseClocks = {TRUE, FALSE}
    Operations = {"verify", "prepare", "reopen"}
    MaxOperations = 2
    SnapshotLimit = 2
    MaxPlanBytes = 2
    PlanLimits <- Limits
SPECIFICATION MCSpec
INVARIANTS
    StateTruthful
    DurableSurvives
    SnapshotExact
    PlanAsRead
PROPERTIES
    PublishesAtomically
CHECK_DEADLOCK FALSE
