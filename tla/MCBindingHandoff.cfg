SPECIFICATION FairSpec
CONSTANTS
    main = main
    child = child
    Proc <- MCProc
    Main = main
    Claimants <- Only
    MaxStray = 2
INVARIANTS
    TypeOK
    NoAuthorityDuringCleanup
    BarrierSound
PROPERTIES
    NoUseAfterRevocation
    SignalEndsAuthority
    ClosureEndsBarrier
