SPECIFICATION FairSpec
CONSTANTS
    r1 = r1
    r2 = r2
    Requests <- TwoRequests
    PingLimit = 3
    DrainLimit = 2
INVARIANTS
    TypeOK
    ExitZeroOnlyOnSignal
    PanicOnlyBeforeServing
    ShutdownIsNoFailure
PROPERTIES
    SignalEndsProcess
    StartupDecides
