CONSTANTS
    Clients = {c1, c2}
    Lifecycle = lc
    Closers = {}
    NoThread = NoThread
    Capacity <- MC_Capacity
    MaxAttempts <- MC_MaxAttempts
    MaxGen <- MC_MaxGen
    IdleTimeout = TRUE
    MayCrash = TRUE
SPECIFICATION Spec
INVARIANT TypeOK
INVARIANT SlotConservation
INVARIANT KillOnlyWhenDrained
INVARIANT HandedOutConnIsFresh
PROPERTY CloseReturns
    StatsRequestsComplete
    LifecycleRefined
    OpenReturns
