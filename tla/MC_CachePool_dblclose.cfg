CONSTANTS
    Clients = {c1, c2}
    Lifecycle = lc
    Closers = {x1}
    NoThread = NoThread
    Capacity <- MC_Capacity
    MaxAttempts <- MC_MaxAttempts
    MaxGen <- MC_MaxGen
    IdleTimeout = TRUE
    MayCrash = FALSE
SPECIFICATION Spec
PROPERTY CloseCleansDrainedPool
