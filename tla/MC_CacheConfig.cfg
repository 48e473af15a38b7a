CONSTANTS
    Configs <- MC_Configs
    QueryTimeouts <- MC_QueryTimeouts
SPECIFICATION Spec
INVARIANT TypeOK
INVARIANT PoolWithinMemcachedLimit
CHECK_DEADLOCK FALSE
