CONSTANTS
    Configs <- MC_Configs
    QueryTimeouts <- MC_QueryTimeouts
SPECIFICATION Spec
INVARIANT OpenReachesMemcached
CHECK_DEADLOCK FALSE
