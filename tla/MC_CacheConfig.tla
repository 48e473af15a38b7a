--------------------------- MODULE MC_CacheConfig ---------------------------
(* Row-cache configurations for TLC: with and without a binary, socket    *)
(* and TCP port, each connection limit NewCachePool treats differently     *)
(* (default, the fatal 50, the smallest accepted 51, a large one), and     *)
(* query timeouts of none, under a second and whole seconds.               *)
EXTENDS CacheConfig

MC_Configs ==
    [binary : {"", "memcached"}, memory : {64}, socket : {"", "/tmp/rc.sock"},
     tcpPort : {0, 11222}, connections : {0, 50, 51, 1024}, threads : {0, 4},
     lockPaged : {FALSE, TRUE}]

MC_QueryTimeouts == {0, 500, 2000}

=============================================================================
