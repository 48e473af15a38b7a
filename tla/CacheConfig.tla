---------------------------- MODULE CacheConfig ----------------------------
(***************************************************************************)
(* How a row-cache configuration becomes a cache pool and a memcached      *)
(* process (src/unnamed/part_001): NewCachePool picks the capacity, the    *)
(* endpoint cp.port and DeleteExpiry; Open starts memcached with the       *)
(* command line of GetSubprocessFlags and connects to cp.port.             *)
(*                                                                         *)
(* memcached and memcache.Connect are not code of this repository. They    *)
(* are modelled by what they do with their inputs: memcached listens on    *)
(* the -s socket only (the option disables TCP), else on TCP port -p       *)
(* (default 11211), and accepts -c connections (default 1024); Connect     *)
(* dials a unix socket for an address with a "/", else TCP, which needs    *)
(* a "host:port" address.                                                  *)
(***************************************************************************)
EXTENDS Integers, Sequences, SequencesExt, TLC

CONSTANTS
    Configs,        \* RowCacheConfig values
    QueryTimeouts   \* the query timeout, in milliseconds

\* strconv.Itoa; strconv.Atoi of a number the configuration wrote.
Itoa(n) == ToString(n)
ConfigNumbers == UNION {{c.memory, c.tcpPort, c.connections, c.threads} : c \in Configs}
Atoi(s) == CHOOSE n \in ConfigNumbers \cup {1024, 11211} : Itoa(n) = s

\* strings.Contains(s, "/")
HasSlash(s) == \E i \in 1..Len(s) : SubSeq(s, i, i) = "/"

\* The flags in the order GetSubprocessFlags appends them; none without a
\* binary.
GetSubprocessFlags(c) ==
    IF c.binary = "" THEN <<>>
    ELSE <<c.binary>>
         \o (IF c.memory > 0 THEN <<"-m", Itoa(c.memory)>> ELSE <<>>)
         \o (IF c.socket # "" THEN <<"-s", c.socket>> ELSE <<>>)
         \o (IF c.tcpPort > 0 THEN <<"-p", Itoa(c.tcpPort)>> ELSE <<>>)
         \o (IF c.connections > 0 THEN <<"-c", Itoa(c.connections)>> ELSE <<>>)
         \o (IF c.threads > 0 THEN <<"-t", Itoa(c.threads)>> ELSE <<>>)
         \o (IF c.lockPaged THEN <<"-k">> ELSE <<>>)

\* Variants of the capacity: one does not reserve the 50 connections, one
\* applies `Connections - 50` without the `Connections > 0` test.
CapacityNoReserve(c) == IF c.connections > 0 THEN c.connections ELSE 1024
CapacityNoDefault(c) == c.connections - 50

\* `cp.capacity = 1024 - 50`, then `Connections - 50` if Connections > 0.
Capacity(c) == IF c.connections > 0 THEN c.connections - 50 ELSE 1024 - 50

(* NewCachePool: without a binary the pool stays disabled. Otherwise the   *)
(* endpoint is ":<port>" if a TCP port is set, else the socket, else       *)
(* "11211"; Connections <= 50 is log.Fatal; DeleteExpiry is               *)
(* 2 * seconds + 15 for the query timeout truncated to whole seconds, and  *)
(* 0 if that is 0.                                                         *)
NewCachePool(c, timeout) ==
    IF c.binary = "" THEN [enabled |-> FALSE, capacity |-> 0, port |-> "",
                           deleteExpiry |-> 0, fatal |-> FALSE]
    ELSE LET secs == timeout \div 1000 IN
         [enabled |-> TRUE,
          capacity |-> Capacity(c),
          port |-> IF c.tcpPort > 0 THEN ":" \o Itoa(c.tcpPort)
                   ELSE IF c.socket # "" THEN c.socket ELSE "11211",
          deleteExpiry |-> IF secs # 0 THEN 2 * secs + 15 ELSE 0,
          fatal |-> c.connections > 0 /\ c.connections <= 50]

\* The argument of flag f on a command line, or dflt if f is absent.
FlagArg(flags, f, dflt) ==
    IF \E i \in 1..Len(flags) - 1 : flags[i] = f
    THEN flags[1 + CHOOSE i \in 1..Len(flags) - 1 : flags[i] = f]
    ELSE dflt

\* The endpoints memcached started with these flags listens on, and how
\* many connections it accepts.
MemcachedListens(flags) ==
    IF Contains(flags, "-s")
    THEN {[net |-> "unix", addr |-> FlagArg(flags, "-s", "")]}
    ELSE {[net |-> "tcp", addr |-> FlagArg(flags, "-p", "11211")]}
MemcachedMaxConns(flags) == Atoi(FlagArg(flags, "-c", "1024"))

\* memcache.Connect(address): a unix socket for an address with a "/";
\* else net.Dial("tcp", ...), for which ":<port>" is the local port and an
\* address without a ":" is the error "missing port in address".
Dial(address) ==
    IF HasSlash(address) THEN [net |-> "unix", addr |-> address]
    ELSE IF address # "" /\ SubSeq(address, 1, 1) = ":"
    THEN [net |-> "tcp", addr |-> SubSeq(address, 2, Len(address))]
    ELSE [net |-> "error", addr |-> address]

VARIABLES
    cfg,        \* the RowCacheConfig
    timeout,    \* the query timeout
    cp,         \* what NewCachePool made, or [enabled |-> FALSE] before
    listens,    \* endpoints of the started memcached, {} before Open
    maxConns,   \* connections the started memcached accepts
    phase       \* "config", "new", "started", "open" or "exited"

vars == <<cfg, timeout, cp, listens, maxConns, phase>>

Endpoint == [net : {"unix", "tcp"}, addr : STRING]

\* A CachePool as NewCachePool returns it.
Pool == [enabled : BOOLEAN, capacity : Nat, port : STRING,
         deleteExpiry : Nat, fatal : BOOLEAN]

TypeOK ==
    /\ cfg \in Configs /\ timeout \in QueryTimeouts
    /\ phase \in {"config", "new", "started", "open", "exited"}
    /\ cp \in Pool \cup {[enabled |-> FALSE]}
    /\ listens \subseteq Endpoint /\ maxConns \in Nat

Init ==
    /\ cfg \in Configs /\ timeout \in QueryTimeouts
    /\ cp = [enabled |-> FALSE] /\ listens = {} /\ maxConns = 0
    /\ phase = "config"

\* NewCachePool; an insufficient capacity is log.Fatal.
NewPool ==
    /\ phase = "config"
    /\ cp' = NewCachePool(cfg, timeout)
    /\ phase' = IF cp'.fatal THEN "exited" ELSE "new"
    /\ UNCHANGED <<cfg, timeout, listens, maxConns>>

\* Open: panic without a binary; else startMemcache runs the binary with
\* GetSubprocessFlags (cmd.Start succeeds).
OpenStart ==
    /\ phase = "new"
    /\ IF ~cp.enabled
       THEN phase' = "exited" /\ UNCHANGED <<listens, maxConns>>
       ELSE LET flags == GetSubprocessFlags(cfg) IN
            /\ listens' = MemcachedListens(flags)
            /\ maxConns' = MemcachedMaxConns(flags)
            /\ phase' = "started"
    /\ UNCHANGED <<cfg, timeout, cp>>

\* The probe loop of startMemcache: memcache.Connect(cp.port) succeeds once
\* memcached listens where it dials, and fails on every attempt otherwise,
\* until the 50th failure is log.Fatal.
OpenProbe ==
    /\ phase = "started"
    /\ phase' = IF Dial(cp.port) \in listens THEN "open" ELSE "exited"
    /\ UNCHANGED <<cfg, timeout, cp, listens, maxConns>>

Next == NewPool \/ OpenStart \/ OpenProbe

Spec == Init /\ [][Next]_vars

-----------------------------------------------------------------------------
(* Properties *)

(* An open pool never asks memcached for more connections than it accepts *)
(* while 50 stay free for other clients (spec 4.5: capacity = connections *)
(* - 50, reserving 50): the pool capacity NewCachePool picks and the -c    *)
(* that GetSubprocessFlags passes agree, also when neither is given.       *)
PoolWithinMemcachedLimit ==
    phase = "open" => cp.capacity >= 1 /\ cp.capacity + 50 <= maxConns

(* A configuration that NewCachePool accepts with a binary opens: the      *)
(* endpoint cp.port that Open dials is one the memcached it started with   *)
(* GetSubprocessFlags listens on, so the probe loop does not end in        *)
(* log.Fatal("Can't connect to memcache").                                 *)
OpenReachesMemcached ==
    phase = "exited" /\ cp.enabled /\ ~cp.fatal => listens = {}

=============================================================================
