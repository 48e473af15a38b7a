----------------------------- MODULE CachePool -----------------------------
(***************************************************************************)
(* The row-cache pool of the tablet server (src/unnamed/part_001,          *)
(* type CachePool): a memcached child process, supervised by Open and      *)
(* Close, and a bounded pool of connections to it that ServeHTTP (the      *)
(* only caller in the repository) takes with Get and returns with Put.     *)
(*                                                                         *)
(* The resource pool the CachePool wraps (pools.ResourcePool, an external  *)
(* package) is modelled by its channel: a FIFO buffer of `Capacity`        *)
(* wrappers, each either empty (resourceWrapper{}) or holding a            *)
(* connection; an atomic capacity that Close swaps to 0 before draining    *)
(* the buffer; and the channel's closed flag, set once it is drained.      *)
(*                                                                         *)
(* Threads are goroutines: Clients serve stats requests, Lifecycle is the  *)
(* tablet server opening and closing the pool, Closers are further         *)
(* goroutines that may call Close concurrently with it.                    *)
(***************************************************************************)
EXTENDS Naturals, Sequences, FiniteSets

CONSTANTS
    Clients,      \* goroutines running ServeHTTP
    Lifecycle,    \* the goroutine that calls Open and Close
    Closers,      \* other goroutines that call Close
    NoThread,     \* model value: cp.mu is not held
    Capacity,     \* cp.capacity (= Connections - 50), the pool's maxCap
    MaxAttempts,  \* probe attempts in startMemcache (50 in the code)
    MaxGen,       \* bound on the number of Opens (memcached generations)
    IdleTimeout,  \* TRUE iff cp.idleTimeout > 0
    MayCrash      \* TRUE iff memcached may die on its own

Threads == Clients \cup {Lifecycle} \cup Closers

ASSUME /\ Capacity \in Nat \ {0}
       /\ MaxAttempts \in Nat \ {0}
       /\ MaxGen \in Nat \ {0}
       /\ IdleTimeout \in BOOLEAN /\ MayCrash \in BOOLEAN
       /\ Lifecycle \notin Clients \cup Closers
       /\ Clients \cap Closers = {}
       /\ NoThread \notin Threads

Gens == 1..MaxGen          \* memcached processes, and the pool opened on each
GenOrNil == 0..MaxGen      \* 0 is a nil pool / nil cmd

(* A connection is identified by the memcached process it reached; Empty  *)
(* is the nil connection, also the empty wrapper of the resource pool.    *)
Conn == [proc : GenOrNil, closed : BOOLEAN]
Empty == [proc |-> 0, closed |-> FALSE]

ProcState == {"none", "starting", "listening", "crashed", "killed"}

Exits == {"none", "start", "probe", "health", "panic_open",
          "get_not_open", "get_error", "get_closed"}

VARIABLES
    cpPool,      \* cp.pool: the generation of the open pool, 0 when nil
    cmdGen,      \* cp.cmd: the generation of the last started memcached
    mu,          \* holder of cp.mu (only Open holds it across steps)
    nextGen,     \* the generation the next Open starts
    proc,        \* proc[g]: state of memcached process g
    chan,        \* chan[g]: the resource channel of pool g
    poolCap,     \* poolCap[g]: the atomic capacity of pool g
    chanClosed,  \* chanClosed[g]: close(rp.resources) was done
    pc,          \* pc[t]: where goroutine t is
    snap,        \* snap[t]: the pool pointer t read with getPool
    held,        \* held[t]: the connection t holds (conn in ServeHTTP)
    drainLeft,   \* drainLeft[t]: wrappers Close still has to take back
    attempts,    \* attempts in startMemcache's probe loop
    lcOpen,      \* the tablet server's view: it has opened the pool
    exited       \* why the process exited (log.Fatal / panic), or "none"

vars == <<cpPool, cmdGen, mu, nextGen, proc, chan, poolCap, chanClosed,
          pc, snap, held, drainLeft, attempts, lcOpen, exited>>

PCs == {"idle", "sh_get", "get_recv", "sh_stats", "sh_put",
        "op_probe", "op_health", "cl_close", "cl_drain", "cl_lock"}

TypeOK ==
    /\ cpPool \in GenOrNil /\ cmdGen \in GenOrNil
    /\ mu \in Threads \cup {NoThread}
    /\ nextGen \in 1..MaxGen + 1
    /\ proc \in [Gens -> ProcState]
    /\ chan \in [Gens -> Seq(Conn)]
    /\ \A g \in Gens : Len(chan[g]) <= Capacity
    /\ poolCap \in [Gens -> 0..Capacity]
    /\ chanClosed \in [Gens -> BOOLEAN]
    /\ pc \in [Threads -> PCs]
    /\ snap \in [Threads -> GenOrNil]
    /\ held \in [Threads -> Conn]
    /\ drainLeft \in [Threads -> 0..Capacity]
    /\ attempts \in 0..MaxAttempts - 1
    /\ lcOpen \in BOOLEAN
    /\ exited \in Exits

Init ==
    /\ cpPool = 0 /\ cmdGen = 0 /\ mu = NoThread /\ nextGen = 1
    /\ proc = [g \in Gens |-> "none"]
    /\ chan = [g \in Gens |-> <<>>]
    /\ poolCap = [g \in Gens |-> 0]
    /\ chanClosed = [g \in Gens |-> FALSE]
    /\ pc = [t \in Threads |-> "idle"]
    /\ snap = [t \in Threads |-> 0]
    /\ held = [t \in Threads |-> Empty]
    /\ drainLeft = [t \in Threads |-> 0]
    /\ attempts = 0 /\ lcOpen = FALSE /\ exited = "none"

-----------------------------------------------------------------------------
(* Helpers *)

Running == exited = "none"

\* getPool and IsClosed take cp.mu for one read: possible only while no
\* Open holds it.
LockFree == mu = NoThread

\* memcached processes accepting connections on cp.port
Listening == {g \in Gens : proc[g] = "listening"}

\* log.Fatal / panic: the process exits, every goroutine with it.
Fatal(why) ==
    /\ exited' = why
    /\ UNCHANGED <<cpPool, cmdGen, mu, nextGen, proc, chan, poolCap,
                   chanClosed, pc, snap, held, drainLeft, attempts, lcOpen>>

\* cp.cmd.Process.Kill(): a process that already died stays dead.
Kill(g) ==
    proc' = IF g # 0 /\ proc[g] \in {"starting", "listening"}
            THEN [proc EXCEPT ![g] = "killed"] ELSE proc

\* memcache.Connect(cp.port, ...) followed by a use of the connection.
Usable(c) == c.proc # 0 /\ proc[c.proc] = "listening" /\ ~c.closed

-----------------------------------------------------------------------------
(* ServeHTTP, the caller of Get and Put *)

\* `pool := cp.getPool(); if pool == nil { write "closed"; return }`
SH_Check(t) ==
    /\ pc[t] = "idle" /\ LockFree
    /\ \/ /\ cpPool = 0
          /\ UNCHANGED vars
       \/ /\ cpPool # 0
          /\ pc' = [pc EXCEPT ![t] = "sh_get"]
          /\ UNCHANGED <<cpPool, cmdGen, mu, nextGen, proc, chan, poolCap,
                         chanClosed, snap, held, drainLeft, attempts,
                         lcOpen, exited>>

\* Get: `pool := cp.getPool(); if pool == nil { log.Fatal(...) }`
Get(t) ==
    /\ pc[t] = "sh_get" /\ LockFree
    /\ \/ /\ cpPool = 0
          /\ Fatal("get_not_open")
       \/ /\ cpPool # 0
          /\ snap' = [snap EXCEPT ![t] = cpPool]
          /\ pc' = [pc EXCEPT ![t] = "get_recv"]
          /\ UNCHANGED <<cpPool, cmdGen, mu, nextGen, proc, chan, poolCap,
                         chanClosed, held, drainLeft, attempts, lcOpen,
                         exited>>

\* pool.Get(): receive a wrapper (blocking while the channel is empty),
\* close it if idle too long, make a connection for an empty one. A
\* factory error puts an empty wrapper back and Get calls log.Fatal; so it
\* does on CLOSED_ERR, when the channel is closed and empty.
PoolGet(t) ==
    LET p == snap[t] IN
    /\ pc[t] = "get_recv"
    /\ \/ /\ chan[p] # <<>>
          /\ LET w == Head(chan[p]) IN
             \E expire \in IF IdleTimeout /\ w # Empty THEN BOOLEAN
                                                     ELSE {FALSE} :
               IF w # Empty /\ ~expire
               THEN /\ held' = [held EXCEPT ![t] = w]
                    /\ chan' = [chan EXCEPT ![p] = Tail(@)]
                    /\ pc' = [pc EXCEPT ![t] = "sh_stats"]
                    /\ UNCHANGED <<exited>>
               ELSE \/ \E g \in Listening :
                         /\ held' = [held EXCEPT ![t] =
                                        [proc |-> g, closed |-> FALSE]]
                         /\ chan' = [chan EXCEPT ![p] = Tail(@)]
                         /\ pc' = [pc EXCEPT ![t] = "sh_stats"]
                         /\ UNCHANGED <<exited>>
                    \/ /\ Listening = {}
                       /\ chan' = [chan EXCEPT ![p] = Append(Tail(@), Empty)]
                       /\ exited' = "get_error"
                       /\ UNCHANGED <<pc, held>>
          /\ UNCHANGED <<cpPool, cmdGen, mu, nextGen, proc, poolCap,
                         chanClosed, snap, drainLeft, attempts, lcOpen>>
       \/ /\ chan[p] = <<>> /\ chanClosed[p]
          /\ Fatal("get_closed")

\* Variant of Stats that closes a broken connection but keeps the variable
\* pointing at it, so the deferred Put returns the closed connection.
StatsKeepsClosedConn(t) ==
    /\ pc[t] = "sh_stats"
    /\ held' = IF Usable(held[t]) THEN held
               ELSE [held EXCEPT ![t].closed = TRUE]
    /\ pc' = [pc EXCEPT ![t] = "sh_put"]
    /\ UNCHANGED <<cpPool, cmdGen, mu, nextGen, proc, chan, poolCap,
                   chanClosed, snap, drainLeft, attempts, lcOpen, exited>>

\* Variant of Stats whose Put is not deferred: the error path returns
\* without giving the wrapper back.
StatsErrorSkipsPut(t) ==
    /\ pc[t] = "sh_stats"
    /\ IF Usable(held[t])
       THEN /\ pc' = [pc EXCEPT ![t] = "sh_put"] /\ UNCHANGED held
       ELSE /\ pc' = [pc EXCEPT ![t] = "idle"]
            /\ held' = [held EXCEPT ![t] = Empty]
    /\ UNCHANGED <<cpPool, cmdGen, mu, nextGen, proc, chan, poolCap,
                   chanClosed, snap, drainLeft, attempts, lcOpen, exited>>

\* conn.Stats(command); on error `conn.Close(); conn = nil`.
Stats(t) ==
    /\ pc[t] = "sh_stats"
    /\ held' = IF Usable(held[t]) THEN held ELSE [held EXCEPT ![t] = Empty]
    /\ pc' = [pc EXCEPT ![t] = "sh_put"]
    /\ UNCHANGED <<cpPool, cmdGen, mu, nextGen, proc, chan, poolCap,
                   chanClosed, snap, drainLeft, attempts, lcOpen, exited>>

\* Variant of Put that returns at once for a nil connection instead of
\* calling pool.Put(nil).
PutDropsNil(t) ==
    /\ pc[t] = "sh_put" /\ LockFree
    /\ LET p == cpPool IN
       IF p # 0 /\ ~chanClosed[p] /\ Len(chan[p]) < Capacity
          /\ held[t] # Empty
       THEN chan' = [chan EXCEPT ![p] = Append(@, held[t])]
       ELSE UNCHANGED chan
    /\ held' = [held EXCEPT ![t] = Empty]
    /\ pc' = [pc EXCEPT ![t] = "idle"]
    /\ UNCHANGED <<cpPool, cmdGen, mu, nextGen, proc, poolCap, chanClosed,
                   snap, drainLeft, attempts, lcOpen, exited>>

\* The deferred `cp.Put(conn)`: Put re-reads the pool pointer, drops the
\* connection if it is nil, else pool.Put(conn) or pool.Put(nil). pool.Put
\* panics on a full or closed channel; ServeHTTP's recover swallows it.
Put(t) ==
    /\ pc[t] = "sh_put" /\ LockFree
    /\ LET p == cpPool IN
       IF p # 0 /\ ~chanClosed[p] /\ Len(chan[p]) < Capacity
       THEN chan' = [chan EXCEPT ![p] = Append(@, held[t])]
       ELSE UNCHANGED chan
    /\ held' = [held EXCEPT ![t] = Empty]
    /\ pc' = [pc EXCEPT ![t] = "idle"]
    /\ UNCHANGED <<cpPool, cmdGen, mu, nextGen, proc, poolCap, chanClosed,
                   snap, drainLeft, attempts, lcOpen, exited>>

-----------------------------------------------------------------------------
(* Open and startMemcache; Open holds cp.mu throughout *)

\* Lock; `if cp.pool != nil { panic }`; remove a stale socket; cmd.Start().
OpenStart ==
    /\ pc[Lifecycle] = "idle" /\ ~lcOpen /\ LockFree /\ nextGen <= MaxGen
    /\ \/ /\ cpPool # 0
          /\ Fatal("panic_open")
       \/ /\ cpPool = 0
          /\ \/ /\ proc' = [proc EXCEPT ![nextGen] = "starting"]
                /\ cmdGen' = nextGen
                /\ nextGen' = nextGen + 1
                /\ mu' = Lifecycle
                /\ attempts' = 0
                /\ pc' = [pc EXCEPT ![Lifecycle] = "op_probe"]
                /\ UNCHANGED <<cpPool, chan, poolCap, chanClosed, snap,
                               held, drainLeft, lcOpen, exited>>
             \/ Fatal("start")

\* Variants of the probe loop's count: one gives up only after
\* `attempts > 50`, one retries without counting the failed attempt.
ProbeExhaustedLate == attempts + 1 > MaxAttempts
RetryNoCount == attempts' = attempts

\* `attempts++; if attempts >= 50`: this failed attempt was the last one.
ProbeExhausted == attempts + 1 >= MaxAttempts
Retry == attempts' = attempts + 1

\* One turn of the probe loop: sleep, memcache.Connect with a 30ms
\* timeout (which may fail even if memcached listens); after MaxAttempts
\* failures kill the child and log.Fatal.
OpenProbe ==
    /\ pc[Lifecycle] = "op_probe"
    /\ \/ /\ Listening # {}
          /\ pc' = [pc EXCEPT ![Lifecycle] = "op_health"]
          /\ UNCHANGED <<cpPool, cmdGen, mu, nextGen, proc, chan, poolCap,
                         chanClosed, snap, held, drainLeft, attempts,
                         lcOpen, exited>>
       \/ /\ ~ProbeExhausted
          /\ Retry
          /\ UNCHANGED <<cpPool, cmdGen, mu, nextGen, proc, chan, poolCap,
                         chanClosed, pc, snap, held, drainLeft, lcOpen,
                         exited>>
       \/ /\ ProbeExhausted
          /\ Kill(cmdGen)
          /\ exited' = "probe"
          /\ UNCHANGED <<cpPool, cmdGen, mu, nextGen, chan, poolCap,
                         chanClosed, pc, snap, held, drainLeft, attempts,
                         lcOpen>>

\* c.Set("health", ...) on the probe connection (fatal on error), then
\* pools.NewResourcePool(f, capacity, capacity, idleTimeout) and unlock.
OpenHealth ==
    /\ pc[Lifecycle] = "op_health"
    /\ \/ /\ proc[cmdGen] = "listening"
          /\ cpPool' = cmdGen
          /\ chan' = [chan EXCEPT ![cmdGen] = [i \in 1..Capacity |-> Empty]]
          /\ poolCap' = [poolCap EXCEPT ![cmdGen] = Capacity]
          /\ mu' = NoThread
          /\ lcOpen' = TRUE
          /\ pc' = [pc EXCEPT ![Lifecycle] = "idle"]
          /\ UNCHANGED <<cmdGen, nextGen, proc, chanClosed, snap, held,
                         drainLeft, attempts, exited>>
       \/ /\ proc[cmdGen] # "listening"
          /\ Fatal("health")

-----------------------------------------------------------------------------
(* Close: snapshot the pool, close it without the lock, then clean up *)

Closing(c) == c \in Closers \/ (c = Lifecycle /\ lcOpen)

\* `pool := cp.getPool(); if pool == nil { return }`
CloseGetPool(c) ==
    /\ pc[c] = "idle" /\ Closing(c) /\ LockFree
    /\ \/ /\ cpPool = 0
          /\ lcOpen' = (lcOpen /\ c # Lifecycle)
          /\ UNCHANGED <<cpPool, cmdGen, mu, nextGen, proc, chan, poolCap,
                         chanClosed, pc, snap, held, drainLeft, attempts,
                         exited>>
       \/ /\ cpPool # 0
          /\ snap' = [snap EXCEPT ![c] = cpPool]
          /\ pc' = [pc EXCEPT ![c] = "cl_close"]
          /\ UNCHANGED <<cpPool, cmdGen, mu, nextGen, proc, chan, poolCap,
                         chanClosed, held, drainLeft, attempts, lcOpen,
                         exited>>

\* Variant of pool.Close that does not wait for outstanding resources: it
\* zeroes the capacity and returns.
PoolCloseNoWait(c) ==
    LET p == snap[c] IN
    /\ pc[c] = "cl_close"
    /\ poolCap' = [poolCap EXCEPT ![p] = 0]
    /\ pc' = [pc EXCEPT ![c] = "cl_lock"]
    /\ UNCHANGED <<cpPool, cmdGen, mu, nextGen, proc, chan, chanClosed,
                   snap, held, drainLeft, attempts, lcOpen, exited>>

\* Variant of pool.Close that closes the channel when it swaps the
\* capacity, before draining it: a Put of a borrowed wrapper then fails.
PoolCloseChanFirst(c) ==
    LET p == snap[c] IN
    /\ pc[c] = "cl_close"
    /\ \/ /\ poolCap[p] = 0
          /\ pc' = [pc EXCEPT ![c] = "cl_lock"]
          /\ UNCHANGED <<poolCap, drainLeft, chanClosed>>
       \/ /\ poolCap[p] # 0
          /\ poolCap' = [poolCap EXCEPT ![p] = 0]
          /\ chanClosed' = [chanClosed EXCEPT ![p] = TRUE]
          /\ drainLeft' = [drainLeft EXCEPT ![c] = poolCap[p]]
          /\ pc' = [pc EXCEPT ![c] = "cl_drain"]
    /\ UNCHANGED <<cpPool, cmdGen, mu, nextGen, proc, chan,
                   snap, held, attempts, lcOpen, exited>>

\* pool.Close() = SetCapacity(0, true): swap the capacity to 0, or return
\* CLOSED_ERR (ignored by Close) if another Close already did.
PoolClose(c) ==
    LET p == snap[c] IN
    /\ pc[c] = "cl_close"
    /\ \/ /\ poolCap[p] = 0
          /\ pc' = [pc EXCEPT ![c] = "cl_lock"]
          /\ UNCHANGED <<poolCap, drainLeft>>
       \/ /\ poolCap[p] # 0
          /\ poolCap' = [poolCap EXCEPT ![p] = 0]
          /\ drainLeft' = [drainLeft EXCEPT ![c] = poolCap[p]]
          /\ pc' = [pc EXCEPT ![c] = "cl_drain"]
    /\ UNCHANGED <<cpPool, cmdGen, mu, nextGen, proc, chan, chanClosed,
                   snap, held, attempts, lcOpen, exited>>

\* SetCapacity's drain loop: `wrapper := <-rp.resources` (blocking) and
\* close its resource, oldcap times.
PoolDrain(c) ==
    LET p == snap[c] IN
    /\ pc[c] = "cl_drain" /\ drainLeft[c] > 0 /\ chan[p] # <<>>
    /\ chan' = [chan EXCEPT ![p] = Tail(@)]
    /\ drainLeft' = [drainLeft EXCEPT ![c] = @ - 1]
    /\ UNCHANGED <<cpPool, cmdGen, mu, nextGen, proc, poolCap, chanClosed,
                   pc, snap, held, attempts, lcOpen, exited>>

\* `if capacity == 0 { close(rp.resources) }`
PoolCloseChan(c) ==
    /\ pc[c] = "cl_drain" /\ drainLeft[c] = 0
    /\ chanClosed' = [chanClosed EXCEPT ![snap[c]] = TRUE]
    /\ pc' = [pc EXCEPT ![c] = "cl_lock"]
    /\ UNCHANGED <<cpPool, cmdGen, mu, nextGen, proc, chan, poolCap, snap,
                   held, drainLeft, attempts, lcOpen, exited>>

\* Lock; `if cp.pool == nil { return }`; kill cp.cmd; remove the socket;
\* cp.pool = nil; unlock.
CloseCleanup(c) ==
    /\ pc[c] = "cl_lock" /\ LockFree
    /\ IF cpPool = 0
       THEN UNCHANGED <<cpPool, proc>>
       ELSE /\ Kill(cmdGen)
            /\ cpPool' = 0
    /\ pc' = [pc EXCEPT ![c] = "idle"]
    /\ lcOpen' = (lcOpen /\ c # Lifecycle)
    /\ UNCHANGED <<cmdGen, mu, nextGen, chan, poolCap, chanClosed, snap,
                   held, drainLeft, attempts, exited>>

-----------------------------------------------------------------------------
(* The memcached child, outside the code's control *)

ProcListen(g) ==
    /\ proc[g] = "starting"
    /\ proc' = [proc EXCEPT ![g] = "listening"]
    /\ UNCHANGED <<cpPool, cmdGen, mu, nextGen, chan, poolCap, chanClosed,
                   pc, snap, held, drainLeft, attempts, lcOpen, exited>>

ProcCrash(g) ==
    /\ MayCrash /\ proc[g] = "listening"
    /\ proc' = [proc EXCEPT ![g] = "crashed"]
    /\ UNCHANGED <<cpPool, cmdGen, mu, nextGen, chan, poolCap, chanClosed,
                   pc, snap, held, drainLeft, attempts, lcOpen, exited>>

\* After log.Fatal nothing runs any more.
Halted == ~Running /\ UNCHANGED vars

Next ==
    \/ /\ Running
       /\ \/ \E t \in Clients : SH_Check(t) \/ Get(t) \/ PoolGet(t)
                                \/ Stats(t) \/ Put(t)
          \/ OpenStart \/ OpenProbe \/ OpenHealth
          \/ \E c \in {Lifecycle} \cup Closers :
                CloseGetPool(c) \/ PoolClose(c) \/ PoolDrain(c)
                \/ PoolCloseChan(c) \/ CloseCleanup(c)
          \/ \E g \in Gens : ProcListen(g) \/ ProcCrash(g)
    \/ Halted

\* Goroutines that have started an operation keep running (weak fairness);
\* a blocked channel receive or lock acquisition is served eventually once
\* it is repeatedly possible (Go queues blocked receivers in order).
Fairness ==
    /\ \A t \in Clients :
          /\ SF_vars(Running /\ Get(t)) /\ SF_vars(Running /\ PoolGet(t))
          /\ WF_vars(Running /\ Stats(t)) /\ SF_vars(Running /\ Put(t))
    /\ WF_vars(Running /\ (OpenProbe \/ OpenHealth))
    /\ \A c \in {Lifecycle} \cup Closers :
          /\ WF_vars(Running /\ PoolClose(c))
          /\ SF_vars(Running /\ PoolDrain(c))
          /\ WF_vars(Running /\ PoolCloseChan(c))
          /\ SF_vars(Running /\ CloseCleanup(c))

Spec == Init /\ [][Next]_vars /\ Fairness

-----------------------------------------------------------------------------
(* Properties *)

\* Pool g has been made by NewResourcePool (its Open got past the probe).
Created(g) ==
    /\ g < nextGen
    /\ ~(g = cmdGen /\ pc[Lifecycle] \in {"op_probe", "op_health"})

\* Clients that took a wrapper from pool g and have not yet put it back.
Owners(g) ==
    {t \in Clients : pc[t] \in {"sh_stats", "sh_put"} /\ snap[t] = g}

\* Wrappers of pool g that a Close has already drained.
Drained(g) ==
    LET D == {c \in {Lifecycle} \cup Closers :
                 pc[c] = "cl_drain" /\ snap[c] = g}
    IN  IF D = {} THEN 0
        ELSE Capacity - drainLeft[CHOOSE c \in D : TRUE]

(* Every wrapper of a pool that is still open for Put is in exactly one    *)
(* place: in the channel, with a ServeHTTP between Get and Put, or taken   *)
(* by Close's drain. A Put that drops a slot (Close would then wait        *)
(* forever) or returns one to the wrong pool (pool.Put panics on a full    *)
(* channel) breaks it.                                                     *)
SlotConservation ==
    \A g \in Gens :
        Created(g) /\ ~chanClosed[g] =>
            Len(chan[g]) + Cardinality(Owners(g)) + Drained(g) = Capacity

(* No ServeHTTP holds a connection to a memcached process that Close has  *)
(* killed: Close signals cp.cmd only after pool.Close has taken back every *)
(* connection ("No new operations will be allowed now. Safe to cleanup").  *)
KillOnlyWhenDrained ==
    \A t \in Clients :
        held[t].proc # 0 /\ ~held[t].closed => proc[held[t].proc] # "killed"

(* A connection Get hands to ServeHTTP was not closed by an earlier caller *)
(* (ServeHTTP sets conn = nil after closing a broken one, so Put returns   *)
(* an empty wrapper) and reaches the memcached of the Open that made the   *)
(* pool it came from.                                                      *)
HandedOutConnIsFresh ==
    \A t \in Clients :
        pc[t] = "sh_stats" /\ held[t] # Empty =>
            ~held[t].closed /\ held[t].proc = snap[t]

(* Every Close that has snapshotted an open pool returns (unless the       *)
(* process exits): the drain in pool.Close gets every wrapper back.        *)
CloseReturns ==
    \A c \in {Lifecycle} \cup Closers :
        pc[c] = "cl_close" ~> (pc[c] = "idle" \/ ~Running)

(* Every stats request that has started returns (or the process exits): *)
(* pool.Get is not left waiting on a channel whose wrappers were lost, and *)
(* the deferred Put runs on every path of ServeHTTP.                       *)
StatsRequestsComplete ==
    \A t \in Clients : pc[t] # "idle" ~> (pc[t] = "idle" \/ ~Running)

(* Open returns: once it has started memcached, the tablet server leaves  *)
(* the probe loop and the health check, with an open pool or through      *)
(* log.Fatal, even when the child never listens, because startMemcache    *)
(* counts its failed attempts and gives up after 50, holding cp.mu, which *)
(* every getPool and IsClosed waits for, all the while.                   *)
OpenReturns ==
    pc[Lifecycle] \in {"op_probe", "op_health"} ~>
        (pc[Lifecycle] = "idle" \/ ~Running)

(* ServeHTTP answers "closed" on a closed pool: a Close running under a    *)
(* stats request never takes the process down, neither through Get's      *)
(* `log.Fatal("cache pool is not open")` nor through the log.Fatal of the  *)
(* CLOSED_ERR that pool.Get returns once Close has closed its channel.     *)
StatsNeverFatalOnClosedPool == exited \notin {"get_not_open", "get_closed"}

(* A Close tears down only a pool it has drained ("No new operations will *)
(* be allowed now. Safe to cleanup"): when its cleanup kills cp.cmd and    *)
(* sets cp.pool to nil, cp.pool is still the pool its getPool returned,    *)
(* and no ServeHTTP still holds a wrapper of it. The recheck               *)
(* `if cp.pool == nil` can tell neither a later Open's pool nor a pool     *)
(* whose pool.Close returned early because another Close is draining it.   *)
CloseCleansDrainedPool ==
    [][\A c \in {Lifecycle} \cup Closers :
          pc[c] = "cl_lock" /\ pc'[c] = "idle" /\ cpPool # 0 =>
              cpPool = snap[c] /\ Owners(cpPool) = {}]_vars

-----------------------------------------------------------------------------
(* Refinement of CachePoolLifecycle *)

\* The pool is closed while cp.pool is nil, closing once pool.Close has
\* swapped its capacity to 0, open otherwise.
AbsState ==
    IF cpPool = 0 THEN "closed"
    ELSE IF poolCap[cpPool] = 0 THEN "closing" ELSE "open"

\* Free slots are the wrappers in the open pool's channel; a slot is out
\* while a ServeHTTP is between pool.Get and the deferred Put.
AbsFree == IF cpPool = 0 THEN 0 ELSE Len(chan[cpPool])

AbsOut == {t \in Clients : pc[t] \in {"sh_stats", "sh_put"}}

Abstract == INSTANCE CachePoolLifecycle
                WITH state <- AbsState, free <- AbsFree, out <- AbsOut

(* Seen through the mapping, every step of Open, Close, ServeHTTP, Get,    *)
(* Put and of the resource pool is a step of the atomic pool or none: a    *)
(* slot is borrowed and returned to the same pool, Close drains only after *)
(* the capacity swap, and cp.pool becomes nil only when every slot is      *)
(* back and nothing is borrowed.                                           *)
LifecycleRefined == Abstract!Spec

=============================================================================
