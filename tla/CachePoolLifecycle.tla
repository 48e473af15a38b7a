------------------------- MODULE CachePoolLifecycle -------------------------
(***************************************************************************)
(* What CachePool promises its callers, with every step atomic: the pool   *)
(* is closed, open or closing; Open makes `Capacity` free slots; a client  *)
(* borrows a free slot and returns it to the same pool; Close first stops  *)
(* the pool, then takes back every free slot, and the pool is closed only  *)
(* when every slot has been taken back and nothing is borrowed.            *)
(*                                                                         *)
(* CachePool (Open, Close, Get, Put, ServeHTTP) is shown to implement it   *)
(* by the refinement mapping in CachePool.tla.                             *)
(***************************************************************************)
EXTENDS Naturals

CONSTANTS Clients, Capacity

VARIABLES
    state,   \* "closed", "open" or "closing"
    free,    \* slots in the pool that nobody holds
    out      \* clients holding a slot

vars == <<state, free, out>>

TypeOK ==
    /\ state \in {"closed", "open", "closing"}
    /\ free \in 0..Capacity
    /\ out \in SUBSET Clients

Init == state = "closed" /\ free = 0 /\ out = {}

Open ==
    /\ state = "closed"
    /\ state' = "open" /\ free' = Capacity /\ out' = {}

Borrow(t) ==
    /\ state # "closed" /\ free > 0 /\ t \notin out
    /\ free' = free - 1 /\ out' = out \cup {t}
    /\ UNCHANGED state

Return(t) ==
    /\ t \in out
    /\ free' = free + 1 /\ out' = out \ {t}
    /\ UNCHANGED state

StartClose ==
    /\ state = "open"
    /\ state' = "closing"
    /\ UNCHANGED <<free, out>>

Drain ==
    /\ state = "closing" /\ free > 0
    /\ free' = free - 1
    /\ UNCHANGED <<state, out>>

FinishClose ==
    /\ state = "closing" /\ free = 0 /\ out = {}
    /\ state' = "closed"
    /\ UNCHANGED <<free, out>>

Next ==
    \/ Open \/ StartClose \/ Drain \/ FinishClose
    \/ \E t \in Clients : Borrow(t) \/ Return(t)

Spec == Init /\ [][Next]_vars

=============================================================================
