------------------------------ MODULE KeyLocks ------------------------------
(***************************************************************************)
(* What in-flight tracking (src/xrc/src/inflight.rs) promises ordinary     *)
(* callers: each asset and minute has a lock.  A call takes the locks of   *)
(* all its keys in one step, only if all are free, and gives back exactly  *)
(* those when it returns.                                                  *)
(***************************************************************************)
CONSTANTS
    Holders,    \* the calls
    Lockable    \* the keys: pairs of a symbol and a minute

VARIABLES
    held,       \* holder -> the keys it holds
    locked      \* the keys somebody holds

vars == <<held, locked>>

Init ==
    /\ held = [h \in Holders |-> {}]
    /\ locked = {}

Acquire(h) ==
    /\ held[h] = {}
    /\ held'[h] # {} /\ held'[h] \subseteq Lockable \ locked
    /\ held' = [held EXCEPT ![h] = held'[h]]
    /\ locked' = locked \cup held'[h]

Release(h) ==
    /\ held[h] # {}
    /\ held' = [held EXCEPT ![h] = {}]
    /\ locked' = locked \ held[h]

Next == \E h \in Holders : Acquire(h) \/ Release(h)

Spec == Init /\ [][Next]_vars

=============================================================================
