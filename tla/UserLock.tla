------------------------------ MODULE UserLock ------------------------------
(***************************************************************************)
(* The Redisson locks lock:order:<user> as VoucherOrderServiceImpl uses    *)
(* them: tryLock() without waiting and without a lease time, so the        *)
(* library's watchdog renews a 30 second lease while the hold is in use.   *)
(* A lock is re-entrant for the thread that holds it.  A hold whose unlock *)
(* never took effect (or whose tryLock answer was lost) is "leaked": the   *)
(* watchdog has stopped renewing it and only its lease ends it.            *)
(***************************************************************************)
CONSTANTS Users, Instances

CONSTANTS
    Free,    \* no such key in Redis
    Orphan   \* held by a thread of a process that has died

ASSUME LockValues == Free \notin Instances /\ Orphan \notin Instances /\ Free # Orphan

VARIABLES
    holder,  \* holder[u]: Free, Orphan or the instance whose consumer thread holds it
    leaked   \* users whose lock carries a hold that no thread will give back

lockVars == <<holder, leaked>>

LockInit ==
    /\ holder = [u \in Users |-> Free]
    /\ leaked = {}

Acquirable(w, u) == holder[u] \in {Free, w}

Acquire(w, u) ==
    /\ Acquirable(w, u)
    /\ holder' = [holder EXCEPT ![u] = w]

\* One hold is given back; the key goes only with the last hold.
GiveBack(u) ==
    /\ holder' = IF u \in leaked THEN holder ELSE [holder EXCEPT ![u] = Free]
    /\ UNCHANGED leaked

Leak(u) == leaked' = leaked \cup {u}

\* The lease runs out: the key goes whatever the number of holds.
Expire(u) ==
    /\ holder[u] # Free
    /\ holder' = [holder EXCEPT ![u] = Free]
    /\ leaked' = leaked \ {u}

\* The process dies: its holds stay in Redis under a name nobody will use again.
Abandon(w) ==
    /\ holder' = [u \in Users |-> IF holder[u] = w THEN Orphan ELSE holder[u]]
    /\ leaked' = {u \in leaked : holder[u] # w}
=============================================================================
