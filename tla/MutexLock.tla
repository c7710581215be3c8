----------------------------- MODULE MutexLock -----------------------------
(***************************************************************************)
(* MutexRedisLock on one name: SET lock:<name> <token> NX EX <seconds>,    *)
(* and unlock.lua, which deletes the key only if it still holds the token  *)
(* of the calling thread.  The token is a UUID of the process and the id   *)
(* of the thread, so it is the same for every lock object of a thread, and *)
(* never again that of a thread of a process that has died.  Users follow  *)
(* the pattern of the class comment: unlock in a finally, and only if      *)
(* tryLock answered true.                                                  *)
(***************************************************************************)
CONSTANTS
    Owners,     \* threads of all the instances
    Unlocked,   \* no such key in Redis
    DeadOwner   \* the token of a thread of a process that has died

ASSUME OwnerValues == Unlocked \notin Owners /\ DeadOwner \notin Owners /\ Unlocked # DeadOwner

VARIABLES
    lock,     \* the token in the key, or Unlocked
    inside,   \* threads whose tryLock answered true and that have not unlocked yet
    overran   \* those of them whose lease has ended (history)

mutexVars == <<lock, inside, overran>>

MutexInit ==
    /\ lock = Unlocked
    /\ inside = {}
    /\ overran = {}

\* Mutant: SET without NX.
TakeAnyway(t) == lock' = t

\* SET NX EX: by the key alone, so a thread that holds it is refused as well.
Take(t) == lock = Unlocked /\ lock' = t

TryLock(t) ==
    /\ t \notin inside
    /\ Take(t)
    /\ inside' = inside \cup {t}
    /\ UNCHANGED overran

\* The reply to SET is lost: tryLock throws, and nobody will unlock.
TryLockReplyLost(t) ==
    /\ t \notin inside
    /\ Take(t)
    /\ UNCHANGED <<inside, overran>>

\* Mutant: unlock deletes the key whoever holds it.
DeleteKey(t) == lock' = Unlocked

\* unlock.lua
DeleteOwnKey(t) == lock' = IF lock = t THEN Unlocked ELSE lock

Leave(t) ==
    /\ t \in inside
    /\ inside' = inside \ {t}
    /\ overran' = overran \ {t}

Unlock(t) ==
    /\ Leave(t)
    /\ DeleteOwnKey(t)

\* The script was never run: unlock throws, the key stays.
UnlockFails(t) ==
    /\ Leave(t)
    /\ UNCHANGED lock

LeaseEnds ==
    /\ lock # Unlocked
    /\ lock' = Unlocked
    /\ overran' = overran \cup ({lock} \cap inside)
    /\ UNCHANGED inside

\* The process dies; the next one has a UUID of its own.
OwnerDies(t) ==
    /\ inside' = inside \ {t}
    /\ overran' = overran \ {t}
    /\ lock' = IF lock = t THEN DeadOwner ELSE lock

MutexNext ==
    \/ \E t \in Owners : TryLock(t)
    \/ \E t \in Owners : TryLockReplyLost(t)
    \/ \E t \in Owners : Unlock(t)
    \/ \E t \in Owners : UnlockFails(t)
    \/ LeaseEnds
    \/ \E t \in Owners : OwnerDies(t)

MutexSpec == MutexInit /\ [][MutexNext]_mutexVars

-----------------------------------------------------------------------------
MutexType ==
    /\ lock \in Owners \cup {Unlocked, DeadOwner}
    /\ inside \in SUBSET Owners
    /\ overran \in SUBSET inside

\* Mutual exclusion as far as the lease goes: the threads inside whose lease has
\* not ended are at most one, and the key holds its token.
OneHolderWithinLease == \A t \in inside \ overran : lock = t

\* "Prevent accidental lock release by different threads": a thread that overran
\* its lease, and whose place another one has taken, does not end that one's
\* hold; only the holder, its death or the end of its own lease do.
EndsOnlyOwnHold ==
    [][\A t \in Owners :
          t \in inside /\ lock = t /\ lock' # t => t \notin inside' \/ t \in overran']_mutexVars
=============================================================================
