-------------------------- MODULE ShopCacheProofs --------------------------
(***************************************************************************)
(* Proofs, for every value of the constants, of safety properties stated   *)
(* in ShopCacheProperties.                                                 *)
(***************************************************************************)
EXTENDS ShopCacheProperties, TLAPS

\* The troubles only ever count up.
LEMMA SpendType ==
    ASSUME SpentType, NEW kind \in DOMAIN NoTroubles, Spend(kind)
    PROVE  /\ SpentType'
           /\ (spent.lapse)' = 0 => spent.lapse = 0 /\ kind # "lapse"
BY DEF SpentType, Spend, NoTroubles

\* What leaving a method body does to one thread and to no other.
LEMMA LeaveEffect ==
    ASSUME ReaderType, NEW r \in Readers, NEW n \in Nat, NEW thrown \in BOOLEAN,
           NEW left \in Nat, Leave(r, n, thrown, left)
    PROVE  /\ ReaderType'
           /\ \A s \in Readers \ {r} : reader'[s] = reader[s]
           /\ reader'[r].unlocks = left
           /\ left > 0 => reader'[r].pc = "unlock" /\ reader'[r].thrown = thrown
           /\ left = 0 /\ thrown => reader'[r].pc = "failed"
           /\ left = 0 /\ ~thrown => reader'[r].pc = "done"
           /\ ~thrown => reader'[r].version = n
BY DEF ReaderType, Leave, ReaderState, At

LEMMA ReaderFields ==
    ASSUME ReaderType, NEW r \in Readers
    PROVE  /\ reader[r].unlocks \in Nat /\ reader[r].version \in Nat
           /\ reader[r].thrown \in BOOLEAN
           /\ At(r, "unlock") => reader[r].unlocks - 1 \in Nat
BY DEF ReaderType, ReaderState

LEMMA GoToType ==
    ASSUME ReaderType, NEW r \in Readers,
           NEW pc \in {"rebuildMissing", "load", "lock"}, GoTo(r, pc)
    PROVE  ReaderType'
BY DEF ReaderType, ReaderState, GoTo, At

\* What the actions other than expiry do to the entry and its lock.
LEMMA EntryEffect ==
    ASSUME EntryType,
           \/ cache' = cache \/ cache' = NoEntry
           \/ \E n \in Nat : cache' = Live(n),
           lock' \in {lock, TRUE, FALSE}
    PROVE  EntryType'
<1>1. lock' \in BOOLEAN
  BY DEF EntryType
<1>2. CASE cache' = cache
  BY <1>1, <1>2 DEF EntryType
<1>3. CASE cache' = NoEntry
  BY <1>1, <1>3 DEF EntryType, NoEntry
<1>4. CASE \E n \in Nat : cache' = Live(n)
  BY <1>1, <1>4 DEF EntryType, Live
<1> QED BY <1>2, <1>3, <1>4

\* The numbers there are.
LEMMA Numbers ==
    ASSUME TypeOK
    PROVE  /\ cache.version \in Nat /\ row \in Nat /\ last \in Nat /\ tx.version \in Nat
           /\ \A r \in Readers : reader[r].version \in Nat
           /\ \A w \in Workers : worker[w].version \in Nat
BY DEF TypeOK, EntryType, RowType, ReaderType, ReaderState, PoolType

-----------------------------------------------------------------------------
(* Type correctness.                                                       *)

LEMMA InitType == Init => TypeOK
<1> SUFFICES ASSUME Init PROVE TypeOK
  OBVIOUS
<1>1. EntryType
  <2>1. row \in Nat /\ lock = FALSE /\ cache \in {NoEntry, Live(row)}
    BY DEF Init
  <2>2. CASE cache = NoEntry
    BY <2>1, <2>2 DEF EntryType, NoEntry
  <2>3. CASE cache = Live(row)
    BY <2>1, <2>3 DEF EntryType, Live
  <2> QED BY <2>1, <2>2, <2>3
<1>2. RowType
  BY DEF Init, RowType, NoTx
<1>3. ReaderType
  BY DEF Init, ReaderType, ReaderState, NewReader, At
<1>4. PoolType /\ SpentType
  BY DEF Init, PoolType, SpentType, IdleWorker, NoTroubles
<1> QED BY <1>1, <1>2, <1>3, <1>4 DEF TypeOK, Init

LEMMA WriteType ==
    ASSUME TypeOK, Write
    PROVE  TypeOK'
<1>1. EntryType'
  BY EntryEffect DEF TypeOK, Write, SaveShop, UpdateRow, DeleteEntry, CommitUpdate, UpdateFails
<1>2. RowType'
  <2>1. CASE SaveShop
    BY <2>1 DEF TypeOK, RowType, SaveShop, Commit
  <2>2. CASE UpdateRow
    BY <2>2 DEF TypeOK, RowType, UpdateRow
  <2>3. CASE DeleteEntry
    BY <2>3 DEF TypeOK, RowType, DeleteEntry
  <2>5. CASE UpdateFails
    BY <2>5 DEF TypeOK, RowType, UpdateFails, NoTx
  <2>4. CASE CommitUpdate
    <3>1. tx' = NoTx /\ last' = last /\ tx.version \in 0..last
      BY <2>4 DEF TypeOK, RowType, CommitUpdate
    <3>2. tx' \in [pc : {"none", "updated", "deleted"}, version : 0..last']
      BY <3>1 DEF TypeOK, RowType, NoTx
    <3>3. CASE row' = row /\ committed' = committed
      BY <3>1, <3>2, <3>3 DEF TypeOK, RowType
    <3>4. CASE Commit(tx.version)
      BY <3>1, <3>2, <3>4 DEF TypeOK, RowType, Commit
    <3> QED BY <2>4, <3>3, <3>4 DEF CommitUpdate
  <2> QED BY <2>1, <2>2, <2>3, <2>4, <2>5 DEF Write
<1>3. SpentType'
  BY SpendType DEF TypeOK, SpentType, NoTroubles, Write, SaveShop, UpdateRow, DeleteEntry,
     CommitUpdate, UpdateFails
<1>4. strategy' = strategy /\ ReaderType' /\ PoolType'
  BY DEF TypeOK, ReaderType, PoolType, At, Write, SaveShop, UpdateRow, DeleteEntry,
     CommitUpdate, UpdateFails, poolVars
<1> QED BY <1>1, <1>2, <1>3, <1>4 DEF TypeOK

LEMMA ReadType ==
    ASSUME TypeOK, NEW r \in Readers, Read(r)
    PROVE  TypeOK'
<1>a. ReaderType /\ cache.version \in Nat /\ row \in Nat
  BY DEF TypeOK, EntryType, RowType
<1>1. ReaderType'
  <2>1. CASE BeginRead(r)
    BY <2>1, <1>a DEF BeginRead, ReaderType, NewReader, ReaderState, At
  <2>2. CASE GetEntry(r)
    <3>1. CASE \E n \in Nat : Return(r, n)
      BY <3>1, <1>a, ReaderFields, LeaveEffect DEF Return
    <3>2. CASE \E pc \in {"rebuildMissing", "load", "lock"} : GoTo(r, pc)
      BY <3>2, <1>a, GoToType
    <3>3. CASE ServeStale(r)
      BY <3>3, <1>a DEF ServeStale, ReaderType, ReaderState, At
    <3> QED BY <2>2, <3>1, <3>2, <3>3, <1>a DEF GetEntry
  <2>3. CASE createRedisCash(r)
    BY <2>3, <1>a, ReaderFields, LeaveEffect, GoToType DEF createRedisCash, Return
  <2>4. CASE LockOrRetry(r)
    BY <2>4, <1>a DEF LockOrRetry, ReaderType, ReaderState, At
  <2>5. CASE Load(r)
    <3>1. CASE Return(r, row)
      BY <3>1, <1>a, ReaderFields, LeaveEffect DEF Return
    <3>2. CASE reader' = [reader EXCEPT ![r].pc = "put", ![r].version = row]
      BY <3>2, <1>a DEF ReaderType, ReaderState, At
    <3> QED BY <2>5, <3>1, <3>2 DEF Load
  <2>6. CASE Put(r)
    BY <2>6, <1>a, ReaderFields, LeaveEffect DEF Put, Return
  <2>7. CASE Unlock(r)
    BY <2>7, <1>a, ReaderFields, LeaveEffect DEF Unlock
  <2> QED BY <2>1, <2>2, <2>3, <2>4, <2>5, <2>6, <2>7 DEF Read
<1>2. EntryType'
  BY <1>a, ReaderFields, EntryEffect DEF TypeOK, Read, BeginRead, GetEntry, createRedisCash,
     LockOrRetry, Load, Put, Unlock, tryLock, unlock
<1>4. PoolType'
  BY DEF TypeOK, PoolType, Read, BeginRead, GetEntry, createRedisCash, LockOrRetry, Load, Put,
     Unlock, poolVars
<1>3. strategy' = strategy /\ RowType' /\ SpentType'
  BY DEF TypeOK, RowType, SpentType, Read, BeginRead, GetEntry, createRedisCash,
     LockOrRetry, Load, Put, Unlock, dbVars
<1> QED BY <1>1, <1>2, <1>3, <1>4 DEF TypeOK

LEMMA ReaderFailsType ==
    ASSUME TypeOK, NEW r \in Readers, ReaderFails(r)
    PROVE  TypeOK'
<1>1. /\ reader[r].unlocks \in Nat /\ reader[r].unlocks + 1 \in Nat
      /\ At(r, "unlock") => reader[r].unlocks - 1 \in Nat
  BY ReaderFields DEF TypeOK
<1>2. ReaderType'
  <2>1. CASE Leave(r, 0, TRUE, reader[r].unlocks)
    BY <1>1, <2>1, LeaveEffect DEF TypeOK
  <2>2. CASE Leave(r, 0, TRUE, reader[r].unlocks + 1)
    BY <1>1, <2>2, LeaveEffect DEF TypeOK
  <2>3. CASE At(r, "unlock") /\ Leave(r, 0, TRUE, reader[r].unlocks - 1)
    BY <1>1, <2>3, LeaveEffect DEF TypeOK
  <2> QED BY <2>1, <2>2, <2>3 DEF ReaderFails, Fail
<1>3. EntryType'
  BY ReaderFields, EntryEffect DEF TypeOK, ReaderFails, tryLock, unlock
<1>4. SpentType'
  BY SpendType DEF TypeOK, ReaderFails, NoTroubles
<1>5. strategy' = strategy /\ RowType' /\ PoolType'
  BY DEF TypeOK, RowType, PoolType, ReaderFails, dbVars, poolVars
<1> QED BY <1>2, <1>3, <1>4, <1>5 DEF TypeOK

LEMMA PoolStepType ==
    ASSUME TypeOK, NEW w \in Workers, Rebuild(w) \/ RebuildFails(w)
    PROVE  TypeOK'
<1>a. worker[w].version \in Nat /\ row \in Nat
  BY Numbers
<1>1. PoolType'
  <2>1. CASE TakeTask(w)
    BY <2>1 DEF TypeOK, PoolType, TakeTask
  <2>2. CASE /\ queued' = queued
             /\ worker' = [worker EXCEPT ![w] = [pc |-> "put", version |-> row]]
    BY <1>a, <2>2 DEF TypeOK, PoolType
  <2>3. CASE /\ queued' = queued
             /\ worker' = [worker EXCEPT ![w] = [pc |-> "unlock", version |-> 0]]
    BY <2>3 DEF TypeOK, PoolType
  <2>4. CASE queued' = queued /\ worker' = [worker EXCEPT ![w] = IdleWorker]
    BY <2>4 DEF TypeOK, PoolType, IdleWorker
  <2> QED BY <2>1, <2>2, <2>3, <2>4 DEF Rebuild, LoadForRebuild, PutRebuilt,
             UnlockAfterRebuild, RebuildFails
<1>4. EntryType'
  BY <1>a, EntryEffect DEF TypeOK, Rebuild, TakeTask, LoadForRebuild, PutRebuilt,
     UnlockAfterRebuild, RebuildFails, unlock
<1>2. SpentType'
  BY SpendType DEF TypeOK, SpentType, NoTroubles, Rebuild, TakeTask, LoadForRebuild, PutRebuilt,
     UnlockAfterRebuild, RebuildFails
<1>3. strategy' = strategy /\ RowType' /\ ReaderType'
  BY DEF TypeOK, RowType, ReaderType, At, Rebuild, TakeTask, LoadForRebuild, PutRebuilt,
     UnlockAfterRebuild, RebuildFails, dbVars
<1> QED BY <1>1, <1>2, <1>3, <1>4 DEF TypeOK

LEMMA WorldType ==
    ASSUME TypeOK, EntryExpires \/ LeaseExpires \/ Crash
    PROVE  TypeOK'
<1>1. strategy' = strategy /\ SpentType'
  BY SpendType DEF TypeOK, SpentType, NoTroubles, EntryExpires, LeaseExpires, Crash
<1>2. CASE EntryExpires \/ LeaseExpires
  <2>1. EntryType'
    <3>1. CASE cache' = [cache EXCEPT !.kind = "expired"] /\ lock' = lock
      BY <3>1 DEF TypeOK, EntryType
    <3> QED BY <1>2, <3>1, EntryEffect DEF TypeOK, EntryExpires, LeaseExpires
  <2>2. RowType' /\ ReaderType' /\ PoolType'
    BY <1>2 DEF TypeOK, RowType, ReaderType, PoolType, EntryExpires, LeaseExpires, At, dbVars,
       poolVars
  <2> QED BY <1>1, <2>1, <2>2 DEF TypeOK
<1>3. CASE Crash
  <2>1. ReaderType'
    <3>1. PICK R \in SUBSET Readers :
              reader' = [r \in Readers |->
                           IF r \in R THEN [NewReader EXCEPT !.pc = "failed"] ELSE reader[r]]
      BY <1>3 DEF Crash
    <3>2. [NewReader EXCEPT !.pc = "failed"] \in ReaderState
      BY DEF NewReader, ReaderState
    <3>3. reader' \in [Readers -> ReaderState]
      BY <3>1, <3>2 DEF TypeOK, ReaderType
    <3>4. \A r \in Readers : reader'[r].pc = "failed" \/ reader'[r] = reader[r]
      BY <3>1 DEF NewReader
    <3> QED BY <3>3, <3>4 DEF TypeOK, ReaderType, At
  <2>2. PoolType'
    <3>1. queued' \in Nat
      BY <1>3 DEF TypeOK, PoolType, Crash
    <3>2. PICK W \in SUBSET Workers :
              worker' = [w \in Workers |-> IF w \in W THEN IdleWorker ELSE worker[w]]
      BY <1>3 DEF Crash
    <3> QED BY <3>1, <3>2 DEF TypeOK, PoolType, IdleWorker
  <2>3. RowType' /\ EntryType'
    BY <1>3 DEF TypeOK, RowType, EntryType, Crash, NoTx
  <2> QED BY <1>1, <2>1, <2>2, <2>3 DEF TypeOK
<1> QED BY <1>2, <1>3

LEMMA TypeStep == TypeOK /\ [Next]_vars => TypeOK'
<1> SUFFICES ASSUME TypeOK, [Next]_vars PROVE TypeOK'
  OBVIOUS
<1>1. CASE UNCHANGED vars
  BY <1>1 DEF TypeOK, EntryType, RowType, ReaderType, PoolType, SpentType, vars, At
<1> QED BY <1>1, WriteType, ReadType, ReaderFailsType, PoolStepType, WorldType DEF Next

\* The state of the cache, the row and the threads keeps its shape.
THEOREM TypeCorrect == Spec => []TypeOK
BY InitType, TypeStep, PTL DEF Spec

-----------------------------------------------------------------------------
(* The inductive invariants behind the safety properties.                  *)

\* Versions only ever go up; a transaction works above the row it updates.
RowInv ==
    /\ committed \subseteq 0..row
    /\ row <= last
    /\ tx.version # 0 => row # 0 /\ row < tx.version

\* Who has a version in hand, to cache it or to answer with it, has a
\* committed one.
Answerable(n) == n \in committed \/ (strategy = ClientLogical /\ n = 0)

EntryServed == cache = NoEntry \/ cache.version \in committed

ReaderServed(r) ==
    /\ reader[r].pc \in {"rebuildStale", "put"} => reader[r].version \in committed
    /\ At(r, "done") \/ (At(r, "unlock") /\ ~reader[r].thrown) => Answerable(reader[r].version)

ServedInv ==
    /\ EntryServed
    /\ \A r \in Readers : ReaderServed(r)
    /\ \A w \in Workers : WorkerAt(w, "put") => worker[w].version \in committed

\* Readers of the logical strategies neither write the entry nor unlock.
PathInv ==
    strategy \in Logical =>
        \A r \in Readers : reader[r].unlocks = 0 /\ reader[r].pc \notin {"lock", "put", "unlock"}

\* A task holds the lock from its creation to its end, so there is one; and
\* what it is about to write is no older than what is there.
RebuildInv ==
    strategy \in Logical /\ spent.lapse = 0 =>
        /\ AtMostOneRebuild
        /\ queued > 0 \/ (\E w \in Workers : Busy(w)) => lock
        /\ \A w \in Workers : WorkerAt(w, "put") => worker[w].version >= cache.version
-----------------------------------------------------------------------------
(* OnlyCommittedIsServed.                                                  *)

\* History only grows, and the build stays what it is.
LEMMA HistoryGrows ==
    ASSUME TypeOK, [Next]_vars
    PROVE  committed \subseteq committed' /\ strategy' = strategy
<1>1. CASE Write \/ UNCHANGED vars
  BY <1>1 DEF Write, SaveShop, UpdateRow, DeleteEntry, CommitUpdate, UpdateFails, Commit, vars
<1>2. ASSUME NEW r \in Readers, Read(r) \/ ReaderFails(r)
      PROVE  committed \subseteq committed' /\ strategy' = strategy
  BY <1>2 DEF Read, BeginRead, GetEntry, createRedisCash, LockOrRetry, Load, Put, Unlock,
     ReaderFails, dbVars
<1>3. ASSUME NEW w \in Workers, Rebuild(w) \/ RebuildFails(w)
      PROVE  committed \subseteq committed' /\ strategy' = strategy
  BY <1>3 DEF Rebuild, TakeTask, LoadForRebuild, PutRebuilt, UnlockAfterRebuild, RebuildFails,
     dbVars
<1>4. CASE EntryExpires \/ LeaseExpires \/ Crash
  BY <1>4 DEF EntryExpires, LeaseExpires, Crash, dbVars
<1> QED BY <1>1, <1>2, <1>3, <1>4 DEF Next

LEMMA InitServed == Init => ServedInv
<1> SUFFICES ASSUME Init PROVE ServedInv
  OBVIOUS
<1>1. EntryServed
  BY DEF Init, EntryServed, Live
<1>2. \A r \in Readers : ReaderServed(r)
  BY DEF Init, ReaderServed, NewReader, At
<1>3. \A w \in Workers : ~WorkerAt(w, "put")
  BY DEF Init, IdleWorker, WorkerAt
<1> QED BY <1>1, <1>2, <1>3 DEF ServedInv

\* A reader that leaves with an answer must have an answerable one.
LEMMA LeaveServed ==
    ASSUME ReaderType, NEW r \in Readers, NEW n \in Nat, NEW thrown \in BOOLEAN,
           NEW left \in Nat, Leave(r, n, thrown, left), thrown \/ Answerable(n),
           committed' = committed, strategy' = strategy,
           \A s \in Readers : ReaderServed(s)
    PROVE  \A s \in Readers : ReaderServed(s)'
<1>1. ReaderServed(r)'
  BY LeaveEffect DEF ReaderServed, Answerable, At
<1>2. ASSUME NEW s \in Readers \ {r} PROVE ReaderServed(s)'
  BY <1>2, LeaveEffect DEF ReaderServed, Answerable, At
<1> QED BY <1>1, <1>2

\* A reader that goes on has a committed version, or none.
LEMMA GoOnServed ==
    ASSUME ReaderType, NEW r \in Readers, NEW s \in ReaderState,
           reader' = [reader EXCEPT ![r] = s],
           s.pc \in {"rebuildStale", "put"} => s.version \in committed,
           s.pc \notin {"done", "unlock"},
           committed' = committed, strategy' = strategy,
           \A t \in Readers : ReaderServed(t)
    PROVE  \A t \in Readers : ReaderServed(t)'
<1>1. ReaderServed(r)'
  BY DEF ReaderServed, At, ReaderType
<1>2. ASSUME NEW t \in Readers \ {r} PROVE ReaderServed(t)'
  BY <1>2 DEF ReaderServed, Answerable, At, ReaderType
<1> QED BY <1>1, <1>2

LEMMA ReadServed ==
    ASSUME TypeOK, ServedInv, NEW r \in Readers, Read(r)
    PROVE  ServedInv'
<1>a. /\ ReaderType /\ reader[r].version \in Nat /\ cache.version \in Nat /\ row \in Nat
      /\ reader[r].unlocks \in Nat /\ reader[r].thrown \in BOOLEAN
      /\ At(r, "unlock") => reader[r].unlocks - 1 \in Nat
      /\ row \in committed
  BY Numbers, ReaderFields DEF TypeOK, RowType
<1>b. /\ committed' = committed /\ strategy' = strategy /\ worker' = worker
  BY DEF Read, BeginRead, GetEntry, createRedisCash, LockOrRetry, Load, Put, Unlock, dbVars,
     poolVars
<1>c. ReaderServed(r) /\ EntryServed /\ \A s \in Readers : ReaderServed(s)
  BY DEF ServedInv
<1>1. EntryServed'
  <2>1. CASE Put(r)
    BY <1>b, <1>c, <2>1 DEF Put, EntryServed, ReaderServed, Live, At
  <2>2. CASE cache' = cache
    BY <1>b, <1>c, <2>2 DEF EntryServed
  <2> QED BY <2>1, <2>2 DEF Read, BeginRead, GetEntry, createRedisCash, LockOrRetry, Load, Unlock
<1>2. \A s \in Readers : ReaderServed(s)'
  <2>1. ASSUME NEW pc \in {"rebuildMissing", "load", "lock"}, GoTo(r, pc)
        PROVE  \A s \in Readers : ReaderServed(s)'
    <3> DEFINE next == [reader[r] EXCEPT !.pc = pc]
    <3>1. next \in ReaderState /\ next.pc = pc /\ reader' = [reader EXCEPT ![r] = next]
      BY <1>a, <2>1 DEF ReaderType, ReaderState, GoTo
    <3> HIDE DEF next
    <3> QED BY <1>a, <1>b, <1>c, <3>1, GoOnServed
  <2>2. ASSUME NEW n \in Nat, Return(r, n), Answerable(n)
        PROVE  \A s \in Readers : ReaderServed(s)'
    BY <1>a, <1>b, <1>c, <2>2, LeaveServed DEF Return
  <2>3. CASE BeginRead(r)
    <3> DEFINE next == [NewReader EXCEPT !.pc = "get"]
    <3>1. next \in ReaderState /\ next.pc = "get" /\ reader' = [reader EXCEPT ![r] = next]
      BY <2>3 DEF BeginRead, NewReader, ReaderState
    <3> HIDE DEF next
    <3> QED BY <1>a, <1>b, <1>c, <3>1, GoOnServed
  <2>4. CASE GetEntry(r)
    <3>1. CASE cache.kind = "live" /\ Return(r, cache.version)
      BY <1>a, <1>c, <2>2, <3>1 DEF EntryServed, Answerable, NoEntry
    <3>2. CASE cache.kind = "expired" /\ ServeStale(r)
      <4> DEFINE next == [reader[r] EXCEPT !.pc = "rebuildStale", !.version = cache.version]
      <4>1. next \in ReaderState /\ next.pc = "rebuildStale" /\ next.version = cache.version
        BY <1>a DEF ReaderType, ReaderState
      <4>2. reader' = [reader EXCEPT ![r] = next]
        BY <1>a, <3>2 DEF ServeStale, ReaderType, ReaderState
      <4>3. cache.version \in committed
        BY <1>c, <3>2 DEF EntryServed, NoEntry
      <4> HIDE DEF next
      <4> QED BY <1>a, <1>b, <1>c, <4>1, <4>2, <4>3, GoOnServed
    <3>3. CASE strategy = ClientLogical /\ Return(r, 0)
      BY <2>2, <3>3 DEF Answerable
    <3> QED BY <2>1, <2>4, <3>1, <3>2, <3>3 DEF GetEntry
  <2>5. CASE createRedisCash(r)
    <3>1. CASE At(r, "rebuildStale") /\ Return(r, reader[r].version)
      BY <1>a, <1>c, <2>2, <3>1 DEF ReaderServed, Answerable, At
    <3> QED BY <2>1, <2>5, <3>1 DEF createRedisCash
  <2>6. CASE LockOrRetry(r)
    <3>1. PICK pc \in {"load", "get"} :
              reader' = [reader EXCEPT ![r].pc = pc, ![r].unlocks = @ + 1]
      BY <2>6 DEF LockOrRetry
    <3> DEFINE next == [reader[r] EXCEPT !.pc = pc, !.unlocks = @ + 1]
    <3>2. next \in ReaderState /\ next.pc = pc /\ reader' = [reader EXCEPT ![r] = next]
      BY <1>a, <3>1 DEF ReaderType, ReaderState
    <3> HIDE DEF next
    <3> QED BY <1>a, <1>b, <1>c, <3>2, GoOnServed
  <2>7. CASE Load(r)
    <3>1. CASE Return(r, row)
      BY <1>a, <2>2, <3>1 DEF Answerable
    <3>2. CASE reader' = [reader EXCEPT ![r].pc = "put", ![r].version = row]
      <4> DEFINE next == [reader[r] EXCEPT !.pc = "put", !.version = row]
      <4>1. next \in ReaderState /\ next.pc = "put" /\ next.version = row
        BY <1>a DEF ReaderType, ReaderState
      <4>2. reader' = [reader EXCEPT ![r] = next]
        BY <1>a, <3>2 DEF ReaderType, ReaderState
      <4> HIDE DEF next
      <4> QED BY <1>a, <1>b, <1>c, <4>1, <4>2, GoOnServed
    <3> QED BY <2>7, <3>1, <3>2 DEF Load
  <2>8. CASE Put(r)
    BY <1>a, <1>c, <2>2, <2>8 DEF Put, ReaderServed, Answerable, At
  <2>9. CASE Unlock(r)
    <3>1. reader[r].thrown \/ Answerable(reader[r].version)
      BY <1>a, <1>c, <2>9 DEF Unlock, ReaderServed
    <3> QED BY <1>a, <1>b, <1>c, <2>9, <3>1, LeaveServed DEF Unlock
  <2> QED BY <2>3, <2>4, <2>5, <2>6, <2>7, <2>8, <2>9 DEF Read
<1> QED BY <1>b, <1>1, <1>2 DEF ServedInv, WorkerAt

LEMMA ReaderFailsServed ==
    ASSUME TypeOK, ServedInv, NEW r \in Readers, ReaderFails(r)
    PROVE  ServedInv'
<1>a. /\ ReaderType /\ reader[r].unlocks \in Nat /\ reader[r].unlocks + 1 \in Nat
      /\ At(r, "unlock") => reader[r].unlocks - 1 \in Nat
  BY ReaderFields DEF TypeOK
<1>b. /\ committed' = committed /\ strategy' = strategy /\ worker' = worker
      /\ \A s \in Readers : ReaderServed(s)
  BY DEF ReaderFails, ServedInv, dbVars, poolVars
<1>1. EntryServed'
  <2>1. CASE cache' = cache
    BY <1>b, <2>1 DEF ServedInv, EntryServed
  <2>2. CASE At(r, "put") /\ cache' = Live(reader[r].version)
    BY <1>b, <2>2 DEF EntryServed, ReaderServed, Live, At
  <2> QED BY <2>1, <2>2 DEF ReaderFails
<1>2. \A s \in Readers : ReaderServed(s)'
  <2>1. CASE Leave(r, 0, TRUE, reader[r].unlocks)
    BY <1>a, <1>b, <2>1, LeaveServed
  <2>2. CASE Leave(r, 0, TRUE, reader[r].unlocks + 1)
    BY <1>a, <1>b, <2>2, LeaveServed
  <2>3. CASE At(r, "unlock") /\ Leave(r, 0, TRUE, reader[r].unlocks - 1)
    BY <1>a, <1>b, <2>3, LeaveServed
  <2> QED BY <2>1, <2>2, <2>3 DEF ReaderFails, Fail
<1> QED BY <1>b, <1>1, <1>2 DEF ServedInv, WorkerAt

LEMMA PoolServed ==
    ASSUME TypeOK, ServedInv, NEW w \in Workers, Rebuild(w) \/ RebuildFails(w)
    PROVE  ServedInv'
<1>b. /\ committed' = committed /\ strategy' = strategy /\ reader' = reader
      /\ row \in committed
  BY DEF TypeOK, RowType, Rebuild, TakeTask, LoadForRebuild, PutRebuilt, UnlockAfterRebuild,
     RebuildFails, dbVars
<1>1. EntryServed'
  <2>1. CASE cache' = cache
    BY <1>b, <2>1 DEF ServedInv, EntryServed
  <2>2. CASE WorkerAt(w, "put") /\ cache' = Live(worker[w].version)
    BY <1>b, <2>2 DEF ServedInv, EntryServed, Live
  <2> QED BY <2>1, <2>2 DEF Rebuild, TakeTask, LoadForRebuild, PutRebuilt, UnlockAfterRebuild,
             RebuildFails
<1>2. \A r \in Readers : ReaderServed(r)'
  BY <1>b DEF ServedInv, ReaderServed, Answerable, At
<1>3. ASSUME NEW x \in Workers, WorkerAt(x, "put")' PROVE worker'[x].version \in committed'
  <2>1. CASE LoadForRebuild(w)
    BY <1>b, <1>3, <2>1 DEF TypeOK, PoolType, LoadForRebuild, ServedInv, WorkerAt
  <2>2. CASE ~LoadForRebuild(w)
    BY <1>b, <1>3, <2>2 DEF TypeOK, PoolType, ServedInv, WorkerAt, Rebuild, TakeTask,
       PutRebuilt, UnlockAfterRebuild, RebuildFails, IdleWorker
  <2> QED BY <2>1, <2>2
<1> QED BY <1>1, <1>2, <1>3 DEF ServedInv

LEMMA OtherServed ==
    ASSUME TypeOK, ServedInv,
           Write \/ EntryExpires \/ LeaseExpires \/ Crash \/ UNCHANGED vars
    PROVE  ServedInv'
<1>a. committed \subseteq committed' /\ strategy' = strategy
  BY HistoryGrows DEF Next
<1>1. EntryServed'
  <2>1. CASE EntryExpires
    BY <1>a, <2>1 DEF EntryExpires, TypeOK, EntryType, ServedInv, EntryServed, NoEntry
  <2>2. CASE cache' = cache \/ cache' = NoEntry
    BY <1>a, <2>2 DEF ServedInv, EntryServed
  <2> QED BY <2>1, <2>2 DEF Write, SaveShop, UpdateRow, DeleteEntry, CommitUpdate, UpdateFails,
             LeaseExpires, Crash, vars
<1>2. CASE reader' = reader /\ worker' = worker
  BY <1>a, <1>1, <1>2 DEF ServedInv, ReaderServed, Answerable, At, WorkerAt
<1>3. CASE Crash
  <2>1. ASSUME NEW r \in Readers PROVE reader'[r].pc = "failed" \/ reader'[r] = reader[r]
    BY <1>3 DEF Crash, NewReader
  <2>2. ASSUME NEW w \in Workers PROVE worker'[w].pc = "idle" \/ worker'[w] = worker[w]
    BY <1>3 DEF Crash, IdleWorker
  <2>3. \A r \in Readers : ReaderServed(r)'
    BY <1>a, <2>1 DEF ServedInv, ReaderServed, Answerable, At
  <2>4. \A w \in Workers : WorkerAt(w, "put")' => worker'[w].version \in committed'
    BY <1>a, <2>2 DEF ServedInv, WorkerAt
  <2> QED BY <1>1, <2>3, <2>4 DEF ServedInv
<1> QED BY <1>2, <1>3 DEF Write, SaveShop, UpdateRow, DeleteEntry, CommitUpdate, UpdateFails,
           EntryExpires, LeaseExpires, vars, poolVars

LEMMA StepKeepsServedInv == TypeOK /\ ServedInv /\ [Next]_vars => ServedInv'
BY ReadServed, ReaderFailsServed, PoolServed, OtherServed DEF Next

\* Readers are answered, and the cache is filled, with versions the row has had.
THEOREM OnlyCommitted == Spec => []OnlyCommittedIsServed
<1>1. TypeOK /\ ServedInv => OnlyCommittedIsServed
  BY DEF ServedInv, EntryServed, ReaderServed, Answerable, OnlyCommittedIsServed,
     NoEntry
<1> QED BY <1>1, InitServed, TypeCorrect, StepKeepsServedInv, PTL DEF Spec
-----------------------------------------------------------------------------
(* OneRebuildWithinLease and EntryNeverGoesBack.                           *)

LEMMA InitRebuild == Init => RowInv /\ PathInv /\ RebuildInv
<1> SUFFICES ASSUME Init PROVE RowInv /\ PathInv /\ RebuildInv
  OBVIOUS
<1>1. RowInv
  BY DEF Init, RowInv, NoTx
<1>2. PathInv
  BY DEF Init, PathInv, NewReader
<1>3. \A w \in Workers : ~Busy(w) /\ ~WorkerAt(w, "put")
  BY DEF Init, IdleWorker, Busy, WorkerAt
<1>4. queued = 0
  BY DEF Init
<1> QED BY <1>1, <1>2, <1>3, <1>4 DEF RebuildInv, AtMostOneRebuild

LEMMA StepKeepsRowInv == TypeOK /\ RowInv /\ [Next]_vars => RowInv'
<1> SUFFICES ASSUME TypeOK, RowInv, [Next]_vars PROVE RowInv'
  OBVIOUS
<1>a. row \in Nat /\ last \in Nat /\ tx.version \in Nat
  BY Numbers
<1>1. CASE SaveShop
  <2>1. tx.version = 0 /\ tx' = tx
    BY <1>1 DEF RowInv, SaveShop
  <2> QED BY <1>a, <1>1, <2>1 DEF RowInv, SaveShop, Commit
<1>2. CASE UpdateRow
  BY <1>a, <1>2 DEF RowInv, UpdateRow
<1>3. CASE CommitUpdate
  <2>1. CASE row' = row /\ committed' = committed
    BY <1>a, <1>3, <2>1 DEF RowInv, CommitUpdate, NoTx
  <2>2. CASE tx.version # 0 /\ Commit(tx.version)
    <3>1. tx.version <= last /\ last' = last /\ tx' = NoTx
      BY <1>a, <1>3 DEF TypeOK, RowType, CommitUpdate
    <3>2. row < tx.version /\ row' = tx.version /\ committed' = committed \cup {tx.version}
      BY <2>2 DEF RowInv, Commit
    <3>3. committed' \subseteq 0..row'
      <4>1. \A n \in committed : n \in Nat /\ n <= row
        BY <1>a DEF RowInv
      <4>2. \A n \in committed : n \in 0..tx.version
        BY <1>a, <3>2, <4>1
      <4> QED BY <1>a, <3>2, <4>2
    <3> QED BY <1>a, <3>1, <3>2, <3>3 DEF RowInv, NoTx
  <2> QED BY <1>3, <2>1, <2>2 DEF CommitUpdate
<1>4. ASSUME UNCHANGED <<row, committed, last>>, tx'.version = tx.version \/ tx' = NoTx
      PROVE  RowInv'
  BY <1>a, <1>4 DEF RowInv, NoTx
<1>5. CASE DeleteEntry
  BY <1>4, <1>5 DEF DeleteEntry, TypeOK, RowType
<1>6. CASE UpdateFails \/ Crash
  BY <1>4, <1>6 DEF UpdateFails, Crash
<1>7. CASE EntryExpires \/ LeaseExpires \/ UNCHANGED vars
  BY <1>4, <1>7 DEF EntryExpires, LeaseExpires, vars, dbVars
<1>8. ASSUME NEW r \in Readers, Read(r) \/ ReaderFails(r)
      PROVE  RowInv'
  BY <1>4, <1>8 DEF Read, BeginRead, GetEntry, createRedisCash, LockOrRetry, Load, Put, Unlock,
     ReaderFails, dbVars
<1>9. ASSUME NEW w \in Workers, Rebuild(w) \/ RebuildFails(w)
      PROVE  RowInv'
  BY <1>4, <1>9 DEF Rebuild, TakeTask, LoadForRebuild, PutRebuilt, UnlockAfterRebuild,
     RebuildFails, dbVars
<1> QED BY <1>1, <1>2, <1>3, <1>5, <1>6, <1>7, <1>8, <1>9 DEF Next, Write

\* A reader that neither takes the mutex nor loads to put stays off the path.
LEMMA StepKeepsPathInv == TypeOK /\ PathInv /\ [Next]_vars => PathInv'
<1> SUFFICES ASSUME TypeOK, PathInv, [Next]_vars, strategy \in Logical
             PROVE  PathInv'
  BY HistoryGrows DEF PathInv
<1>a. strategy # Mutex /\ strategy # PassThrough
  BY DEF Logical, ServiceLogical, ClientLogical, Mutex, PassThrough
<1>b. \A r \in Readers : reader[r].unlocks = 0 /\ reader[r].pc \notin {"lock", "put", "unlock"}
  BY DEF PathInv
<1>c. reader \in [Readers -> ReaderState]
  BY DEF TypeOK, ReaderType
<1>1. ASSUME NEW r \in Readers, Read(r) \/ ReaderFails(r)
      PROVE  PathInv'
  <2>1. ASSUME NEW n \in Nat, NEW thrown \in BOOLEAN, Leave(r, n, thrown, 0)
        PROVE  PathInv'
    <3>1. /\ reader'[r].unlocks = 0 /\ reader'[r].pc \in {"failed", "done"}
          /\ \A s \in Readers \ {r} : reader'[s] = reader[s]
      BY <1>c, <2>1 DEF Leave, ReaderState
    <3> QED BY <1>b, <3>1 DEF PathInv
  <2>2. ASSUME NEW pc \in {"rebuildMissing", "load"}, GoTo(r, pc)
        PROVE  PathInv'
    <3>1. /\ reader'[r].unlocks = 0 /\ reader'[r].pc = pc
          /\ \A s \in Readers \ {r} : reader'[s] = reader[s]
      BY <1>b, <1>c, <2>2 DEF GoTo, ReaderState
    <3> QED BY <1>b, <3>1 DEF PathInv
  <2>3. CASE BeginRead(r)
    <3>1. /\ reader'[r].unlocks = 0 /\ reader'[r].pc = "get"
          /\ \A s \in Readers \ {r} : reader'[s] = reader[s]
      BY <1>c, <2>3 DEF BeginRead, NewReader
    <3> QED BY <1>b, <3>1 DEF PathInv
  <2>4. CASE ServeStale(r)
    <3>1. /\ reader'[r].unlocks = 0 /\ reader'[r].pc = "rebuildStale"
          /\ \A s \in Readers \ {r} : reader'[s] = reader[s]
      BY <1>b, <1>c, <2>4 DEF ServeStale, ReaderState
    <3> QED BY <1>b, <3>1 DEF PathInv
  <2>5. ASSUME NEW n \in Nat, Return(r, n) PROVE PathInv'
    BY <1>b, <2>1, <2>5 DEF Return
  <2>6. cache.version \in Nat /\ row \in Nat /\ reader[r].version \in Nat
    BY Numbers
  <2>7. CASE GetEntry(r)
    BY <1>a, <2>2, <2>4, <2>5, <2>6, <2>7 DEF GetEntry
  <2>8. CASE createRedisCash(r)
    BY <2>2, <2>5, <2>6, <2>8 DEF createRedisCash
  <2>9. CASE Load(r)
    BY <1>a, <2>5, <2>6, <2>9 DEF Load
  <2>10. CASE LockOrRetry(r) \/ Put(r) \/ Unlock(r)
    BY <1>b, <2>10 DEF LockOrRetry, Put, Unlock, At
  <2>11. CASE ReaderFails(r)
    BY <1>b, <2>1, <2>11 DEF ReaderFails, Fail, At
  <2> QED BY <1>1, <2>3, <2>7, <2>8, <2>9, <2>10, <2>11 DEF Read
<1>2. CASE reader' = reader
  BY <1>b, <1>2 DEF PathInv
<1>3. CASE Crash
  <2>1. \A r \in Readers : \/ reader'[r] = reader[r]
                           \/ reader'[r].unlocks = 0 /\ reader'[r].pc = "failed"
    BY <1>3 DEF Crash, NewReader
  <2> QED BY <1>b, <2>1 DEF PathInv
<1> QED BY <1>1, <1>2, <1>3 DEF Next, Write, SaveShop, UpdateRow, DeleteEntry, CommitUpdate,
           UpdateFails, Rebuild, TakeTask, LoadForRebuild, PutRebuilt, UnlockAfterRebuild,
           RebuildFails, EntryExpires, LeaseExpires, vars

\* What RebuildInv says of a state in which it says something.
RebuildFacts ==
    /\ AtMostOneRebuild
    /\ queued > 0 \/ (\E w \in Workers : Busy(w)) => lock
    /\ \A w \in Workers : WorkerAt(w, "put") => worker[w].version >= cache.version

\* A step of the readers adds a task only if it takes the lock.
LEMMA ReadersKeepRebuild ==
    ASSUME TypeOK, PathInv, strategy \in Logical, RebuildFacts,
           NEW r \in Readers, Read(r) \/ ReaderFails(r)
    PROVE  RebuildFacts'
<1>a. /\ ~At(r, "put") /\ ~At(r, "unlock") /\ queued \in Nat
      /\ reader[r].pc \notin {"lock", "put", "unlock"}
  BY DEF TypeOK, PoolType, PathInv, At
<1>1. cache' = cache /\ worker' = worker
  BY <1>a DEF Read, BeginRead, GetEntry, createRedisCash, LockOrRetry, Load, Put, Unlock,
     ReaderFails, poolVars
<1>2. CASE lock' = lock /\ queued' = queued
  BY <1>1, <1>2 DEF RebuildFacts, AtMostOneRebuild, Busy, WorkerAt
<1>3. CASE ~lock /\ lock' = TRUE /\ queued' \in {queued, queued + 1}
  <2>1. queued = 0 /\ \A w \in Workers : ~Busy(w)
    BY <1>a, <1>3 DEF RebuildFacts
  <2>2. queued' \in {0, 1} /\ \A w \in Workers : ~Busy(w)' /\ ~WorkerAt(w, "put")'
    BY <1>1, <1>3, <2>1 DEF Busy, WorkerAt
  <2> QED BY <1>3, <2>2 DEF RebuildFacts, AtMostOneRebuild
<1> QED BY <1>a, <1>2, <1>3 DEF Read, BeginRead, GetEntry, createRedisCash, LockOrRetry, Load,
           Put, Unlock, ReaderFails, tryLock, poolVars, At

\* A pool thread passes its task on from step to step; the next begins after
\* its unlock().
LEMMA PoolKeepsRebuild ==
    ASSUME TypeOK, RowInv, ServedInv, strategy \in Logical, RebuildFacts,
           NEW w \in Workers, Rebuild(w) \/ RebuildFails(w)
    PROVE  RebuildFacts'
<1>a. queued \in Nat /\ row \in Nat /\ cache.version \in Nat /\ worker[w].version \in Nat
  BY Numbers DEF TypeOK, PoolType
<1>b. worker \in [Workers -> [pc : {"idle", "load", "put", "unlock"}, version : Nat]]
  BY DEF TypeOK, PoolType
<1>c. \A x \in Workers \ {w} : worker'[x] = worker[x]
  BY <1>b DEF Rebuild, TakeTask, LoadForRebuild, PutRebuilt, UnlockAfterRebuild, RebuildFails
<1>d. \/ queued > 0 /\ queued' = queued - 1 /\ TakeTask(w)
      \/ queued' = queued /\ Busy(w)
  BY DEF Rebuild, TakeTask, LoadForRebuild, PutRebuilt, UnlockAfterRebuild, RebuildFails, Busy,
     WorkerAt
<1>e. queued' = 0 /\ \A x \in Workers \ {w} : ~Busy(x) /\ ~Busy(x)' /\ ~WorkerAt(x, "put")'
  <2>1. CASE TakeTask(w) /\ queued > 0 /\ queued' = queued - 1
    BY <1>a, <1>c, <2>1 DEF RebuildFacts, AtMostOneRebuild, Busy, WorkerAt
  <2>2. CASE queued' = queued /\ Busy(w)
    BY <1>c, <2>2 DEF RebuildFacts, AtMostOneRebuild, Busy, WorkerAt
  <2> QED BY <1>d, <2>1, <2>2
<1>1. AtMostOneRebuild'
  BY <1>e DEF AtMostOneRebuild
<1>2. Busy(w)' => lock'
  <2>1. lock
    BY <1>d DEF RebuildFacts
  <2>2. CASE lock' = lock
    BY <2>1, <2>2
  <2>3. CASE worker' = [worker EXCEPT ![w] = IdleWorker]
    BY <1>b, <2>3 DEF Busy, WorkerAt, IdleWorker
  <2> QED BY <2>2, <2>3 DEF Rebuild, TakeTask, LoadForRebuild, PutRebuilt, UnlockAfterRebuild,
             RebuildFails
<1>3. WorkerAt(w, "put")' => worker'[w].version >= cache'.version
  <2>1. CASE LoadForRebuild(w)
    <3>1. worker'[w].version = row /\ cache' = cache
      BY <1>b, <2>1 DEF LoadForRebuild
    <3>2. cache.version <= row
      BY <1>a DEF ServedInv, EntryServed, RowInv, NoEntry
    <3> QED BY <1>a, <3>1, <3>2
  <2>2. CASE ~LoadForRebuild(w)
    BY <1>b, <2>2 DEF Rebuild, TakeTask, PutRebuilt, UnlockAfterRebuild, RebuildFails, WorkerAt,
       IdleWorker
  <2> QED BY <2>1, <2>2
<1> QED BY <1>1, <1>2, <1>3, <1>e DEF RebuildFacts
\* Writers only delete the entry; a lease ends in time; a crash keeps the lock.
LEMMA OthersKeepRebuild ==
    ASSUME TypeOK, strategy \in Logical, spent.lapse = 0, (spent.lapse)' = 0, RebuildFacts,
           Write \/ EntryExpires \/ LeaseExpires \/ Crash \/ UNCHANGED vars
    PROVE  RebuildFacts'
<1>a. /\ queued \in Nat /\ cache.version \in Nat
      /\ \A w \in Workers : worker[w].version \in Nat
  BY Numbers DEF TypeOK, PoolType
<1>1. CASE UNCHANGED <<lock, queued, worker>> /\ cache'.version \in {cache.version, 0}
  BY <1>a, <1>1 DEF RebuildFacts, AtMostOneRebuild, Busy, WorkerAt
<1>2. CASE Write \/ UNCHANGED vars
  BY <1>1, <1>2 DEF Write, SaveShop, UpdateRow, DeleteEntry, CommitUpdate, UpdateFails, NoEntry,
     poolVars, vars
<1>3. CASE EntryExpires
  BY <1>1, <1>3 DEF EntryExpires, TypeOK, EntryType, poolVars
<1>4. CASE LeaseExpires
  <2>1. ~AtWork
    BY <1>4 DEF LeaseExpires, Spend, TypeOK, SpentType, NoTroubles
  <2>2. queued' = 0 /\ \A w \in Workers : ~Busy(w)' /\ ~WorkerAt(w, "put")'
    BY <1>a, <1>4, <2>1 DEF AtWork, LeaseExpires, Busy, WorkerAt, poolVars
  <2> QED BY <2>2 DEF RebuildFacts, AtMostOneRebuild
<1>5. CASE Crash
  <2>1. lock' = lock /\ cache' = cache /\ queued' \in 0..queued
    BY <1>5 DEF Crash
  <2>2. \A w \in Workers : worker'[w].pc = "idle" \/ worker'[w] = worker[w]
    BY <1>5 DEF Crash, IdleWorker
  <2>4. AtMostOneRebuild'
    <3>1. queued' <= queued /\ queued' \in Nat
      BY <1>a, <2>1
    <3> QED BY <1>a, <2>2, <3>1 DEF RebuildFacts, AtMostOneRebuild, Busy, WorkerAt
  <2>5. (queued > 0 \/ \E w \in Workers : Busy(w))' => lock'
    BY <1>a, <2>1, <2>2 DEF RebuildFacts, Busy, WorkerAt
  <2>6. \A w \in Workers : WorkerAt(w, "put")' => worker'[w].version >= cache'.version
    BY <2>1, <2>2 DEF RebuildFacts, WorkerAt
  <2> QED BY <2>4, <2>5, <2>6 DEF RebuildFacts
<1> QED BY <1>2, <1>3, <1>4, <1>5

LEMMA StepKeepsRebuildInv ==
    TypeOK /\ RowInv /\ ServedInv /\ PathInv /\ RebuildInv /\ [Next]_vars => RebuildInv'
<1> SUFFICES ASSUME TypeOK, RowInv, ServedInv, PathInv, RebuildInv, [Next]_vars,
                    strategy' \in Logical, (spent.lapse)' = 0
             PROVE  RebuildFacts'
  BY DEF RebuildInv, RebuildFacts
<1>1. strategy \in Logical
  BY HistoryGrows
<1>2. spent.lapse = 0
  <2>1. CASE spent' = spent
    BY <2>1
  <2>2. ASSUME NEW kind \in DOMAIN NoTroubles, Spend(kind) PROVE spent.lapse = 0
    BY <2>2, SpendType DEF TypeOK
  <2> QED BY <2>1, <2>2 DEF NoTroubles, Next, Write, SaveShop, UpdateRow, DeleteEntry, CommitUpdate,
             UpdateFails, Read, BeginRead, GetEntry, createRedisCash, LockOrRetry, Load, Put,
             Unlock, ReaderFails, Rebuild, TakeTask, LoadForRebuild, PutRebuilt,
             UnlockAfterRebuild, RebuildFails, EntryExpires, LeaseExpires, Crash, vars
<1>3. RebuildFacts
  BY <1>1, <1>2 DEF RebuildInv, RebuildFacts
<1> QED BY <1>1, <1>2, <1>3, ReadersKeepRebuild, PoolKeepsRebuild, OthersKeepRebuild DEF Next

\* All the invariants, together and by themselves inductive.
CacheInv == TypeOK /\ RowInv /\ ServedInv /\ PathInv /\ RebuildInv

LEMMA CacheInvHolds == Spec => []CacheInv
<1>1. Init => CacheInv
  BY InitType, InitServed, InitRebuild DEF CacheInv
<1>2. CacheInv /\ [Next]_vars => CacheInv'
  BY TypeStep, StepKeepsRowInv, StepKeepsServedInv, StepKeepsPathInv, StepKeepsRebuildInv
     DEF CacheInv
<1> QED BY <1>1, <1>2, PTL DEF Spec

\* Of a shop of a logical strategy there is at most one rebuild, queued or
\* running, as long as none outlives the lease of the lock.
THEOREM OneRebuild == Spec => []OneRebuildWithinLease
<1>1. CacheInv => OneRebuildWithinLease
  BY DEF CacheInv, RebuildInv, OneRebuildWithinLease
<1> QED BY <1>1, CacheInvHolds, PTL

\* Until then the entry of such a shop is never replaced by an older version.
THEOREM NeverBack == Spec => EntryNeverGoesBack
<1> DEFINE A == \/ strategy \notin Logical
                \/ spent.lapse # 0
                \/ cache.kind = "none"
                \/ (cache.kind)' = "none"
                \/ (cache.version)' >= cache.version
<1>1. CacheInv /\ [Next]_vars => [A]_vars
  <2> SUFFICES ASSUME CacheInv, Next, strategy \in Logical, spent.lapse = 0
               PROVE  (cache.kind)' = "none" \/ (cache.version)' >= cache.version
    OBVIOUS
  <2>a. /\ TypeOK /\ cache.version \in Nat
        /\ \A w \in Workers : WorkerAt(w, "put") => worker[w].version >= cache.version
        /\ \A r \in Readers : ~At(r, "put")
    BY Numbers DEF CacheInv, RebuildInv, PathInv, At
  <2>1. CASE cache' = cache \/ cache' = NoEntry
    BY <2>a, <2>1 DEF NoEntry
  <2>2. ASSUME NEW w \in Workers, WorkerAt(w, "put"), cache' = Live(worker[w].version)
        PROVE  (cache.version)' >= cache.version
    BY <2>a, <2>2 DEF Live
  <2>3. CASE EntryExpires
    BY <2>a, <2>3 DEF EntryExpires, TypeOK, EntryType
  <2>4. ASSUME NEW r \in Readers, Read(r) \/ ReaderFails(r) PROVE cache' = cache
    BY <2>a, <2>4 DEF Read, BeginRead, GetEntry, createRedisCash, LockOrRetry, Load, Put, Unlock,
       ReaderFails
  <2>5. ASSUME NEW w \in Workers, Rebuild(w) \/ RebuildFails(w)
        PROVE  cache' = cache \/ (WorkerAt(w, "put") /\ cache' = Live(worker[w].version))
    BY <2>5 DEF Rebuild, TakeTask, LoadForRebuild, PutRebuilt, UnlockAfterRebuild, RebuildFails
  <2>6. CASE Write \/ LeaseExpires \/ Crash
    BY <2>6, <2>1 DEF Write, SaveShop, UpdateRow, DeleteEntry, CommitUpdate, UpdateFails,
       LeaseExpires, Crash
  <2> QED BY <2>1, <2>2, <2>3, <2>4, <2>5, <2>6 DEF Next
<1> QED BY <1>1, CacheInvHolds, PTL DEF Spec, EntryNeverGoesBack
=============================================================================
