----------------------------- MODULE ShopCache -----------------------------
(***************************************************************************)
(* The cache entry of one shop, its rebuild lock and its row.  Different   *)
(* shops share nothing but the threads of the rebuild pool.                *)
(*                                                                         *)
(* ShopServiceImpl.queryById has five bodies, of which the comments select *)
(* one; "strategy" is the one a build has, and never changes.  All builds  *)
(* share update(), saveShop() and the lock.  A shop is the version of its  *)
(* row; version 0 is "no such row".  Readers are request threads, Workers  *)
(* the threads of CACHE_REBUILD_EXECUTOR, of whichever instances.          *)
(***************************************************************************)
EXTENDS Integers

CONSTANTS
    Readers,
    Workers,
    Strategies,   \* the builds considered
    Expiring,     \* do entries live short enough to expire?
    \* Bounds of the model, all in the guards:
    MaxVersion,   \* versions written to the row
    MaxRetries,   \* recursive calls of queryWithMutex in one request
    MaxTroubles   \* failing calls, lapsing leases and crashes, taken together

ASSUME ExpiringAssumption == Expiring \in BOOLEAN
ASSUME BoundsAssumption == {MaxVersion, MaxRetries, MaxTroubles} \subseteq Nat

ServiceLogical == "service logical"   \* ShopServiceImpl.queryWithLogicalExpire: the live one
ClientLogical == "client logical"     \* CacheClient.queryWithLogicalExpire
Mutex == "mutex"                      \* ShopServiceImpl.queryWithMutex
PassThrough == "pass through"         \* queryWithPassThrough, of either class

Logical == {ServiceLogical, ClientLogical}

ASSUME StrategiesAssumption == Strategies \subseteq Logical \cup {Mutex, PassThrough}

VARIABLES
    strategy,
    cache,      \* the entry: its kind ("none", "live", "expired") and version
    lock,       \* does the key lock:shop:<id> exist?  Its value is always "1"
    row,        \* the committed version of the row in tb_shop
    committed,  \* the versions the row has had (history)
    last,       \* the last version handed out, committed or not
    tx,         \* the transaction of update(); the row lock admits one
    reader,     \* the request threads
    queued,     \* rebuild tasks no pool thread has taken yet
    worker,     \* the pool threads
    spent       \* the troubles there have been, by kind

dbVars == <<row, committed, last, tx>>
poolVars == <<queued, worker>>
vars == <<strategy, cache, lock, row, committed, last, tx, reader, queued, worker, spent>>

NoEntry == [kind |-> "none", version |-> 0]
Live(n) == [kind |-> "live", version |-> n]

NoTx == [pc |-> "none", version |-> 0]
IdleWorker == [pc |-> "idle", version |-> 0]
NewReader == [pc |-> "idle", version |-> 0, unlocks |-> 0, thrown |-> FALSE]

\* Calls that fail, with their effect or without; leases of the lock that end
\* while its holder is at work; process crashes.
NoTroubles == [fault |-> 0, lapse |-> 0, crash |-> 0]

Spend(kind) ==
    /\ spent.fault + spent.lapse + spent.crash < MaxTroubles
    /\ spent' = [spent EXCEPT ![kind] = @ + 1]

\* The row may be there already, and the entry loaded with it.
Init ==
    /\ strategy \in Strategies
    /\ row \in {0, 1}
    /\ committed = {row}
    /\ last = row
    /\ cache \in {NoEntry, Live(row)}
    /\ lock = FALSE
    /\ tx = NoTx
    /\ reader = [r \in Readers |-> NewReader]
    /\ queued = 0
    /\ worker = [w \in Workers |-> IdleWorker]
    /\ spent = NoTroubles

-----------------------------------------------------------------------------
(* Writers.  saveShop inserts and leaves the cache alone.  update deletes  *)
(* the entry inside its transaction, which ends after that.                *)

Commit(n) ==
    /\ row' = n
    /\ committed' = committed \cup {n}

SaveShop ==
    /\ row = 0
    /\ last < MaxVersion
    /\ last' = last + 1
    /\ Commit(last + 1)
    /\ UNCHANGED <<strategy, cache, lock, tx, reader, poolVars, spent>>

\* An UPDATE that matches no row leaves nothing to commit (version 0).
UpdateRow ==
    /\ tx = NoTx
    /\ last < MaxVersion
    /\ \/ row # 0 /\ last' = last + 1 /\ tx' = [pc |-> "updated", version |-> last + 1]
       \/ row = 0 /\ UNCHANGED last /\ tx' = [pc |-> "updated", version |-> 0]
    /\ UNCHANGED <<strategy, cache, lock, row, committed, reader, poolVars, spent>>

\* Mutant: the new row is put into the cache instead.
WriteEntry ==
    /\ tx.pc = "updated"
    /\ cache' = Live(tx.version)
    /\ tx' = [tx EXCEPT !.pc = "deleted"]
    /\ UNCHANGED <<strategy, lock, row, committed, last, reader, poolVars, spent>>

DeleteEntry ==
    /\ tx.pc = "updated"
    /\ cache' = NoEntry
    /\ tx' = [tx EXCEPT !.pc = "deleted"]
    /\ UNCHANGED <<strategy, lock, row, committed, last, reader, poolVars, spent>>

CommitUpdate ==
    /\ tx.pc = "deleted"
    /\ IF tx.version = 0 THEN UNCHANGED <<row, committed>> ELSE Commit(tx.version)
    /\ tx' = NoTx
    /\ UNCHANGED <<strategy, cache, lock, last, reader, poolVars, spent>>

\* The DEL fails, with its effect or without, or the commit does.
UpdateFails ==
    /\ tx # NoTx
    /\ \/ UNCHANGED cache
       \/ tx.pc = "updated" /\ cache' = NoEntry
    /\ tx' = NoTx
    /\ Spend("fault")
    /\ UNCHANGED <<strategy, lock, row, committed, last, reader, poolVars>>

-----------------------------------------------------------------------------
(* The lock: SET key "1" NX EX 10, and an unconditional DEL.               *)

TryLockIgnored ==   \* mutant: the answer is not looked at
    lock' = TRUE

tryLock ==
    /\ ~lock
    /\ lock' = TRUE

unlock == lock' = FALSE

-----------------------------------------------------------------------------
(* Readers.                                                                *)

At(r, pc) == reader[r].pc = pc
GoTo(r, pc) == reader' = [reader EXCEPT ![r].pc = pc]

\* Mutant: every body ends in the finally block, those too that take no lock.
LeaveThroughFinally(r, n, thrown, left) ==
    reader' = [reader EXCEPT ![r] = [pc |-> "unlock", version |-> IF thrown THEN 0 ELSE n,
                                     unlocks |-> left, thrown |-> thrown]]

\* The thread leaves a method body, with an answer or an exception, through
\* the finally blocks that are left.
Leave(r, n, thrown, left) ==
    reader' = [reader EXCEPT ![r] =
                 [pc |-> IF left > 0 THEN "unlock" ELSE IF thrown THEN "failed" ELSE "done",
                  version |-> IF thrown THEN 0 ELSE n,
                  unlocks |-> left,
                  thrown |-> thrown /\ left > 0]]

Return(r, n) == Leave(r, n, FALSE, reader[r].unlocks)
Fail(r) == Leave(r, 0, TRUE, reader[r].unlocks)

BeginRead(r) ==
    /\ reader[r].pc \in {"idle", "done", "failed"}
    /\ reader' = [reader EXCEPT ![r] = [NewReader EXCEPT !.pc = "get"]]
    /\ UNCHANGED <<strategy, cache, lock, dbVars, poolVars, spent>>

ServeStale(r) ==
    reader' = [reader EXCEPT ![r].pc = "rebuildStale", ![r].version = cache.version]

\* GET of the entry, and what each body does with the answer.
GetEntry(r) ==
    /\ At(r, "get")
    /\ \/ cache.kind = "live" /\ Return(r, cache.version)
       \/ cache.kind = "expired" /\ ServeStale(r)
       \/ cache.kind = "none" /\ strategy = ServiceLogical /\ GoTo(r, "rebuildMissing")
       \/ cache.kind = "none" /\ strategy = ClientLogical /\ Return(r, 0)
       \/ cache.kind = "none" /\ strategy = PassThrough /\ GoTo(r, "load")
       \/ cache.kind = "none" /\ strategy = Mutex /\ GoTo(r, "lock")
    /\ UNCHANGED <<strategy, cache, lock, dbVars, poolVars, spent>>

\* createRedisCash: with the lock, a task is handed to the pool.
createRedisCash(r) ==
    /\ \/ At(r, "rebuildStale") /\ Return(r, reader[r].version)
       \/ At(r, "rebuildMissing") /\ GoTo(r, "load")
    /\ \/ tryLock /\ queued' = queued + 1
       \/ lock /\ UNCHANGED <<lock, queued>>
    /\ UNCHANGED <<strategy, cache, dbVars, worker, spent>>

\* queryWithMutex: with the lock, load; without it, sleep and call itself.
\* Either way the finally block of this call will run unlock().
LockOrRetry(r) ==
    /\ At(r, "lock")
    /\ \/ /\ tryLock
          /\ reader' = [reader EXCEPT ![r].pc = "load", ![r].unlocks = @ + 1]
       \/ /\ lock /\ UNCHANGED lock
          /\ reader[r].unlocks < MaxRetries
          /\ reader' = [reader EXCEPT ![r].pc = "get", ![r].unlocks = @ + 1]
    /\ UNCHANGED <<strategy, cache, dbVars, poolVars, spent>>

Load(r) ==
    /\ At(r, "load")
    /\ \/ strategy = ServiceLogical /\ Return(r, row)
       \/ /\ strategy \in {Mutex, PassThrough}
          /\ reader' = [reader EXCEPT ![r].pc = "put", ![r].version = row]
    /\ UNCHANGED <<strategy, cache, lock, dbVars, poolVars, spent>>

\* A row is written with its lifetime, "" with that of a negative entry.
Put(r) ==
    /\ At(r, "put")
    /\ cache' = Live(reader[r].version)
    /\ Return(r, reader[r].version)
    /\ UNCHANGED <<strategy, lock, dbVars, poolVars, spent>>

\* One finally block; the calls it returns through have theirs.
Unlock(r) ==
    /\ At(r, "unlock")
    /\ unlock
    /\ Leave(r, reader[r].version, reader[r].thrown, reader[r].unlocks - 1)
    /\ UNCHANGED <<strategy, cache, dbVars, poolVars, spent>>

\* A call of the thread fails, with its effect or without.
ReaderFails(r) ==
    /\ \/ reader[r].pc \in {"get", "load"} /\ Fail(r) /\ UNCHANGED <<cache, lock>>
       \/ /\ reader[r].pc \in {"rebuildStale", "rebuildMissing"}
          /\ tryLock \/ UNCHANGED lock
          /\ Fail(r) /\ UNCHANGED cache
       \/ /\ At(r, "lock")
          /\ tryLock \/ UNCHANGED lock
          /\ Leave(r, 0, TRUE, reader[r].unlocks + 1) /\ UNCHANGED cache
       \/ /\ At(r, "put")
          /\ cache' = Live(reader[r].version) \/ UNCHANGED cache
          /\ Fail(r) /\ UNCHANGED lock
       \/ /\ At(r, "unlock")
          /\ unlock \/ UNCHANGED lock
          /\ Leave(r, 0, TRUE, reader[r].unlocks - 1) /\ UNCHANGED cache
    /\ Spend("fault")
    /\ UNCHANGED <<strategy, dbVars, poolVars>>

-----------------------------------------------------------------------------
(* The rebuild tasks: saveShop2Redis, then unlock in finally.              *)

WorkerAt(w, pc) == worker[w].pc = pc

TakeTask(w) ==
    /\ WorkerAt(w, "idle") /\ queued > 0
    /\ queued' = queued - 1
    /\ worker' = [worker EXCEPT ![w].pc = "load"]
    /\ UNCHANGED <<strategy, cache, lock, dbVars, reader, spent>>

\* Mutant: the lock is given back before the entry is written.
LoadAndUnlock(w) ==
    /\ WorkerAt(w, "load")
    /\ worker' = [worker EXCEPT ![w] = [pc |-> "put", version |-> row]]
    /\ unlock
    /\ UNCHANGED <<strategy, cache, dbVars, reader, queued, spent>>

LoadForRebuild(w) ==
    /\ WorkerAt(w, "load")
    /\ worker' = [worker EXCEPT ![w] = [pc |-> "put", version |-> row]]
    /\ UNCHANGED <<strategy, cache, lock, dbVars, reader, queued, spent>>

\* Mutant: SET NX, which leaves an expired entry as it is.
PutIfAbsent(w) ==
    /\ WorkerAt(w, "put")
    /\ cache' = IF cache = NoEntry THEN Live(worker[w].version) ELSE cache
    /\ worker' = [worker EXCEPT ![w] = [pc |-> "unlock", version |-> 0]]
    /\ UNCHANGED <<strategy, lock, dbVars, reader, queued, spent>>

PutRebuilt(w) ==
    /\ WorkerAt(w, "put")
    /\ cache' = Live(worker[w].version)
    /\ worker' = [worker EXCEPT ![w] = [pc |-> "unlock", version |-> 0]]
    /\ UNCHANGED <<strategy, lock, dbVars, reader, queued, spent>>

UnlockAfterRebuild(w) ==
    /\ WorkerAt(w, "unlock")
    /\ unlock
    /\ worker' = [worker EXCEPT ![w] = IdleWorker]
    /\ UNCHANGED <<strategy, cache, dbVars, reader, queued, spent>>

RebuildFails(w) ==
    /\ \/ /\ worker[w].pc \in {"load", "put"}
          /\ worker' = [worker EXCEPT ![w] = [pc |-> "unlock", version |-> 0]]
          /\ \/ UNCHANGED cache
             \/ WorkerAt(w, "put") /\ cache' = Live(worker[w].version)
          /\ UNCHANGED lock
       \/ /\ WorkerAt(w, "unlock")
          /\ worker' = [worker EXCEPT ![w] = IdleWorker]
          /\ unlock \/ UNCHANGED lock
          /\ UNCHANGED cache
    /\ Spend("fault")
    /\ UNCHANGED <<strategy, dbVars, reader, queued>>

-----------------------------------------------------------------------------
(* Time and crashes.                                                       *)

\* Time passes an entry by: a logical one expires and stays, others go.
EntryExpires ==
    /\ Expiring /\ cache.kind = "live"
    /\ cache' = IF strategy \in Logical THEN [cache EXCEPT !.kind = "expired"] ELSE NoEntry
    /\ UNCHANGED <<strategy, lock, dbVars, reader, poolVars, spent>>

\* Somebody is between tryLock() and unlock().
AtWork ==
    \/ queued > 0
    \/ \E w \in Workers : ~WorkerAt(w, "idle")
    \/ \E r \in Readers : reader[r].unlocks > 0 /\ reader[r].pc \in {"load", "put", "unlock"}

LeaseExpires ==
    /\ lock
    /\ lock' = FALSE
    /\ IF AtWork THEN Spend("lapse") ELSE UNCHANGED spent
    /\ UNCHANGED <<strategy, cache, dbVars, reader, poolVars>>

\* An instance dies with some of the threads, the tasks and the transactions.
Crash ==
    /\ Spend("crash")
    /\ \E R \in SUBSET Readers, W \in SUBSET Workers :
          /\ reader' = [r \in Readers |->
                          IF r \in R THEN [NewReader EXCEPT !.pc = "failed"] ELSE reader[r]]
          /\ worker' = [w \in Workers |-> IF w \in W THEN IdleWorker ELSE worker[w]]
    /\ queued' \in 0..queued
    /\ tx' \in {tx, NoTx}
    /\ UNCHANGED <<strategy, cache, lock, row, committed, last>>

-----------------------------------------------------------------------------
Write == SaveShop \/ UpdateRow \/ DeleteEntry \/ CommitUpdate \/ UpdateFails

Read(r) ==
    \/ BeginRead(r) \/ GetEntry(r) \/ createRedisCash(r) \/ LockOrRetry(r)
    \/ Load(r) \/ Put(r) \/ Unlock(r)

Rebuild(w) ==
    \/ TakeTask(w) \/ LoadForRebuild(w) \/ PutRebuilt(w) \/ UnlockAfterRebuild(w)

Next ==
    \/ Write
    \/ \E r \in Readers : Read(r) \/ ReaderFails(r)
    \/ \E w \in Workers : Rebuild(w) \/ RebuildFails(w)
    \/ EntryExpires \/ LeaseExpires \/ Crash

Spec == Init /\ [][Next]_vars

\* A hot shop: its readers keep coming.  Pool threads run, entries and leases
\* come to their end, and a transaction that has begun ends.
BusySpec ==
    /\ Spec
    /\ \A r \in Readers : WF_vars(Read(r))
    /\ \A w \in Workers : WF_vars(Rebuild(w))
    /\ WF_vars(DeleteEntry \/ CommitUpdate)
    /\ WF_vars(EntryExpires)
    /\ WF_vars(LeaseExpires /\ UNCHANGED spent)
=============================================================================
