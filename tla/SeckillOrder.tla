---------------------------- MODULE SeckillOrder ----------------------------
(***************************************************************************)
(* The flash-sale pipeline: request threads decide in Redis (seckill.lua)  *)
(* and append to the stream; one consumer thread per application instance  *)
(* takes the entries to MySQL.  Redis and MySQL are shared by all          *)
(* instances and survive; an instance may crash and restart.  Remote calls *)
(* may fail before they take effect or after it.                           *)
(***************************************************************************)
EXTENDS OrderStream, UserLock, Integers, FiniteSets

CONSTANTS
    Vouchers,
    Requests,   \* one request thread each
    Stock,      \* Stock[v]: the inventory voucher v is put on sale with
    Nil,        \* "no value yet" in a request
    \* Bounds of the model, all in the guards:
    MaxFaults,       \* calls that fail without effect
    MaxLostReplies,  \* reads and tryLocks that take effect and fail for the caller
    MaxLateFaults,   \* calls that fail once the sale or the order is recorded
    MaxCrashes,      \* crashes of an instance
    MaxPauses        \* stalls long enough for the lease of a lock in use to lapse

ASSUME StockAssumption == Stock \in [Vouchers -> Nat]
ASSUME LimitAssumption ==
    {MaxFaults, MaxLostReplies, MaxLateFaults, MaxCrashes, MaxPauses} \subseteq Nat
ASSUME NilAssumption == Nil \notin Users \cup Vouchers \cup Instances \cup Nat
ASSUME FiniteAssumption == IsFiniteSet(Users)

VARIABLES
    redisStock,  \* seckill:stock:<v>; the key exists unless published[v] = "absent"
    purchased,   \* seckill:order:<v>, the set of users who have bought v
    idCounter,   \* the Redis counter behind RedisIdWorker.nextId("order")
    published,   \* how far addSeckillVoucher has come for v
    dbStock,     \* tb_seckill_voucher.stock as other transactions see it
    orders,      \* tb_voucher_order, primary key id
    proxy,       \* proxy[w]: is the field "proxy" of instance w set?
    worker,      \* the consumer thread of each instance
    request,     \* the request threads
    spent        \* how much of each bound has been used

dbVars == <<published, dbStock, orders>>
redisVars == <<redisStock, purchased, idCounter>>
vars == <<stream, groupExists, lastDelivered, pel, holder, leaked, redisStock, purchased,
          idCounter, published, dbStock, orders, proxy, worker, request, spent>>

Entry == [user : Users, voucher : Vouchers, id : Nat]

Limit == [fault |-> MaxFaults, lostReply |-> MaxLostReplies, lateFault |-> MaxLateFaults,
          crash |-> MaxCrashes, pause |-> MaxPauses]

Spend(kind) ==
    /\ spent[kind] < Limit[kind]
    /\ spent' = [spent EXCEPT ![kind] = @ + 1]

IdleWorker == [pc |-> "Read", loop |-> "new", at |-> 0, thrown |-> FALSE]
DownWorker == [IdleWorker EXCEPT !.pc = "Down"]
NewRequest == [pc |-> "idle", user |-> Nil, voucher |-> Nil, jvm |-> Nil, id |-> 0]

Up(w) == worker[w].pc # "Down"

Init ==
    /\ StreamInit
    /\ LockInit
    /\ redisStock = [v \in Vouchers |-> 0]
    /\ purchased = [v \in Vouchers |-> {}]
    /\ idCounter = 0
    /\ published = [v \in Vouchers |-> "absent"]
    /\ dbStock = [v \in Vouchers |-> 0]
    /\ orders = {}
    /\ proxy = [w \in Instances |-> FALSE]
    /\ worker = [w \in Instances |-> IdleWorker]
    /\ request = [r \in Requests |-> NewRequest]
    /\ spent = [kind \in DOMAIN Limit |-> 0]

-----------------------------------------------------------------------------
(* VoucherServiceImpl.addSeckillVoucher: the rows are inserted and the     *)
(* Redis key is set inside one transaction, which then ends.               *)

CacheStock(v) ==
    /\ published[v] = "absent"
    /\ published' = [published EXCEPT ![v] = "cached"]
    /\ redisStock' = [redisStock EXCEPT ![v] = Stock[v]]
    /\ UNCHANGED <<streamVars, lockVars, purchased, idCounter, dbStock, orders, proxy,
                   worker, request, spent>>

CommitVoucher(v) ==
    /\ published[v] = "cached"
    /\ published' = [published EXCEPT ![v] = "committed"]
    /\ dbStock' = [dbStock EXCEPT ![v] = Stock[v]]
    /\ UNCHANGED <<streamVars, lockVars, redisVars, orders, proxy, worker, request, spent>>

\* The answer to SET, the commit or the publishing process itself is lost.
RollbackVoucher(v) ==
    /\ published[v] = "cached"
    /\ published' = [published EXCEPT ![v] = "rolledBack"]
    /\ Spend("fault")
    /\ UNCHANGED <<streamVars, lockVars, redisVars, dbStock, orders, proxy, worker, request>>

-----------------------------------------------------------------------------
(* VoucherOrderServiceImpl.seckillVoucher, run by a request thread.        *)

\* Mutant: the counter is read, not incremented.
NextIdWithoutIncr(r, u, v, w) ==
    /\ request[r].pc = "idle"
    /\ Up(w)
    /\ request' = [request EXCEPT ![r] = [pc |-> "numbered", user |-> u, voucher |-> v,
                                          jvm |-> w, id |-> idCounter]]
    /\ UNCHANGED <<streamVars, lockVars, redisVars, dbVars, proxy, worker, spent>>

NextId(r, u, v, w) ==
    /\ request[r].pc = "idle"
    /\ Up(w)
    /\ idCounter' = idCounter + 1
    /\ request' = [request EXCEPT ![r] = [pc |-> "numbered", user |-> u, voucher |-> v,
                                          jvm |-> w, id |-> idCounter']]
    /\ UNCHANGED <<streamVars, lockVars, redisStock, purchased, dbVars, proxy, worker, spent>>

Answer(r, code) == request' = [request EXCEPT ![r].pc = code]

EntryOf(r) == [user |-> request[r].user, voucher |-> request[r].voucher, id |-> request[r].id]

\* The four outcomes of seckill.lua, in the order the script tests for them.
ScriptRaises(v) == published[v] = "absent"   \* tonumber(false) <= 0 is a Lua error
SoldOutBelowZero(v) == redisStock[v] < 0     \* mutant: one unit too many
SoldOutAtLastUnit(v) == redisStock[v] <= 1   \* mutant: one unit too few
SoldOut(v) == redisStock[v] <= 0
NeverBought(u, v) == FALSE                   \* mutant: no sismember test
AlreadyBought(u, v) == u \in purchased[v]

Sell(r) ==
    LET u == request[r].user
        v == request[r].voucher
    IN  /\ ~ScriptRaises(v)
        /\ ~SoldOut(v)
        /\ ~AlreadyBought(u, v)
        /\ redisStock' = [redisStock EXCEPT ![v] = @ - 1]
        /\ purchased' = [purchased EXCEPT ![v] = @ \cup {u}]
        /\ XAdd(EntryOf(r))

Reject(r) ==
    LET u == request[r].user
        v == request[r].voucher
    IN  /\ \/ ScriptRaises(v) /\ Answer(r, "error")
           \/ ~ScriptRaises(v) /\ SoldOut(v) /\ Answer(r, "soldOut")
           \/ ~ScriptRaises(v) /\ ~SoldOut(v) /\ AlreadyBought(u, v) /\ Answer(r, "duplicate")
        /\ UNCHANGED <<streamVars, redisStock, purchased>>

RunScript(r) ==
    /\ request[r].pc = "numbered"
    /\ \/ Reject(r)
       \/ Sell(r) /\ Answer(r, "queued")
    /\ UNCHANGED <<lockVars, idCounter, dbVars, proxy, worker, spent>>

\* The call to Redis fails, before or after the script has run.
RunScriptFails(r) ==
    /\ request[r].pc = "numbered"
    /\ \/ Spend("fault") /\ UNCHANGED <<streamVars, redisStock, purchased>>
       \/ Spend("lateFault") /\ Sell(r)
    /\ Answer(r, "error")
    /\ UNCHANGED <<lockVars, idCounter, dbVars, proxy, worker>>

InitializeTransactionProxy(r) ==
    /\ request[r].pc = "queued"
    /\ proxy' = [proxy EXCEPT ![request[r].jvm] = TRUE]
    /\ Answer(r, "ok")
    /\ UNCHANGED <<streamVars, lockVars, redisVars, dbVars, worker, spent>>

-----------------------------------------------------------------------------
(* VoucherOrderHandler, the consumer thread: run() reads undelivered       *)
(* entries (loop "new"); an exception takes it to handlePendingList()      *)
(* (loop "pending"), which it leaves when the PEL is empty.  An empty      *)
(* answer in run(), and an exception in handlePendingList(), change        *)
(* nothing, so they are stuttering steps.                                  *)

UserAt(i) == stream[i].user

MoveTo(w, pc) == worker' = [worker EXCEPT ![w].pc = pc]

Take(w, i) == worker' = [worker EXCEPT ![w].pc = "TryLock", ![w].at = i]

NextRound(w) == worker' = [worker EXCEPT ![w] = [IdleWorker EXCEPT !.loop = worker[w].loop]]

\* Mutant: the catch block of run() does not call handlePendingList().
CatchAndGoOn(w) == worker' = [worker EXCEPT ![w] = IdleWorker]

\* An exception reaches the catch block of run() or of handlePendingList().
Catch(w) == worker' = [worker EXCEPT ![w] = [IdleWorker EXCEPT !.loop = "pending"]]

XGroupCreateByOperator ==
    /\ XGroupCreate
    /\ UNCHANGED <<lockVars, redisVars, dbVars, proxy, worker, request, spent>>

ReadNew(w) ==
    /\ worker[w].pc = "Read" /\ worker[w].loop = "new"
    /\ XReadGroupNew
    /\ Take(w, lastDelivered + 1)
    /\ UNCHANGED <<lockVars, redisVars, dbVars, proxy, request, spent>>

\* NOGROUP, a failed call, or an answer lost after the entry was delivered.
ReadNewFails(w) ==
    /\ worker[w].pc = "Read" /\ worker[w].loop = "new"
    /\ \/ ~groupExists /\ UNCHANGED <<streamVars, spent>>
       \/ Spend("fault") /\ UNCHANGED streamVars
       \/ Spend("lostReply") /\ XReadGroupNew
    /\ Catch(w)
    /\ UNCHANGED <<lockVars, redisVars, dbVars, proxy, request>>

ReadPending(w) ==
    /\ worker[w].pc = "Read" /\ worker[w].loop = "pending"
    /\ groupExists
    /\ \/ pel = {} /\ worker' = [worker EXCEPT ![w] = IdleWorker]
       \/ \E i \in pel : IsOldestPending(i) /\ Take(w, i)
    /\ UNCHANGED <<streamVars, lockVars, redisVars, dbVars, proxy, request, spent>>

\* handleVoucherOrder returns normally when the lock is taken, and the
\* caller then acknowledges the entry.
AcquireUserLock(w) ==
    /\ worker[w].pc = "TryLock"
    /\ LET u == UserAt(worker[w].at)
       IN  \/ Acquire(w, u) /\ MoveTo(w, "Create") /\ UNCHANGED leaked
           \/ ~Acquirable(w, u) /\ MoveTo(w, "Ack") /\ UNCHANGED lockVars
    /\ UNCHANGED <<streamVars, redisVars, dbVars, proxy, request, spent>>

AcquireUserLockFails(w) ==
    /\ worker[w].pc = "TryLock"
    /\ \/ Spend("fault") /\ UNCHANGED lockVars
       \/ LET u == UserAt(worker[w].at)
          IN  Spend("lostReply") /\ Acquire(w, u) /\ Leak(u)
    /\ Catch(w)
    /\ UNCHANGED <<streamVars, redisVars, dbVars, proxy, request>>

Throw(w) == worker' = [worker EXCEPT ![w].pc = "Unlock", ![w].thrown = TRUE]

\* UPDATE ... SET stock = stock - 1 WHERE voucher_id = v AND stock > 0
Deductible(v) == dbStock[v] > 0

NoPrimaryKey(id) == FALSE   \* mutant: the deduction survives a duplicate key
PrimaryKeyTaken(id) == \E o \in orders : o.id = id

\* Mutant: the result of deductInventory is not looked at.
CommitOrderAnyway(e) ==
    /\ ~PrimaryKeyTaken(e.id)
    /\ dbStock' = [dbStock EXCEPT ![e.voucher] = IF @ > 0 THEN @ - 1 ELSE @]
    /\ orders' = orders \cup {e}
    /\ UNCHANGED published

\* Mutant: stock = stock - 1 without a condition, and saveOrUpdate.
CommitOrderBlindly(e) ==
    /\ dbStock' = [dbStock EXCEPT ![e.voucher] = @ - 1]
    /\ orders' = orders \cup {e}
    /\ UNCHANGED published

\* Mutant: the row gets a new id instead of the one in the entry.
CommitOrderUnderNewId(e) ==
    /\ Deductible(e.voucher)
    /\ dbStock' = [dbStock EXCEPT ![e.voucher] = @ - 1]
    /\ orders' = orders \cup {[e EXCEPT !.id = idCounter + 1]}
    /\ UNCHANGED published

\* The transaction of createVoucherOrder when both statements succeed.
CommitOrder(e) ==
    /\ Deductible(e.voucher)
    /\ ~PrimaryKeyTaken(e.id)
    /\ dbStock' = [dbStock EXCEPT ![e.voucher] = @ - 1]
    /\ orders' = orders \cup {e}
    /\ UNCHANGED published

\* The UPDATE waits for the row lock of a publishing transaction that is
\* still open; once that ends it sees the row, or none.
RowUnlocked(v) == published[v] # "cached"

\* proxy is still null (NullPointerException); or the stock is used up (the
\* method returns); or the INSERT meets a duplicate key (rolled back); or
\* both statements are committed.
CreateVoucherOrder(w) ==
    /\ worker[w].pc = "Create"
    /\ LET e == stream[worker[w].at]
       IN  \/ ~proxy[w] /\ Throw(w) /\ UNCHANGED dbVars
           \/ /\ proxy[w] /\ RowUnlocked(e.voucher)
              /\ \/ ~Deductible(e.voucher) /\ MoveTo(w, "Unlock") /\ UNCHANGED dbVars
                 \/ /\ Deductible(e.voucher) /\ PrimaryKeyTaken(e.id)
                    /\ Throw(w)
                    /\ UNCHANGED dbVars
                 \/ CommitOrder(e) /\ MoveTo(w, "Unlock")
    /\ UNCHANGED <<streamVars, lockVars, redisVars, proxy, request, spent>>

\* The database call fails; what it did is rolled back, or was committed.
CreateVoucherOrderFails(w) ==
    /\ worker[w].pc = "Create" /\ proxy[w]
    /\ \/ Spend("fault") /\ UNCHANGED dbVars
       \/ LET e == stream[worker[w].at]
          IN  Spend("lateFault") /\ RowUnlocked(e.voucher) /\ CommitOrder(e)
    /\ Throw(w)
    /\ UNCHANGED <<streamVars, lockVars, redisVars, proxy, request>>

SwallowException(w) == MoveTo(w, "Ack")   \* mutant: handleVoucherOrder catches

\* The finally block ends, with or without an exception on its way out.
AfterUnlock(w) == IF worker[w].thrown THEN Catch(w) ELSE MoveTo(w, "Ack")

ReleaseUserLock(w) ==
    /\ worker[w].pc = "Unlock"
    /\ LET u == UserAt(worker[w].at)
       IN  IF holder[u] = w THEN GiveBack(u) ELSE UNCHANGED lockVars
    /\ AfterUnlock(w)
    /\ UNCHANGED <<streamVars, redisVars, dbVars, proxy, request, spent>>

ReleaseUserLockFails(w) ==
    /\ worker[w].pc = "Unlock"
    /\ LET u == UserAt(worker[w].at)
       IN  \/ holder[u] = w /\ Leak(u) /\ UNCHANGED holder
           \/ holder[u] = w /\ GiveBack(u)
           \/ holder[u] # w /\ UNCHANGED lockVars
    /\ Spend("lateFault")
    /\ Catch(w)
    /\ UNCHANGED <<streamVars, redisVars, dbVars, proxy, request>>

\* Mutant: the entry is handled and never acknowledged.
ForgetToAcknowledge(w) ==
    /\ worker[w].pc = "Ack"
    /\ NextRound(w)
    /\ UNCHANGED <<streamVars, lockVars, redisVars, dbVars, proxy, request, spent>>

Acknowledge(w) ==
    /\ worker[w].pc = "Ack"
    /\ XAck(worker[w].at)
    /\ NextRound(w)
    /\ UNCHANGED <<lockVars, redisVars, dbVars, proxy, request, spent>>

AcknowledgeFails(w) ==
    /\ worker[w].pc = "Ack"
    /\ XAck(worker[w].at) \/ UNCHANGED streamVars
    /\ Spend("lateFault")
    /\ Catch(w)
    /\ UNCHANGED <<lockVars, redisVars, dbVars, proxy, request>>

-----------------------------------------------------------------------------
(* The environment: leases, crashes and restarts.                          *)

\* Instance w's consumer thread is between tryLock() and unlock() for user u.
InSection(w, u) == worker[w].pc \in {"Create", "Unlock"} /\ UserAt(worker[w].at) = u

\* Mutant: tryLock with a fixed lease, which no watchdog renews.
FixedLeaseExpires(u) ==
    /\ Expire(u)
    /\ UNCHANGED <<streamVars, redisVars, dbVars, proxy, worker, request, spent>>

\* The watchdog renews the lease of a hold in use, unless its JVM stalls.
LeaseExpires(u) ==
    /\ Expire(u)
    /\ IF holder[u] \in Instances /\ InSection(holder[u], u)
       THEN Spend("pause")
       ELSE UNCHANGED spent
    /\ UNCHANGED <<streamVars, redisVars, dbVars, proxy, worker, request>>

\* Threads, the field proxy and open transactions die with the process.
Crash(w) ==
    /\ Up(w)
    /\ Spend("crash")
    /\ worker' = [worker EXCEPT ![w] = DownWorker]
    /\ proxy' = [proxy EXCEPT ![w] = FALSE]
    /\ request' = [r \in Requests |->
                     IF request[r].jvm = w /\ request[r].pc \in {"numbered", "queued"}
                     THEN [request[r] EXCEPT !.pc = "error"]
                     ELSE request[r]]
    /\ Abandon(w)
    /\ UNCHANGED <<streamVars, redisVars, dbVars>>

\* @PostConstruct init() starts the consumer thread in run().
Restart(w) ==
    /\ ~Up(w)
    /\ worker' = [worker EXCEPT ![w] = IdleWorker]
    /\ UNCHANGED <<streamVars, lockVars, redisVars, dbVars, proxy, request, spent>>

-----------------------------------------------------------------------------
Publish(v) == CacheStock(v) \/ CommitVoucher(v) \/ RollbackVoucher(v)

Client(r) == RunScript(r) \/ RunScriptFails(r) \/ InitializeTransactionProxy(r)

Consume(w) ==
    \/ ReadNew(w) \/ ReadNewFails(w) \/ ReadPending(w)
    \/ AcquireUserLock(w) \/ AcquireUserLockFails(w)
    \/ CreateVoucherOrder(w) \/ CreateVoucherOrderFails(w)
    \/ ReleaseUserLock(w) \/ ReleaseUserLockFails(w)
    \/ Acknowledge(w) \/ AcknowledgeFails(w)

Next ==
    \/ \E v \in Vouchers : Publish(v)
    \/ \E r \in Requests, u \in Users, v \in Vouchers, w \in Instances : NextId(r, u, v, w)
    \/ \E r \in Requests : Client(r)
    \/ XGroupCreateByOperator
    \/ \E w \in Instances : Consume(w) \/ Crash(w) \/ Restart(w)
    \/ \E u \in Users : LeaseExpires(u)

Spec == Init /\ [][Next]_vars

\* A thread that can run does run, a started publication ends, the operator
\* creates the group and restarts a dead process, a lease that is not renewed
\* lapses.  No fairness makes a request arrive.  A consumer thread is fair in
\* its successful steps: a call that can be answered is answered in the end.
ConsumeFairly(w) ==
    \/ ReadNew(w) \/ ReadPending(w) \/ AcquireUserLock(w) \/ CreateVoucherOrder(w)
    \/ ReleaseUserLock(w) \/ Acknowledge(w)

Fairness ==
    /\ \A v \in Vouchers : WF_vars(CommitVoucher(v))
    /\ \A r \in Requests : WF_vars(RunScript(r)) /\ WF_vars(InitializeTransactionProxy(r))
    /\ WF_vars(XGroupCreateByOperator)
    /\ \A w \in Instances : WF_vars(ConsumeFairly(w)) /\ WF_vars(Restart(w))
    /\ \A u \in Users : WF_vars(LeaseExpires(u) /\ UNCHANGED spent)

FairSpec == Spec /\ Fairness
=============================================================================
