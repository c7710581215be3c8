--------------------------- MODULE SeckillProofs ---------------------------
(***************************************************************************)
(* Proofs, for every value of the constants, of safety properties stated   *)
(* in SeckillProperties.                                                   *)
(***************************************************************************)
EXTENDS SeckillProperties, FiniteSetTheorems, SequenceTheorems, TLAPS

\* The bounds only ever count up.
LEMMA SpendType ==
    ASSUME SpentType, NEW kind \in DOMAIN Limit, Spend(kind)
    PROVE  SpentType'
BY DEF SpentType, Spend, Limit

\* What XADD does to the stream: one more position, the others untouched.
LEMMA XAddEffect ==
    ASSUME StreamType, NEW e \in Entry, XAdd(e)
    PROVE  /\ StreamType'
           /\ lastDelivered' = lastDelivered
           /\ Len(stream) \in Nat
           /\ Positions' = Positions \cup {Len(stream) + 1}
           /\ \A i \in Positions : stream'[i] = stream[i]
           /\ stream'[Len(stream) + 1] = e
<1>1. /\ stream \in Seq(Entry) /\ stream' = Append(stream, e)
      /\ groupVars' = groupVars
  BY DEF StreamType, XAdd
<1>2. /\ stream' \in Seq(Entry) /\ Len(stream) \in Nat /\ Len(stream') = Len(stream) + 1
      /\ \A i \in 1..Len(stream) : stream'[i] = stream[i]
      /\ stream'[Len(stream) + 1] = e
  BY <1>1, AppendProperties
<1> QED BY <1>1, <1>2 DEF StreamType, Positions, groupVars

\* What reading undelivered entries does: the next position is delivered.
LEMMA XReadEffect ==
    ASSUME StreamType, XReadGroupNew
    PROVE  /\ StreamType'
           /\ lastDelivered + 1 \in 1..lastDelivered'
           /\ 1..lastDelivered \subseteq 1..lastDelivered'
<1>1. Len(stream) \in Nat
  BY LenProperties DEF StreamType
<1> QED BY <1>1 DEF StreamType, XReadGroupNew

\* A request past "idle" makes a proper entry.
LEMMA EntryOfType ==
    ASSUME RequestType, NEW r \in Requests, request[r].pc # "idle"
    PROVE  EntryOf(r) \in Entry
BY DEF RequestType, EntryOf, Entry, RequestState

-----------------------------------------------------------------------------
(* Type correctness, by groups of actions.                                 *)

LEMMA InitType == Init => TypeOK
<1> SUFFICES ASSUME Init PROVE TypeOK
  OBVIOUS
<1>1. StreamType
  <2>1. stream = <<>> /\ groupExists = FALSE /\ lastDelivered = 0 /\ pel = {}
    BY DEF Init, StreamInit
  <2>2. stream \in Seq(Entry)
    BY <2>1, EmptySeq
  <2>3. Len(stream) = 0
    BY <2>1, EmptySeq
  <2>4. lastDelivered \in 0..Len(stream) /\ pel \subseteq 1..lastDelivered
    BY <2>1, <2>3
  <2> QED BY <2>1, <2>2, <2>4 DEF StreamType
<1>2. LockType
  BY DEF Init, LockInit, LockType
<1>3. StoreType
  BY DEF Init, StoreType
<1>4. WorkerType
  BY DEF Init, WorkerType, IdleWorker, WorkerState
<1>5. RequestType
  BY DEF Init, RequestType, NewRequest, RequestState
<1>6. SpentType
  BY DEF Init, SpentType
<1> QED BY <1>1, <1>2, <1>3, <1>4, <1>5, <1>6 DEF TypeOK

LEMMA PublishType ==
    ASSUME TypeOK, NEW v \in Vouchers, Publish(v)
    PROVE  TypeOK'
<1>1. StreamType' /\ LockType' /\ WorkerType' /\ RequestType'
  BY DEF TypeOK, Publish, CacheStock, CommitVoucher, RollbackVoucher, streamVars, lockVars,
         StreamType, LockType, WorkerType, RequestType
<1>2. StoreType'
  BY StockAssumption DEF TypeOK, Publish, CacheStock, CommitVoucher, RollbackVoucher, redisVars, StoreType
<1>3. SpentType'
  BY SpendType DEF TypeOK, Publish, CacheStock, CommitVoucher, RollbackVoucher, SpentType, Limit
<1> QED BY <1>1, <1>2, <1>3 DEF TypeOK

LEMMA NextIdType ==
    ASSUME TypeOK, NEW r \in Requests, NEW u \in Users, NEW v \in Vouchers,
           NEW w \in Instances, NextId(r, u, v, w)
    PROVE  TypeOK'
<1>1. StreamType' /\ LockType' /\ WorkerType' /\ StoreType' /\ SpentType'
  BY DEF TypeOK, NextId, streamVars, lockVars, dbVars,
         StreamType, LockType, WorkerType, StoreType, SpentType
<1>2. RequestType'
  BY DEF TypeOK, NextId, RequestType, RequestState, StoreType
<1> QED BY <1>1, <1>2 DEF TypeOK

\* Answering moves one request to another control point and nothing else.
LEMMA AnswerType ==
    ASSUME RequestType, NEW r \in Requests, request[r].pc # "idle",
           NEW code \in {"queued", "ok", "soldOut", "duplicate", "error"}, Answer(r, code)
    PROVE  RequestType'
BY DEF RequestType, RequestState, Answer

\* A sale keeps the stream and the Redis keys well-formed.
LEMMA SellType ==
    ASSUME TypeOK, NEW r \in Requests, request[r].pc = "numbered", Sell(r)
    PROVE  /\ StreamType'
           /\ lastDelivered' = lastDelivered
           /\ redisStock' \in [Vouchers -> Int]
           /\ purchased' \in [Vouchers -> SUBSET Users]
<1>1. EntryOf(r) \in Entry /\ XAdd(EntryOf(r))
  BY EntryOfType DEF Sell, TypeOK
<1>2. StreamType' /\ lastDelivered' = lastDelivered
  BY <1>1, XAddEffect DEF TypeOK
<1> QED BY <1>2 DEF Sell, TypeOK, StoreType, RequestType

LEMMA ClientType ==
    ASSUME TypeOK, NEW r \in Requests, Client(r)
    PROVE  TypeOK'
<1>1. CASE RunScript(r)
  <2>1. CASE Reject(r)
    <3>1. RequestType'
      BY <1>1, <2>1, AnswerType DEF RunScript, Reject, TypeOK
    <3> QED
      BY <1>1, <2>1, <3>1 DEF RunScript, Reject, TypeOK, StreamType, LockType, StoreType,
         WorkerType, SpentType, streamVars, lockVars, dbVars
  <2>2. CASE Sell(r) /\ Answer(r, "queued")
    <3>1. RequestType'
      BY <1>1, <2>2, AnswerType DEF RunScript, TypeOK
    <3> QED
      BY <1>1, <2>2, <3>1, SellType DEF RunScript, TypeOK, LockType, StoreType,
         WorkerType, SpentType, lockVars, dbVars
  <2> QED BY <1>1, <2>1, <2>2 DEF RunScript
<1>2. CASE RunScriptFails(r)
  <2>1. RequestType'
    BY <1>2, AnswerType DEF RunScriptFails, TypeOK
  <2>2. SpentType'
    BY <1>2, SpendType DEF RunScriptFails, TypeOK, Limit
  <2>3. LockType' /\ WorkerType' /\ StreamType' /\ StoreType'
    BY <1>2, SellType DEF RunScriptFails, TypeOK, LockType, StoreType, StreamType,
       WorkerType, lockVars, dbVars, streamVars
  <2> QED BY <2>1, <2>2, <2>3 DEF TypeOK
<1>3. CASE InitializeTransactionProxy(r)
  <2>1. RequestType'
    BY <1>3, AnswerType DEF InitializeTransactionProxy, TypeOK
  <2> QED
    BY <1>3, <2>1 DEF InitializeTransactionProxy, TypeOK, StreamType, LockType, StoreType,
       WorkerType, SpentType, streamVars, lockVars, dbVars, redisVars
<1> QED BY <1>1, <1>2, <1>3 DEF Client

\* A consumer thread takes a delivered position.
LEMMA TakeType ==
    ASSUME WorkerType, NEW w \in Instances, NEW i \in 1..lastDelivered',
           1..lastDelivered \subseteq 1..lastDelivered', i \in Nat,
           UNCHANGED proxy, Take(w, i)
    PROVE  WorkerType'
<1>1. worker' \in [Instances -> WorkerState]
  BY DEF WorkerType, WorkerState, Take
<1>2. worker'[w].at = i /\ \A x \in Instances \ {w} : worker'[x] = worker[x]
  BY DEF WorkerType, WorkerState, Take
<1> QED BY <1>1, <1>2 DEF WorkerType

\* The reads of a consumer thread.
LEMMA ReadType ==
    ASSUME TypeOK, NEW w \in Instances,
           ReadNew(w) \/ ReadNewFails(w) \/ ReadPending(w)
    PROVE  TypeOK'
<1>1. CASE ReadNew(w)
  <2>1. StreamType' /\ lastDelivered + 1 \in 1..lastDelivered' /\ 1..lastDelivered \subseteq 1..lastDelivered'
    BY <1>1, XReadEffect DEF ReadNew, TypeOK
  <2>2. WorkerType'
    BY <1>1, <2>1, TakeType DEF ReadNew, TypeOK, StreamType
  <2> QED
    BY <1>1, <2>1, <2>2 DEF ReadNew, TypeOK, LockType, StoreType, RequestType, SpentType,
       lockVars, redisVars, dbVars
<1>2. CASE ReadNewFails(w)
  <2>1. StreamType' /\ 1..lastDelivered \subseteq 1..lastDelivered'
    BY <1>2, XReadEffect DEF ReadNewFails, TypeOK, StreamType, streamVars
  <2>2. WorkerType'
    BY <1>2, <2>1 DEF ReadNewFails, Catch, TypeOK, WorkerType, WorkerState, IdleWorker
  <2>3. SpentType'
    BY <1>2, SpendType DEF ReadNewFails, TypeOK, Limit, SpentType
  <2> QED
    BY <1>2, <2>1, <2>2, <2>3 DEF ReadNewFails, TypeOK, LockType, StoreType, RequestType,
       lockVars, redisVars, dbVars
<1>3. CASE ReadPending(w)
  <2>1. UNCHANGED <<proxy, lastDelivered, pel>>
    BY <1>3 DEF ReadPending, streamVars
  <2>2. ASSUME worker' = [worker EXCEPT ![w] = IdleWorker] PROVE WorkerType'
    <3>1. IdleWorker \in WorkerState /\ IdleWorker.pc = "Read"
      BY DEF WorkerState, IdleWorker
    <3> QED BY <2>1, <2>2, <3>1 DEF TypeOK, WorkerType
  <2>3. ASSUME NEW i \in pel, Take(w, i) PROVE WorkerType'
    <3>1. i \in 1..lastDelivered' /\ i \in Nat
      BY <2>1 DEF TypeOK, StreamType
    <3> QED BY <2>1, <2>3, <3>1, TakeType DEF TypeOK
  <2>4. WorkerType'
    BY <1>3, <2>2, <2>3 DEF ReadPending
  <2> QED
    BY <1>3, <2>4 DEF ReadPending, TypeOK, StreamType, LockType, StoreType, RequestType,
       SpentType, streamVars, lockVars, redisVars, dbVars
<1> QED BY <1>1, <1>2, <1>3

\* Where the control of a consumer thread can go without touching its position.
LEMMA WorkerMoveType ==
    ASSUME WorkerType, NEW w \in Instances, UNCHANGED <<proxy, lastDelivered>>,
           \/ /\ worker[w].pc \notin {"Read", "Down"}
              /\ \/ \E pc \in {"Create", "Unlock", "Ack"} : MoveTo(w, pc)
                 \/ Throw(w)
           \/ Catch(w)
           \/ NextRound(w)
    PROVE  WorkerType'
<1>1. CASE Catch(w) \/ NextRound(w)
  <2>1. PICK loop \in {"new", "pending"} :
            worker' = [worker EXCEPT ![w] = [IdleWorker EXCEPT !.loop = loop]]
    BY <1>1 DEF WorkerType, WorkerState, Catch, NextRound
  <2>2. /\ [IdleWorker EXCEPT !.loop = loop] \in WorkerState
        /\ [IdleWorker EXCEPT !.loop = loop].pc = "Read"
    BY DEF WorkerState, IdleWorker
  <2> QED BY <2>1, <2>2 DEF WorkerType
<1>2. ASSUME NEW pc \in {"Create", "Unlock", "Ack"}, MoveTo(w, pc),
             worker[w].pc \notin {"Read", "Down"}
      PROVE  WorkerType'
  <2>1. worker' \in [Instances -> WorkerState]
    BY <1>2 DEF WorkerType, WorkerState, MoveTo
  <2>2. \A x \in Instances : worker'[x].at = worker[x].at
    BY <1>2 DEF WorkerType, WorkerState, MoveTo
  <2>3. \A x \in Instances \ {w} : worker'[x].pc = worker[x].pc
    BY <1>2 DEF WorkerType, WorkerState, MoveTo
  <2> QED BY <1>2, <2>1, <2>2, <2>3 DEF WorkerType
<1>3. CASE Throw(w) /\ worker[w].pc \notin {"Read", "Down"}
  <2>1. worker' \in [Instances -> WorkerState]
    BY <1>3 DEF WorkerType, WorkerState, Throw
  <2>2. \A x \in Instances : worker'[x].at = worker[x].at
    BY <1>3 DEF WorkerType, WorkerState, Throw
  <2>3. \A x \in Instances \ {w} : worker'[x].pc = worker[x].pc
    BY <1>3 DEF WorkerType, WorkerState, Throw
  <2> QED BY <1>3, <2>1, <2>2, <2>3 DEF WorkerType
<1> QED BY <1>1, <1>2, <1>3

\* The entry a busy consumer thread is at is in the stream.
LEMMA EntryAtType ==
    ASSUME StreamType, WorkerType, NEW w \in Instances, worker[w].pc \notin {"Read", "Down"}
    PROVE  /\ worker[w].at \in 1..lastDelivered
           /\ worker[w].at \in Positions
           /\ stream[worker[w].at] \in Entry
           /\ UserAt(worker[w].at) \in Users
<1>1. worker[w].at \in 1..lastDelivered /\ lastDelivered \in 0..Len(stream)
  BY DEF StreamType, WorkerType
<1>2. Len(stream) \in Nat
  BY LenProperties DEF StreamType
<1>3. worker[w].at \in 1..Len(stream)
  BY <1>1, <1>2
<1>4. stream[worker[w].at] \in Entry
  BY <1>3, ElementOfSeq DEF StreamType
<1> QED BY <1>1, <1>3, <1>4 DEF Positions, UserAt, Entry

LEMMA LockStepType ==
    ASSUME TypeOK, NEW w \in Instances,
           \/ AcquireUserLock(w) \/ AcquireUserLockFails(w)
           \/ ReleaseUserLock(w) \/ ReleaseUserLockFails(w)
    PROVE  TypeOK'
<1> DEFINE u == UserAt(worker[w].at)
<1>1. worker[w].pc \in {"TryLock", "Unlock"} /\ u \in Users
  BY EntryAtType DEF AcquireUserLock, AcquireUserLockFails, ReleaseUserLock,
     ReleaseUserLockFails, TypeOK
<1>2. StreamType' /\ StoreType' /\ RequestType' /\ UNCHANGED <<proxy, lastDelivered>>
  BY DEF AcquireUserLock, AcquireUserLockFails, ReleaseUserLock, ReleaseUserLockFails,
     TypeOK, StreamType, StoreType, RequestType, streamVars, redisVars, dbVars
<1>3. SpentType'
  BY SpendType DEF AcquireUserLock, AcquireUserLockFails, ReleaseUserLock,
     ReleaseUserLockFails, TypeOK, SpentType, Limit
<1>4. WorkerType'
  BY <1>1, <1>2, WorkerMoveType DEF AcquireUserLock, AcquireUserLockFails, ReleaseUserLock,
     ReleaseUserLockFails, AfterUnlock, TypeOK
<1>5. LockType'
  BY <1>1 DEF AcquireUserLock, AcquireUserLockFails, ReleaseUserLock, ReleaseUserLockFails,
     Acquire, GiveBack, Leak, TypeOK, LockType, lockVars
<1> QED BY <1>2, <1>3, <1>4, <1>5 DEF TypeOK

LEMMA CreateType ==
    ASSUME TypeOK, NEW w \in Instances,
           CreateVoucherOrder(w) \/ CreateVoucherOrderFails(w)
    PROVE  TypeOK'
<1> DEFINE e == stream[worker[w].at]
<1>1. worker[w].pc = "Create" /\ e \in Entry
  BY EntryAtType DEF CreateVoucherOrder, CreateVoucherOrderFails, TypeOK
<1>2. StreamType' /\ LockType' /\ RequestType' /\ UNCHANGED <<proxy, lastDelivered>>
  BY DEF CreateVoucherOrder, CreateVoucherOrderFails, TypeOK, StreamType, LockType,
     RequestType, streamVars, lockVars
<1>3. SpentType'
  BY SpendType DEF CreateVoucherOrder, CreateVoucherOrderFails, TypeOK, SpentType, Limit
<1>4. WorkerType'
  BY <1>1, <1>2, WorkerMoveType DEF CreateVoucherOrder, CreateVoucherOrderFails, TypeOK
<1>5. UNCHANGED redisVars /\ (UNCHANGED dbVars \/ CommitOrder(e))
  BY DEF CreateVoucherOrder, CreateVoucherOrderFails
<1>6. StoreType'
  BY <1>1, <1>5 DEF TypeOK, StoreType, CommitOrder, Deductible, Entry, redisVars, dbVars
<1> QED BY <1>2, <1>3, <1>4, <1>6 DEF TypeOK

LEMMA AcknowledgeType ==
    ASSUME TypeOK, NEW w \in Instances, Acknowledge(w) \/ AcknowledgeFails(w)
    PROVE  TypeOK'
<1>1. LockType' /\ StoreType' /\ RequestType' /\ UNCHANGED <<proxy, lastDelivered>>
  BY DEF Acknowledge, AcknowledgeFails, XAck, TypeOK, LockType, StoreType, RequestType,
     streamVars, lockVars, redisVars, dbVars
<1>2. StreamType'
  BY DEF Acknowledge, AcknowledgeFails, XAck, TypeOK, StreamType, streamVars
<1>3. WorkerType'
  BY <1>1, WorkerMoveType DEF Acknowledge, AcknowledgeFails, TypeOK
<1>4. SpentType'
  BY SpendType DEF Acknowledge, AcknowledgeFails, TypeOK, SpentType, Limit
<1> QED BY <1>1, <1>2, <1>3, <1>4 DEF TypeOK

LEMMA EnvironmentType ==
    ASSUME TypeOK,
           \/ XGroupCreateByOperator
           \/ \E w \in Instances : Crash(w) \/ Restart(w)
           \/ \E u \in Users : LeaseExpires(u)
    PROVE  TypeOK'
<1>1. CASE XGroupCreateByOperator
  BY <1>1 DEF XGroupCreateByOperator, XGroupCreate, TypeOK, StreamType, LockType, StoreType,
     WorkerType, RequestType, SpentType, lockVars, redisVars, dbVars
<1>2. ASSUME NEW w \in Instances, Crash(w) PROVE TypeOK'
  <2>1. StreamType' /\ StoreType' /\ LockType'
    BY <1>2 DEF Crash, Abandon, TypeOK, StreamType, StoreType, LockType, streamVars, redisVars, dbVars
  <2>2. WorkerType'
    BY <1>2 DEF Crash, DownWorker, IdleWorker, TypeOK, WorkerType, WorkerState, streamVars
  <2>3. RequestType'
    BY <1>2 DEF Crash, TypeOK, RequestType, RequestState
  <2>4. SpentType'
    BY <1>2, SpendType DEF Crash, TypeOK, Limit
  <2> QED BY <2>1, <2>2, <2>3, <2>4 DEF TypeOK
<1>3. ASSUME NEW w \in Instances, Restart(w) PROVE TypeOK'
  BY <1>3 DEF Restart, IdleWorker, TypeOK, StreamType, StoreType, LockType, WorkerType,
     WorkerState, RequestType, SpentType, streamVars, lockVars, redisVars, dbVars
<1>4. ASSUME NEW u \in Users, LeaseExpires(u) PROVE TypeOK'
  <2>1. SpentType'
    BY <1>4, SpendType DEF LeaseExpires, TypeOK, SpentType, Limit
  <2> QED
    BY <1>4, <2>1 DEF LeaseExpires, Expire, TypeOK, StreamType, StoreType, LockType,
       WorkerType, RequestType, streamVars, redisVars, dbVars
<1> QED BY <1>1, <1>2, <1>3, <1>4

\* Every variable keeps its type, and no consumer thread is ever at, nor the
\* PEL ever holds, a position the group has not delivered.
THEOREM TypeCorrect == Spec => []TypeOK
<1>1. TypeOK /\ [Next]_vars => TypeOK'
  <2> SUFFICES ASSUME TypeOK, [Next]_vars PROVE TypeOK'
    OBVIOUS
  <2>1. CASE UNCHANGED vars
    BY <2>1 DEF vars, TypeOK, StreamType, StoreType, LockType, WorkerType, RequestType, SpentType
  <2>2. ASSUME NEW w \in Instances, Consume(w) PROVE TypeOK'
    BY <2>2, ReadType, LockStepType, CreateType, AcknowledgeType DEF Consume
  <2> QED
    BY <2>1, <2>2, PublishType, NextIdType, ClientType, EnvironmentType DEF Next
<1> QED BY <1>1, InitType, PTL DEF Spec

-----------------------------------------------------------------------------
(* The sale in Redis.  That the script sells a voucher to a user once and  *)
(* at most Stock[v] times is inductive together with the link between the  *)
(* keys and the stream; that order ids differ needs to know, besides, that *)
(* the ids still on their way to the script are fresh.                     *)

SaleInv == RedisLedger /\ StreamMatchesPurchases /\ IdsAreFresh

LEMMA InitSale == Init => SaleInv
<1> SUFFICES ASSUME Init PROVE SaleInv
  OBVIOUS
<1>1. Positions = {}
  <2>1. stream = <<>>
    BY DEF Init, StreamInit
  <2>2. Len(stream) = 0
    BY <2>1, EmptySeq
  <2> QED BY <2>2 DEF Positions
<1>2. RedisLedger
  BY DEF Init, RedisLedger
<1>3. StreamMatchesPurchases
  BY <1>1 DEF Init, StreamMatchesPurchases, EntriesOf
<1>4. IdsAreFresh
  BY <1>1 DEF Init, IdsAreFresh, NewRequest
<1> QED BY <1>2, <1>3, <1>4 DEF SaleInv

\* The books of a sale: one unit less, one buyer more.
LEMMA SellLedger ==
    ASSUME TypeOK, RedisLedger, NEW r \in Requests, request[r].pc = "numbered", Sell(r),
           UNCHANGED published
    PROVE  RedisLedger'
<1> DEFINE u == request[r].user
           v == request[r].voucher
<1>1. u \in Users /\ v \in Vouchers
  BY DEF TypeOK, RequestType
<1>2. /\ IsFiniteSet(purchased[v]) /\ Cardinality(purchased[v]) \in Nat
      /\ Cardinality(purchased[v] \cup {u}) = Cardinality(purchased[v]) + 1
  <2>1. purchased[v] \subseteq Users /\ u \notin purchased[v]
    BY <1>1 DEF TypeOK, StoreType, Sell, AlreadyBought
  <2>2. IsFiniteSet(purchased[v])
    BY <2>1, FiniteAssumption, FS_Subset
  <2> QED BY <2>1, <2>2, FS_AddElement, FS_CardinalityType
<1>3. /\ redisStock[v] \in Int /\ redisStock[v] > 0
      /\ redisStock'[v] = redisStock[v] - 1
      /\ purchased'[v] = purchased[v] \cup {u}
      /\ published[v] # "absent"
  BY <1>1 DEF Sell, ScriptRaises, SoldOut, TypeOK, StoreType
<1>4. \A x \in Vouchers \ {v} : redisStock'[x] = redisStock[x] /\ purchased'[x] = purchased[x]
  BY <1>1 DEF Sell, TypeOK, StoreType
<1>5. Stock[v] \in Nat
  BY <1>1, StockAssumption
<1>6. redisStock[v] + Cardinality(purchased[v]) = Stock[v]
  BY <1>1, <1>3 DEF RedisLedger
<1>7. redisStock'[v] >= 0 /\ redisStock'[v] + Cardinality(purchased'[v]) = Stock[v]
  <2> DEFINE c == Cardinality(purchased[v])
             d == Cardinality(purchased'[v])
  <2>1. c \in Nat /\ d = c + 1
    BY <1>2, <1>3
  <2> HIDE DEF c, d
  <2> QED BY <1>3, <1>5, <1>6, <2>1 DEF c, d
<1>8. ASSUME NEW x \in Vouchers \ {v}
      PROVE  IF published'[x] = "absent"
             THEN purchased'[x] = {}
             ELSE redisStock'[x] >= 0 /\ redisStock'[x] + Cardinality(purchased'[x]) = Stock[x]
  BY <1>4 DEF RedisLedger
<1> QED BY <1>1, <1>3, <1>7, <1>8 DEF RedisLedger

\* The new entry is its buyer's first for the voucher, and carries a new id.
LEMMA SellMatches ==
    ASSUME TypeOK, StreamMatchesPurchases, IdsAreFresh,
           NEW r \in Requests, request[r].pc = "numbered", Sell(r)
    PROVE  StreamMatchesPurchases'
<1> DEFINE e == EntryOf(r)
           n == Len(stream) + 1
<1>1. e \in Entry /\ e = [user |-> request[r].user, voucher |-> request[r].voucher,
                          id |-> request[r].id]
  BY EntryOfType DEF TypeOK, EntryOf
<1>2. /\ Len(stream) \in Nat
      /\ Positions' = Positions \cup {n}
      /\ \A i \in Positions : stream'[i] = stream[i]
      /\ stream'[n] = e
      /\ n \notin Positions
  BY <1>1, XAddEffect DEF Sell, TypeOK, Positions
<1>3. e.voucher \in Vouchers /\ e.user \in Users /\ e.user \notin purchased[e.voucher]
  BY <1>1 DEF Sell, AlreadyBought, Entry
<1>4. purchased' = [purchased EXCEPT ![e.voucher] = @ \cup {e.user}]
  BY <1>1 DEF Sell
<1>5. ASSUME NEW v \in Vouchers
      PROVE  purchased'[v] = {stream'[i].user : i \in EntriesOf(v)'}
  <2>1. purchased[v] = {stream[i].user : i \in EntriesOf(v)}
    BY DEF StreamMatchesPurchases
  <2>2. CASE v = e.voucher
    <3>1. EntriesOf(v)' = EntriesOf(v) \cup {n}
      BY <1>2, <2>2 DEF EntriesOf
    <3>2. EntriesOf(v) \subseteq Positions
      BY DEF EntriesOf
    <3>3. {stream'[i].user : i \in EntriesOf(v)'}
          = {stream[i].user : i \in EntriesOf(v)} \cup {e.user}
      BY <1>2, <3>1, <3>2
    <3>4. purchased'[v] = purchased[v] \cup {e.user}
      BY <1>4, <2>2 DEF TypeOK, StoreType
    <3> QED BY <2>1, <3>3, <3>4
  <2>3. CASE v # e.voucher
    <3>1. EntriesOf(v)' = EntriesOf(v) /\ EntriesOf(v) \subseteq Positions
      BY <1>2, <2>3 DEF EntriesOf
    <3>2. {stream'[i].user : i \in EntriesOf(v)'} = {stream[i].user : i \in EntriesOf(v)}
      BY <1>2, <3>1
    <3>3. purchased'[v] = purchased[v]
      BY <1>4, <2>3 DEF TypeOK, StoreType
    <3> QED BY <2>1, <3>2, <3>3
  <2> QED BY <2>2, <2>3
<1>6. \A i \in Positions : ~(stream[i].user = e.user /\ stream[i].voucher = e.voucher)
  BY <1>3 DEF StreamMatchesPurchases, EntriesOf
<1>7. \A i \in Positions : stream[i].id # e.id
  BY <1>1 DEF IdsAreFresh
<1>8. \A i, j \in Positions' :
          /\ stream'[i].user = stream'[j].user /\ stream'[i].voucher = stream'[j].voucher => i = j
          /\ stream'[i].id = stream'[j].id => i = j
  BY <1>2, <1>6, <1>7 DEF StreamMatchesPurchases
<1> QED BY <1>5, <1>8 DEF StreamMatchesPurchases

\* Once its entry is in the stream, the request no longer owns a fresh id.
LEMMA SellFresh ==
    ASSUME TypeOK, IdsAreFresh, UNCHANGED idCounter,
           NEW r \in Requests, request[r].pc = "numbered", Sell(r),
           NEW code \in {"queued", "error"}, Answer(r, code)
    PROVE  IdsAreFresh'
<1> DEFINE e == EntryOf(r)
           n == Len(stream) + 1
<1>1. e \in Entry /\ e.id = request[r].id
  BY EntryOfType DEF TypeOK, EntryOf
<1>2. /\ Positions' = Positions \cup {n}
      /\ \A i \in Positions : stream'[i] = stream[i]
      /\ stream'[n] = e
  BY <1>1, XAddEffect DEF Sell, TypeOK
<1>3. /\ request'[r].pc # "numbered"
      /\ \A s \in Requests \ {r} : request'[s] = request[s]
  BY DEF Answer, TypeOK, RequestType, RequestState
<1>4. \A i \in Positions' : stream'[i].id <= idCounter'
  BY <1>1, <1>2 DEF IdsAreFresh
<1>5. ASSUME NEW s \in Requests, request'[s].pc = "numbered"
      PROVE  /\ request'[s].id <= idCounter'
             /\ \A i \in Positions' : stream'[i].id # request'[s].id
             /\ \A q \in Requests \ {s} :
                   request'[q].pc = "numbered" => request'[q].id # request'[s].id
  <2>1. s # r /\ request'[s] = request[s]
    BY <1>3, <1>5
  <2> QED BY <1>1, <1>2, <1>3, <1>5, <2>1 DEF IdsAreFresh
<1> QED BY <1>4, <1>5 DEF IdsAreFresh

\* A request that is answered, and nothing sold, keeps every id fresh.
LEMMA AnswerFresh ==
    ASSUME TypeOK, IdsAreFresh, UNCHANGED <<idCounter, stream>>,
           request' \in [Requests -> RequestState],
           \A s \in Requests : request'[s].pc = "numbered" => request'[s] = request[s]
    PROVE  IdsAreFresh'
BY DEF IdsAreFresh, Positions

LEMMA NextIdFresh ==
    ASSUME TypeOK, IdsAreFresh, NEW r \in Requests, NEW u \in Users, NEW v \in Vouchers,
           NEW w \in Instances, NextId(r, u, v, w)
    PROVE  IdsAreFresh'
<1>1. idCounter \in Nat /\ idCounter' = idCounter + 1 /\ UNCHANGED stream
  BY DEF NextId, TypeOK, StoreType, streamVars
<1>2. /\ request'[r].id = idCounter'
      /\ \A s \in Requests \ {r} : request'[s] = request[s]
  BY DEF NextId, TypeOK, RequestType
<1>3. \A i \in Positions : stream[i].id \in Nat
  <2>1. \A i \in Positions : stream[i] \in Entry
    BY ElementOfSeq DEF TypeOK, StreamType, Positions
  <2> QED BY <2>1 DEF Entry
<1>4. \A s \in Requests : request[s].id \in Nat
  BY DEF TypeOK, RequestType, RequestState
<1> QED BY <1>1, <1>2, <1>3, <1>4 DEF IdsAreFresh, Positions

LEMMA ClientSale ==
    ASSUME TypeOK, SaleInv, NEW r \in Requests, Client(r)
    PROVE  SaleInv'
<1>1. CASE request[r].pc = "numbered" /\ Sell(r)
                /\ (\E code \in {"queued", "error"} : Answer(r, code))
                /\ UNCHANGED <<idCounter, published>>
  BY <1>1, SellLedger, SellMatches, SellFresh DEF SaleInv
<1>2. CASE /\ \E code \in {"ok", "error", "soldOut", "duplicate"} : Answer(r, code)
           /\ UNCHANGED <<stream, redisStock, purchased, idCounter, published>>
  <2>1. TypeOK'
    BY ClientType
  <2>2. IdsAreFresh'
    <3>1. request' \in [Requests -> RequestState]
      BY <2>1 DEF TypeOK, RequestType
    <3>2. \A s \in Requests : request'[s].pc = "numbered" => request'[s] = request[s]
      BY <1>2 DEF Answer, TypeOK, RequestType, RequestState
    <3> QED BY <1>2, <3>1, <3>2, AnswerFresh DEF SaleInv
  <2> QED BY <1>2, <2>2 DEF SaleInv, RedisLedger, StreamMatchesPurchases, EntriesOf, Positions
<1> QED BY <1>1, <1>2 DEF Client, RunScript, RunScriptFails, InitializeTransactionProxy, Reject,
           streamVars, redisVars, dbVars

LEMMA PublishSale ==
    ASSUME TypeOK, SaleInv, NEW v \in Vouchers, Publish(v)
    PROVE  SaleInv'
<1>1. UNCHANGED <<stream, purchased, idCounter, request>>
  BY DEF Publish, CacheStock, CommitVoucher, RollbackVoucher, streamVars, redisVars
<1>2. StreamMatchesPurchases' /\ IdsAreFresh'
  BY <1>1 DEF SaleInv, StreamMatchesPurchases, IdsAreFresh, EntriesOf, Positions
<1>3. RedisLedger'
  <2>1. CASE CacheStock(v)
    <3>1. Cardinality({}) = 0 /\ Stock[v] \in Nat
      BY FS_EmptySet, StockAssumption
    <3>2. purchased'[v] = {} /\ redisStock'[v] = Stock[v]
      BY <1>1, <2>1 DEF CacheStock, SaleInv, RedisLedger, TypeOK, StoreType
    <3>3. \A x \in Vouchers \ {v} : /\ redisStock'[x] = redisStock[x]
                                   /\ purchased'[x] = purchased[x]
                                   /\ published'[x] = published[x]
      BY <1>1, <2>1 DEF CacheStock, TypeOK, StoreType
    <3>4. Stock[v] >= 0 /\ Stock[v] + 0 = Stock[v]
      BY <3>1
    <3> QED BY <3>1, <3>2, <3>3, <3>4 DEF SaleInv, RedisLedger
  <2>2. CASE CommitVoucher(v) \/ RollbackVoucher(v)
    BY <2>2 DEF CommitVoucher, RollbackVoucher, redisVars, SaleInv, RedisLedger, TypeOK, StoreType
  <2> QED BY <2>1, <2>2 DEF Publish
<1> QED BY <1>2, <1>3 DEF SaleInv

\* No other action touches a sale; a crash only ends requests.
LEMMA OtherSale ==
    ASSUME TypeOK, SaleInv,
           \/ UNCHANGED vars
           \/ XGroupCreateByOperator
           \/ \E w \in Instances : Consume(w) \/ Crash(w) \/ Restart(w)
           \/ \E u \in Users : LeaseExpires(u)
    PROVE  SaleInv'
<1>1. UNCHANGED <<stream, redisStock, purchased, idCounter, published>>
  BY DEF vars, XGroupCreateByOperator, XGroupCreate, Consume, ReadNew, ReadNewFails,
     ReadPending, XReadGroupNew, AcquireUserLock, AcquireUserLockFails, CreateVoucherOrder,
     CreateVoucherOrderFails, CommitOrder, ReleaseUserLock, ReleaseUserLockFails, Acknowledge,
     AcknowledgeFails, XAck, Crash, Restart, LeaseExpires, streamVars, redisVars, dbVars
<1>2. RedisLedger' /\ StreamMatchesPurchases'
  BY <1>1 DEF SaleInv, RedisLedger, StreamMatchesPurchases, EntriesOf, Positions
<1>3. IdsAreFresh'
  <2>1. ASSUME NEW w \in Instances, Crash(w) PROVE IdsAreFresh'
    <3>1. request' \in [Requests -> RequestState]
      BY <2>1 DEF Crash, TypeOK, RequestType, RequestState
    <3>2. \A s \in Requests : request'[s].pc = "numbered" => request'[s] = request[s]
      BY <2>1 DEF Crash, TypeOK, RequestType, RequestState
    <3> QED BY <1>1, <3>1, <3>2, AnswerFresh DEF SaleInv
  <2>2. CASE UNCHANGED request
    BY <1>1, <2>2 DEF SaleInv, IdsAreFresh, Positions
  <2> QED
    BY <2>1, <2>2 DEF vars, XGroupCreateByOperator, Consume, ReadNew, ReadNewFails,
     ReadPending, AcquireUserLock, AcquireUserLockFails, CreateVoucherOrder,
     CreateVoucherOrderFails, ReleaseUserLock, ReleaseUserLockFails, Acknowledge,
     AcknowledgeFails, Restart, LeaseExpires
<1> QED BY <1>2, <1>3 DEF SaleInv

LEMMA StepKeepsSaleInv == TypeOK /\ SaleInv /\ [Next]_vars => SaleInv'
<1> SUFFICES ASSUME TypeOK, SaleInv, [Next]_vars PROVE SaleInv'
  OBVIOUS
<1>1. ASSUME NEW r \in Requests, NEW u \in Users, NEW v \in Vouchers, NEW w \in Instances,
             NextId(r, u, v, w)
      PROVE  SaleInv'
  <2>1. UNCHANGED <<stream, redisStock, purchased, published>>
    BY <1>1 DEF NextId, streamVars, dbVars
  <2> QED
    BY <1>1, <2>1, NextIdFresh DEF SaleInv, RedisLedger, StreamMatchesPurchases, EntriesOf,
       Positions
<1> QED BY <1>1, PublishSale, ClientSale, OtherSale DEF Next

\* The script's promise ("No overselling guaranteed by Lua script atomicity"):
\* units left and buyers always add up to the stock, buyers and stream entries
\* correspond one to one, and no order id is given out twice.
THEOREM SaleCorrect == Spec => [](RedisLedger /\ StreamMatchesPurchases /\ IdsAreFresh)
<1>1. SaleInv => RedisLedger /\ StreamMatchesPurchases /\ IdsAreFresh
  BY DEF SaleInv
<1> QED BY <1>1, StepKeepsSaleInv, InitSale, TypeCorrect, PTL DEF Spec

-----------------------------------------------------------------------------
(* The orders in MySQL.  That stock and rows add up is inductive once the  *)
(* table is known to be finite and every row to be a delivered entry.      *)

OrderInv == OrdersWereDelivered /\ DbLedger /\ IsFiniteSet(orders)

LEMMA InitOrder == Init => OrderInv
BY FS_EmptySet DEF Init, OrderInv, OrdersWereDelivered, DbLedger, OrdersOf

\* The only way a row comes about: the entry a consumer thread is at, once, and
\* out of stock that is there.
LEMMA CreateEffect ==
    ASSUME TypeOK, NEW w \in Instances, CreateVoucherOrder(w) \/ CreateVoucherOrderFails(w)
    PROVE  /\ stream[worker[w].at] \in Entry
           /\ worker[w].at \in 1..lastDelivered
           /\ worker[w].at \in Positions
           /\ UNCHANGED <<stream, lastDelivered, redisStock, purchased, published>>
           /\ CommitOrder(stream[worker[w].at]) \/ UNCHANGED <<orders, dbStock>>
<1>1. worker[w].pc = "Create"
  BY DEF CreateVoucherOrder, CreateVoucherOrderFails
<1>2. UNCHANGED <<streamVars, redisVars>> /\ (CommitOrder(stream[worker[w].at]) \/ UNCHANGED dbVars)
  BY DEF CreateVoucherOrder, CreateVoucherOrderFails
<1>3. UNCHANGED published
  BY <1>2 DEF CommitOrder, dbVars
<1> QED BY <1>1, <1>2, <1>3, EntryAtType DEF TypeOK, streamVars, redisVars, dbVars

\* The rows of each voucher after a commit.
LEMMA CommitRows ==
    ASSUME TypeOK, OrderInv, NEW e \in Entry, CommitOrder(e)
    PROVE  /\ e \notin orders
           /\ orders' = orders \cup {e}
           /\ published[e.voucher] = "committed"
           /\ OrdersOf(e.voucher)' = OrdersOf(e.voucher) \cup {e}
           /\ e \notin OrdersOf(e.voucher)
           /\ \A v \in Vouchers \ {e.voucher} : OrdersOf(v)' = OrdersOf(v) /\ dbStock'[v] = dbStock[v]
           /\ dbStock[e.voucher] \in Nat \ {0}
           /\ dbStock'[e.voucher] = dbStock[e.voucher] - 1
<1>1. e.voucher \in Vouchers
  BY DEF Entry
<1>2. e \notin orders /\ orders' = orders \cup {e}
  BY DEF CommitOrder, PrimaryKeyTaken
<1>3. dbStock[e.voucher] \in Nat \ {0}
  BY <1>1 DEF CommitOrder, Deductible, TypeOK, StoreType
<1>4. published[e.voucher] = "committed"
  BY <1>1, <1>3 DEF OrderInv, DbLedger
<1>5. /\ dbStock'[e.voucher] = dbStock[e.voucher] - 1
      /\ \A v \in Vouchers \ {e.voucher} : dbStock'[v] = dbStock[v]
  BY <1>1 DEF CommitOrder, TypeOK, StoreType
<1>6. \A v \in Vouchers : OrdersOf(v)' = IF v = e.voucher THEN OrdersOf(v) \cup {e} ELSE OrdersOf(v)
  BY <1>2 DEF OrdersOf
<1> QED BY <1>1, <1>2, <1>3, <1>4, <1>5, <1>6 DEF OrdersOf

LEMMA CommitKeepsOrderInv ==
    ASSUME TypeOK, OrderInv, NEW i \in 1..lastDelivered, stream[i] \in Entry,
           CommitOrder(stream[i]), UNCHANGED <<stream, lastDelivered, published>>
    PROVE  OrderInv'
<1> DEFINE e == stream[i]
           rows == OrdersOf(e.voucher)
<1>1. IsFiniteSet(orders') /\ IsFiniteSet(rows)
  <2>1. IsFiniteSet(orders \cup {e})
    BY FS_AddElement DEF OrderInv
  <2>2. rows \subseteq orders
    BY DEF OrdersOf
  <2> QED BY <2>1, <2>2, CommitRows, FS_Subset DEF OrderInv
<1>2. OrdersWereDelivered'
  BY CommitRows DEF OrderInv, OrdersWereDelivered
<1>3. Cardinality(rows') = Cardinality(rows) + 1 /\ Cardinality(rows) \in Nat
  BY <1>1, CommitRows, FS_AddElement, FS_CardinalityType
<1>4. dbStock'[e.voucher] + Cardinality(rows') = Stock[e.voucher]
  <2>1. dbStock[e.voucher] + Cardinality(rows) = Stock[e.voucher]
    BY CommitRows DEF OrderInv, DbLedger, Entry
  <2>2. dbStock[e.voucher] \in Nat /\ dbStock'[e.voucher] = dbStock[e.voucher] - 1
    BY CommitRows
  <2> QED BY <1>3, <2>1, <2>2
<1>5. DbLedger'
  BY <1>4, CommitRows DEF OrderInv, DbLedger
<1> QED BY <1>1, <1>2, <1>5 DEF OrderInv

LEMMA PublishKeepsOrderInv ==
    ASSUME TypeOK, OrderInv, NEW v \in Vouchers, Publish(v)
    PROVE  OrderInv'
<1>1. UNCHANGED <<stream, lastDelivered, orders>>
  BY DEF Publish, CacheStock, CommitVoucher, RollbackVoucher, streamVars
<1>2. \A x \in Vouchers : OrdersOf(x)' = OrdersOf(x)
  BY <1>1 DEF OrdersOf
<1>3. DbLedger'
  <2>1. CASE CacheStock(v) \/ RollbackVoucher(v)
    BY <1>2, <2>1 DEF CacheStock, RollbackVoucher, OrderInv, DbLedger, TypeOK, StoreType
  <2>2. CASE CommitVoucher(v)
    <3>1. OrdersOf(v)' = {} /\ dbStock'[v] = Stock[v]
      BY <1>2, <2>2 DEF CommitVoucher, OrderInv, DbLedger, TypeOK, StoreType
    <3>2. \A x \in Vouchers \ {v} : published'[x] = published[x] /\ dbStock'[x] = dbStock[x]
      BY <2>2 DEF CommitVoucher, TypeOK, StoreType
    <3>3. published'[v] = "committed"
      BY <2>2 DEF CommitVoucher, TypeOK, StoreType
    <3>4. Cardinality({}) = 0 /\ Stock[v] \in Nat
      BY FS_EmptySet, StockAssumption
    <3>5. dbStock'[v] + Cardinality(OrdersOf(v)') = Stock[v]
      BY <3>1, <3>4
    <3> QED BY <1>2, <3>2, <3>3, <3>5 DEF OrderInv, DbLedger
  <2> QED BY <2>1, <2>2 DEF Publish
<1> QED BY <1>1, <1>3 DEF OrderInv, OrdersWereDelivered

\* Every other step leaves MySQL alone and at most adds to, or delivers from,
\* the stream.
LEMMA OtherOrder ==
    ASSUME TypeOK, OrderInv, [Next]_vars,
           \A v \in Vouchers : ~Publish(v),
           \A w \in Instances : ~CreateVoucherOrder(w) /\ ~CreateVoucherOrderFails(w)
    PROVE  /\ UNCHANGED <<orders, dbStock, published>>
           /\ OrderInv'
<1>1. UNCHANGED <<orders, dbStock, published>>
  BY DEF Next, vars, Client, NextId, RunScript, RunScriptFails, InitializeTransactionProxy,
     XGroupCreateByOperator, Consume, ReadNew, ReadNewFails, ReadPending, AcquireUserLock,
     AcquireUserLockFails, ReleaseUserLock, ReleaseUserLockFails, Acknowledge,
     AcknowledgeFails, Crash, Restart, LeaseExpires, dbVars
<1>2. DbLedger' /\ IsFiniteSet(orders')
  BY <1>1 DEF OrderInv, DbLedger, OrdersOf
<1>3. /\ 1..lastDelivered \subseteq 1..lastDelivered'
      /\ \A i \in 1..lastDelivered : stream'[i] = stream[i]
  <2>1. CASE \E r \in Requests : /\ request[r].pc = "numbered"
                                /\ Sell(r)
    <3> PICK r \in Requests : request[r].pc = "numbered" /\ Sell(r)
      BY <2>1
    <3>1. EntryOf(r) \in Entry /\ XAdd(EntryOf(r))
      BY EntryOfType DEF Sell, TypeOK
    <3>2. /\ lastDelivered' = lastDelivered
          /\ Len(stream) \in Nat
          /\ \A i \in Positions : stream'[i] = stream[i]
      BY <3>1, XAddEffect DEF TypeOK
    <3> QED BY <3>2 DEF Positions, TypeOK, StreamType
  <2>2. CASE XReadGroupNew
    BY <2>2, XReadEffect DEF TypeOK, XReadGroupNew
  <2>3. CASE UNCHANGED <<stream, lastDelivered>>
    BY <2>3
  <2> QED
    BY <2>1, <2>2, <2>3 DEF Next, vars, Client, NextId, RunScript, Reject, RunScriptFails,
     InitializeTransactionProxy, XGroupCreateByOperator, XGroupCreate, Consume, ReadNew,
     ReadNewFails, ReadPending, AcquireUserLock, AcquireUserLockFails, ReleaseUserLock,
     ReleaseUserLockFails, Acknowledge, AcknowledgeFails, XAck, Crash, Restart, LeaseExpires,
     streamVars
<1>4. OrdersWereDelivered'
  BY <1>1, <1>3 DEF OrderInv, OrdersWereDelivered
<1> QED BY <1>1, <1>2, <1>4 DEF OrderInv

LEMMA StepKeepsOrderInv == TypeOK /\ OrderInv /\ [Next]_vars => OrderInv'
<1> SUFFICES ASSUME TypeOK, OrderInv, [Next]_vars PROVE OrderInv'
  OBVIOUS
<1>1. ASSUME NEW w \in Instances, CreateVoucherOrder(w) \/ CreateVoucherOrderFails(w)
      PROVE  OrderInv'
  <2>1. CASE UNCHANGED <<orders, dbStock>>
    BY <1>1, <2>1, CreateEffect DEF OrderInv, OrdersWereDelivered, DbLedger, OrdersOf
  <2>2. CASE CommitOrder(stream[worker[w].at])
    BY <1>1, <2>2, CreateEffect, CommitKeepsOrderInv
  <2> QED BY <1>1, <2>1, <2>2, CreateEffect
<1> QED BY <1>1, PublishKeepsOrderInv, OtherOrder

\* MySQL's books balance through every crash, redelivery and failed call, and
\* every row is an entry that was sold and delivered.
THEOREM OrdersCorrect == Spec => [](DbLedger /\ OrdersWereDelivered)
<1>1. OrderInv => DbLedger /\ OrdersWereDelivered
  BY DEF OrderInv
<1> QED BY <1>1, StepKeepsOrderInv, InitOrder, TypeCorrect, PTL DEF Spec

\* A user never has two rows for a voucher: rows are delivered entries, and
\* the script writes one entry per user and voucher.
THEOREM NoSecondOrder == Spec => []OneOrderPerUser
<1>1. TypeOK /\ StreamMatchesPurchases /\ OrdersWereDelivered => OneOrderPerUser
  <2> SUFFICES ASSUME TypeOK, StreamMatchesPurchases, OrdersWereDelivered PROVE OneOrderPerUser
    OBVIOUS
  <2>1. 1..lastDelivered \subseteq Positions
    <3>1. Len(stream) \in Nat /\ lastDelivered \in 0..Len(stream)
      BY LenProperties DEF TypeOK, StreamType
    <3> QED BY <3>1 DEF Positions
  <2> QED BY <2>1 DEF StreamMatchesPurchases, OrdersWereDelivered, OneOrderPerUser
<1> QED BY <1>1, TypeCorrect, SaleCorrect, OrdersCorrect, PTL

\* Stock moves with rows: a step that takes a unit inserts one row for it, a
\* step that inserts a row takes one unit, and rows are never changed.
THEOREM StockMoves == Spec => StockMovesWithOrder
<1> DEFINE Moves ==
             /\ orders \subseteq orders'
             /\ Cardinality(orders' \ orders) <= 1
             /\ \A v \in Vouchers :
                  published[v] = "committed" =>
                      dbStock'[v] = dbStock[v] - Cardinality(OrdersOf(v)' \ OrdersOf(v))
<1>1. TypeOK /\ OrderInv /\ [Next]_vars => Moves
  <2> SUFFICES ASSUME TypeOK, OrderInv, [Next]_vars PROVE Moves
    OBVIOUS
  <2>1. Cardinality({}) = 0 /\ \A e : Cardinality({e}) = 1
    BY FS_EmptySet, FS_Singleton
  <2>2. \A v \in Vouchers : dbStock[v] \in Nat
    BY DEF TypeOK, StoreType
  <2>3. ASSUME UNCHANGED orders,
               \A v \in Vouchers : published[v] = "committed" => dbStock'[v] = dbStock[v]
        PROVE  Moves
    <3>1. orders' \ orders = {} /\ \A v \in Vouchers : OrdersOf(v)' \ OrdersOf(v) = {}
      BY <2>3 DEF OrdersOf
    <3> QED BY <2>1, <2>2, <2>3, <3>1
  <2>4. ASSUME NEW w \in Instances, CreateVoucherOrder(w) \/ CreateVoucherOrderFails(w)
        PROVE  Moves
    <3> PICK e \in Entry : e = stream[worker[w].at]
      BY <2>4, CreateEffect
    <3>1. CASE CommitOrder(e)
      <4>1. /\ e \notin orders /\ orders' = orders \cup {e} /\ e \notin OrdersOf(e.voucher)
            /\ OrdersOf(e.voucher)' = OrdersOf(e.voucher) \cup {e}
            /\ \A v \in Vouchers \ {e.voucher} : OrdersOf(v)' = OrdersOf(v) /\ dbStock'[v] = dbStock[v]
            /\ dbStock'[e.voucher] = dbStock[e.voucher] - 1
        BY <3>1, CommitRows
      <4>2. /\ orders' \ orders = {e}
            /\ orders \subseteq orders'
            /\ OrdersOf(e.voucher)' \ OrdersOf(e.voucher) = {e}
            /\ \A v \in Vouchers \ {e.voucher} : /\ OrdersOf(v)' \ OrdersOf(v) = {}
                                                /\ dbStock'[v] = dbStock[v]
            /\ dbStock'[e.voucher] = dbStock[e.voucher] - 1
        BY <4>1
      <4>3. Cardinality(orders' \ orders) <= 1
        <5>1. Cardinality(orders' \ orders) = 1
          BY <2>1, <4>2
        <5> QED BY <5>1
      <4>4. ASSUME NEW v \in Vouchers
            PROVE  dbStock'[v] = dbStock[v] - Cardinality(OrdersOf(v)' \ OrdersOf(v))
        <5>1. CASE v = e.voucher
          <6>1. Cardinality(OrdersOf(v)' \ OrdersOf(v)) = 1
            BY <2>1, <4>2, <5>1
          <6> QED BY <4>2, <5>1, <6>1
        <5>2. CASE v # e.voucher
          <6>1. Cardinality(OrdersOf(v)' \ OrdersOf(v)) = 0 /\ dbStock'[v] = dbStock[v]
            BY <2>1, <4>2, <5>2
          <6> QED BY <2>2, <6>1
        <5> QED BY <5>1, <5>2
      <4> QED BY <4>2, <4>3, <4>4
    <3>2. CASE UNCHANGED <<orders, dbStock>>
      BY <2>3, <3>2
    <3> QED BY <2>4, <3>1, <3>2, CreateEffect
  <2>5. ASSUME NEW x \in Vouchers, Publish(x) PROVE Moves
    <3>1. /\ UNCHANGED orders
          /\ \A v \in Vouchers : published[v] = "committed" => dbStock'[v] = dbStock[v]
      BY <2>5 DEF Publish, CacheStock, CommitVoucher, RollbackVoucher, TypeOK, StoreType
    <3> QED BY <2>3, <3>1
  <2> QED BY <2>3, <2>4, <2>5, OtherOrder
<1>2. TypeOK /\ OrderInv /\ [Next]_vars => [Moves]_vars
  BY <1>1
<1> QED BY <1>2, InitOrder, StepKeepsOrderInv, TypeCorrect, PTL DEF Spec, StockMovesWithOrder

-----------------------------------------------------------------------------
(* Counting: accepted entries still waiting for a row against the stock.   *)

\* A map that is one-to-one and onto keeps the number of elements.
LEMMA SameSize ==
    ASSUME NEW S, NEW T, IsFiniteSet(S), NEW f \in [S -> T],
           \A a, b \in S : f[a] = f[b] => a = b,
           \A t \in T : \E a \in S : f[a] = t
    PROVE  IsFiniteSet(T) /\ Cardinality(T) = Cardinality(S)
<1>1. f \in Bijection(S, T)
  BY DEF Bijection, Injection, Surjection, IsInjective
<1> QED BY <1>1, FS_Bijection DEF ExistsBijection

\* In any state in which the books of Redis and of MySQL are right, the stock
\* left in MySQL minus the backlog is the stock left in Redis.
LEMMA BacklogIsRedisStock ==
    ASSUME TypeOK, SaleInv, OrderInv, NEW v \in Vouchers, published[v] = "committed"
    PROVE  dbStock[v] >= Cardinality({i \in EntriesOf(v) : stream[i] \notin orders})
<1> DEFINE all == EntriesOf(v)
           booked == {i \in all : stream[i] \in orders}
           waiting == {i \in all : stream[i] \notin orders}
<1>1. Len(stream) \in Nat /\ lastDelivered \in 0..Len(stream) /\ 1..lastDelivered \subseteq Positions
  <2>1. Len(stream) \in Nat /\ lastDelivered \in 0..Len(stream)
    BY LenProperties DEF TypeOK, StreamType
  <2> QED BY <2>1 DEF Positions
<1>2. all \subseteq Positions /\ IsFiniteSet(all)
  <2>1. IsFiniteSet(Positions)
    BY <1>1, FS_Interval DEF Positions
  <2>2. all \subseteq Positions
    BY DEF EntriesOf
  <2> QED BY <2>1, <2>2, FS_Subset
<1>3. /\ IsFiniteSet(booked) /\ IsFiniteSet(waiting)
      /\ Cardinality(all) \in Nat /\ Cardinality(booked) \in Nat /\ Cardinality(waiting) \in Nat
      /\ Cardinality(waiting) = Cardinality(all) - Cardinality(booked)
  <2>1. booked \subseteq all /\ waiting \subseteq all /\ waiting = all \ booked /\ all \cap booked = booked
    OBVIOUS
  <2>2. IsFiniteSet(booked) /\ IsFiniteSet(waiting)
    BY <1>2, <2>1, FS_Subset
  <2>3. Cardinality(all \ booked) = Cardinality(all) - Cardinality(all \cap booked)
    BY <1>2, FS_Difference
  <2>4. Cardinality(waiting) = Cardinality(all) - Cardinality(booked)
    BY <2>1, <2>3
  <2> QED BY <1>2, <2>2, <2>4, FS_CardinalityType
<1>4. Cardinality(purchased[v]) = Cardinality(all)
  <2> DEFINE f == [i \in all |-> stream[i].user]
  <2>1. purchased[v] = {stream[i].user : i \in all}
    BY DEF SaleInv, StreamMatchesPurchases
  <2>2. f \in [all -> purchased[v]]
    BY <2>1
  <2>3. \A t \in purchased[v] : \E i \in all : f[i] = t
    BY <2>1
  <2>4. \A i, j \in all : f[i] = f[j] => i = j
    BY DEF EntriesOf, SaleInv, StreamMatchesPurchases
  <2> HIDE DEF f, all
  <2> QED BY <1>2, <2>2, <2>3, <2>4, SameSize
<1>5. Cardinality(OrdersOf(v)) = Cardinality(booked)
  <2> DEFINE f == [i \in booked |-> stream[i]]
  <2>1. f \in [booked -> OrdersOf(v)]
    BY DEF EntriesOf, OrdersOf
  <2>2. ASSUME NEW o \in OrdersOf(v) PROVE \E i \in booked : f[i] = o
    <3>1. o \in orders /\ o.voucher = v
      BY DEF OrdersOf
    <3>2. PICK i \in 1..lastDelivered : stream[i] = o
      BY <3>1 DEF OrderInv, OrdersWereDelivered
    <3>3. i \in booked
      BY <1>1, <3>1, <3>2 DEF EntriesOf
    <3> QED BY <3>2, <3>3
  <2>3. \A i, j \in booked : f[i] = f[j] => i = j
    <3> SUFFICES ASSUME NEW i \in booked, NEW j \in booked, stream[i] = stream[j] PROVE i = j
      OBVIOUS
    <3>1. i \in Positions /\ j \in Positions /\ stream[i].id = stream[j].id
      BY <1>2
    <3> QED BY <3>1 DEF SaleInv, StreamMatchesPurchases
  <2> HIDE DEF f, booked
  <2> QED BY <1>3, <2>1, <2>2, <2>3, SameSize
<1>6. /\ redisStock[v] \in Int /\ redisStock[v] >= 0 /\ dbStock[v] \in Nat /\ Stock[v] \in Nat
      /\ redisStock[v] + Cardinality(purchased[v]) = Stock[v]
      /\ dbStock[v] + Cardinality(OrdersOf(v)) = Stock[v]
  BY StockAssumption DEF TypeOK, StoreType, SaleInv, RedisLedger, OrderInv, DbLedger
<1> QED BY <1>3, <1>4, <1>5, <1>6

\* MySQL never has less stock than accepted entries still waiting for a row, so
\* no accepted order is refused for want of stock.
THEOREM NeverOutOfStock == Spec => []BacklogCovered
<1>1. TypeOK /\ SaleInv /\ OrderInv => BacklogCovered
  BY BacklogIsRedisStock DEF BacklogCovered
<1> QED
  BY <1>1, InitSale, InitOrder, StepKeepsSaleInv, StepKeepsOrderInv, TypeCorrect, PTL DEF Spec

-----------------------------------------------------------------------------
(* The user lock.  Inductive is: whoever is in the section holds the lock. *)

LockInv ==
    spent["pause"] = 0 =>
        \A w \in Instances, u \in Users : InSection(w, u) => holder[u] = w

\* The lock as a step may leave it: it stays with those who stay in the section.
SectionsKept ==
    \A w \in Instances, u \in Users :
        InSection(w, u)' => \/ holder'[u] = w
                            \/ InSection(w, u) /\ (holder[u] = w => holder'[u] = w)

LEMMA InitLock == Init => LockInv
BY DEF Init, LockInv, InSection, IdleWorker

\* Stalls only count up.
LEMMA PausesOnlyGrow ==
    ASSUME TypeOK, [Next]_vars, spent'["pause"] = 0
    PROVE  spent["pause"] = 0
<1>1. spent \in [DOMAIN Limit -> Nat] /\ "pause" \in DOMAIN Limit
  BY DEF TypeOK, SpentType, Limit
<1>2. (\E kind \in DOMAIN Limit : Spend(kind)) => spent["pause"] = 0
  <2>1. ASSUME NEW kind \in DOMAIN Limit, Spend(kind) PROVE spent["pause"] = 0
    <3>1. CASE kind = "pause"
      BY <1>1, <2>1, <3>1 DEF Spend
    <3>2. CASE kind # "pause"
      BY <1>1, <2>1, <3>2 DEF Spend
    <3> QED BY <3>1, <3>2
  <2> QED BY <2>1
<1>3. UNCHANGED spent \/ \E kind \in DOMAIN Limit : Spend(kind)
  BY DEF Next, vars, Publish, CacheStock, CommitVoucher, RollbackVoucher, NextId, Client,
     RunScript, RunScriptFails, InitializeTransactionProxy, XGroupCreateByOperator, Consume,
     ReadNew, ReadNewFails, ReadPending, AcquireUserLock, AcquireUserLockFails,
     CreateVoucherOrder, CreateVoucherOrderFails, ReleaseUserLock, ReleaseUserLockFails,
     Acknowledge, AcknowledgeFails, Crash, Restart, LeaseExpires, Limit
<1> QED BY <1>2, <1>3

\* Steps of the requests and of publication leave the lock and the consumer
\* threads alone; the script only adds behind the entries being handled.
LEMMA OthersKeepSections ==
    ASSUME TypeOK, UNCHANGED <<worker, lockVars>>,
           UNCHANGED stream \/ \E r \in Requests : request[r].pc # "idle" /\ Sell(r)
    PROVE  SectionsKept
<1> SUFFICES ASSUME NEW w \in Instances, NEW u \in Users, InSection(w, u)'
             PROVE  InSection(w, u)
  BY DEF SectionsKept, lockVars
<1>1. worker[w].pc \in {"Create", "Unlock"}
  BY DEF InSection
<1>2. worker[w].at \in Positions
  BY <1>1, EntryAtType DEF TypeOK
<1>3. ASSUME NEW r \in Requests, request[r].pc # "idle", Sell(r)
      PROVE  \A i \in Positions : stream'[i] = stream[i]
  BY <1>3, EntryOfType, XAddEffect DEF Sell, TypeOK
<1>4. stream'[worker[w].at] = stream[worker[w].at]
  BY <1>2, <1>3
<1> QED BY <1>1, <1>4 DEF InSection, UserAt

\* A consumer thread that does not touch the lock enters no section.
LEMMA ConsumerKeepsSections ==
    ASSUME TypeOK, NEW w \in Instances,
           \/ ReadNew(w) \/ ReadNewFails(w) \/ ReadPending(w) \/ CreateVoucherOrder(w)
           \/ CreateVoucherOrderFails(w) \/ Acknowledge(w) \/ AcknowledgeFails(w)
    PROVE  SectionsKept
<1>1. UNCHANGED <<stream, lockVars>>
  BY DEF ReadNew, ReadNewFails, ReadPending, XReadGroupNew, CreateVoucherOrder,
     CreateVoucherOrderFails, Acknowledge, AcknowledgeFails, XAck, streamVars
<1>2. worker \in [Instances -> WorkerState]
  BY DEF TypeOK, WorkerType
<1>3. /\ \A x \in Instances \ {w} : worker'[x] = worker[x]
      /\ worker'[w].pc \in {"Create", "Unlock"} =>
            worker[w].pc = "Create" /\ worker'[w].at = worker[w].at
  BY <1>2 DEF ReadNew, ReadNewFails, ReadPending, CreateVoucherOrder, CreateVoucherOrderFails,
     Acknowledge, AcknowledgeFails, Take, Catch, MoveTo, Throw, NextRound, IdleWorker,
     WorkerState
<1>4. ASSUME NEW x \in Instances, NEW u \in Users, InSection(x, u)'
      PROVE  InSection(x, u)
  BY <1>1, <1>3, <1>4 DEF InSection, UserAt
<1> QED BY <1>1, <1>4 DEF SectionsKept, lockVars

\* Taking the lock: nobody else is in the section, or the lock would be theirs.
LEMMA AcquireKeepsLock ==
    ASSUME TypeOK, NEW w \in Instances, AcquireUserLock(w) \/ AcquireUserLockFails(w),
           \A x \in Instances, u \in Users : InSection(x, u) => holder[u] = x
    PROVE  \A x \in Instances, u \in Users : InSection(x, u)' => holder'[u] = x
<1> DEFINE z == UserAt(worker[w].at)
<1>1. /\ UNCHANGED stream /\ z \in Users
      /\ worker[w].pc = "TryLock" /\ worker \in [Instances -> WorkerState]
      /\ holder \in [Users -> Instances \cup {Free, Orphan}]
  BY EntryAtType DEF AcquireUserLock, AcquireUserLockFails, streamVars, TypeOK, WorkerType, LockType
<1>2. /\ \A x \in Instances \ {w} : worker'[x] = worker[x]
      /\ worker'[w].pc \in {"Create", "Unlock"} => Acquire(w, z) /\ worker'[w].at = worker[w].at
  BY <1>1 DEF AcquireUserLock, AcquireUserLockFails, MoveTo, Catch, IdleWorker, WorkerState
<1>3. UNCHANGED holder \/ Acquire(w, z)
  BY DEF AcquireUserLock, AcquireUserLockFails, lockVars
<1>4. ASSUME NEW x \in Instances \ {w}, NEW u \in Users, InSection(x, u)'
      PROVE  holder'[u] = x
  <2>1. holder[u] = x
    BY <1>1, <1>2, <1>4 DEF InSection, UserAt
  <2>2. Acquire(w, z) => u # z
    BY <2>1, LockValues DEF Acquire, Acquirable
  <2> QED BY <1>1, <1>3, <2>1, <2>2 DEF Acquire
<1>5. ASSUME NEW u \in Users, InSection(w, u)' PROVE holder'[u] = w
  <2>1. Acquire(w, z) /\ u = z
    BY <1>1, <1>2, <1>5 DEF InSection, UserAt
  <2> QED BY <1>1, <2>1 DEF Acquire
<1> QED BY <1>4, <1>5

\* Giving the lock back: only its holder does, and leaves the section with it.
LEMMA ReleaseKeepsLock ==
    ASSUME TypeOK, NEW w \in Instances, ReleaseUserLock(w) \/ ReleaseUserLockFails(w),
           \A x \in Instances, u \in Users : InSection(x, u) => holder[u] = x
    PROVE  \A x \in Instances, u \in Users : InSection(x, u)' => holder'[u] = x
<1> DEFINE z == UserAt(worker[w].at)
<1>1. /\ UNCHANGED stream /\ z \in Users
      /\ worker[w].pc = "Unlock" /\ worker \in [Instances -> WorkerState]
      /\ holder \in [Users -> Instances \cup {Free, Orphan}]
  BY EntryAtType DEF ReleaseUserLock, ReleaseUserLockFails, streamVars, TypeOK, WorkerType, LockType
<1>2. /\ \A x \in Instances \ {w} : worker'[x] = worker[x]
      /\ worker'[w].pc \notin {"Create", "Unlock"}
  BY <1>1 DEF ReleaseUserLock, ReleaseUserLockFails, AfterUnlock, MoveTo, Catch, IdleWorker, WorkerState
<1>3. UNCHANGED holder \/ (holder[z] = w /\ holder' = [holder EXCEPT ![z] = Free])
  BY DEF ReleaseUserLock, ReleaseUserLockFails, GiveBack, lockVars
<1> SUFFICES ASSUME NEW x \in Instances, NEW u \in Users, InSection(x, u)' PROVE holder'[u] = x
  OBVIOUS
<1>4. x # w /\ holder[u] = x
  BY <1>1, <1>2 DEF InSection, UserAt
<1> QED BY <1>1, <1>3, <1>4

\* A lease that lapses under its holder in the section costs a stall; a crash
\* takes the holder out of every section; a restarted process starts outside.
LEMMA EnvironmentKeepsLock ==
    ASSUME TypeOK, \/ \E w \in Instances : Crash(w) \/ Restart(w)
                   \/ \E u \in Users : LeaseExpires(u),
           spent'["pause"] = 0,
           \A x \in Instances, u \in Users : InSection(x, u) => holder[u] = x
    PROVE  \A x \in Instances, u \in Users : InSection(x, u)' => holder'[u] = x
<1> SUFFICES ASSUME NEW x \in Instances, NEW u \in Users, InSection(x, u)' PROVE holder'[u] = x
  OBVIOUS
<1>1. /\ UNCHANGED stream
      /\ worker \in [Instances -> WorkerState]
      /\ holder \in [Users -> Instances \cup {Free, Orphan}]
      /\ spent \in [DOMAIN Limit -> Nat]
  BY DEF Crash, Restart, LeaseExpires, streamVars, TypeOK, WorkerType, LockType, SpentType
<1>2. ASSUME NEW w \in Instances, Crash(w) \/ Restart(w) PROVE holder'[u] = x
  <2>1. /\ worker'[w].pc \notin {"Create", "Unlock"}
        /\ \A y \in Instances \ {w} : worker'[y] = worker[y]
    BY <1>1, <1>2 DEF Crash, Restart, DownWorker, IdleWorker
  <2>2. x # w /\ holder[u] = x
    BY <1>1, <2>1 DEF InSection, UserAt
  <2> QED BY <1>1, <1>2, <2>2 DEF Crash, Restart, Abandon, lockVars
<1>3. ASSUME NEW z \in Users, LeaseExpires(z) PROVE holder'[u] = x
  <2>1. InSection(x, u) /\ holder[u] = x
    BY <1>1, <1>3 DEF LeaseExpires, InSection, UserAt
  <2>2. CASE u = z
    <3>1. Spend("pause")
      BY <1>3, <2>1, <2>2 DEF LeaseExpires
    <3>2. FALSE
      BY <1>1, <3>1 DEF Spend, Limit
    <3> QED BY <3>2
  <2>3. CASE u # z
    BY <1>1, <1>3, <2>1, <2>3 DEF LeaseExpires, Expire
  <2> QED BY <2>2, <2>3
<1> QED BY <1>2, <1>3

LEMMA StepKeepsLockInv == TypeOK /\ LockInv /\ [Next]_vars => LockInv'
<1> SUFFICES ASSUME TypeOK, LockInv, [Next]_vars, spent'["pause"] = 0
             PROVE  \A w \in Instances, u \in Users : InSection(w, u)' => holder'[u] = w
  BY DEF LockInv
<1>1. \A w \in Instances, u \in Users : InSection(w, u) => holder[u] = w
  BY PausesOnlyGrow DEF LockInv
<1>2. CASE SectionsKept
  BY <1>1, <1>2 DEF SectionsKept
<1>3. ASSUME NEW v \in Vouchers, Publish(v) PROVE SectionsKept
  <2>1. UNCHANGED <<worker, lockVars, stream>>
    BY <1>3 DEF Publish, CacheStock, CommitVoucher, RollbackVoucher, streamVars
  <2> QED BY <2>1, OthersKeepSections
<1>4. ASSUME NEW r \in Requests, NEW u \in Users, NEW v \in Vouchers, NEW w \in Instances,
             NextId(r, u, v, w)
      PROVE  SectionsKept
  <2>1. UNCHANGED <<worker, lockVars, stream>>
    BY <1>4 DEF NextId, streamVars
  <2> QED BY <2>1, OthersKeepSections
<1>5. ASSUME NEW r \in Requests, Client(r) PROVE SectionsKept
  <2>1. /\ UNCHANGED <<worker, lockVars>>
        /\ UNCHANGED stream \/ (request[r].pc # "idle" /\ Sell(r))
    BY <1>5 DEF Client, RunScript, RunScriptFails, Reject, InitializeTransactionProxy, streamVars
  <2> QED BY <2>1, OthersKeepSections
<1>6. CASE XGroupCreateByOperator \/ UNCHANGED vars
  <2>1. UNCHANGED <<worker, lockVars, stream>>
    BY <1>6 DEF XGroupCreateByOperator, XGroupCreate, vars, lockVars
  <2> QED BY <1>2, <2>1, OthersKeepSections
<1> QED
  BY <1>1, <1>2, <1>3, <1>4, <1>5, <1>6, ConsumerKeepsSections, AcquireKeepsLock,
     ReleaseKeepsLock, EnvironmentKeepsLock DEF Next, Consume

\* The per-user lock excludes: until a process stalls past a lease, two
\* instances are never inside createVoucherOrder for one user.
THEOREM UserLockExcludes == Spec => []LockExclusion
<1>1. LockInv => LockExclusion
  BY DEF LockInv, LockExclusion
<1> QED BY <1>1, InitLock, StepKeepsLockInv, TypeCorrect, PTL DEF Spec

-----------------------------------------------------------------------------
(* The answers.  Inductive with SaleInv, one request at a time.            *)

TrueAnswer(r) ==
    /\ request[r].pc \in {"queued", "ok"} => \E i \in Positions : stream[i] = EntryOf(r)
    /\ request[r].pc = "soldOut" =>
          Cardinality(purchased[request[r].voucher]) = Stock[request[r].voucher]
    /\ request[r].pc = "duplicate" =>
          \E i \in Positions : /\ stream[i].user = request[r].user
                               /\ stream[i].voucher = request[r].voucher
                               /\ stream[i].id # request[r].id

\* A sale does not belie what another request was told: the stream keeps its
\* entries, and a voucher that is sold out is not sold.
LEMMA SaleKeepsAnswer ==
    ASSUME TypeOK, SaleInv, NEW r \in Requests, request[r].pc = "numbered", Sell(r),
           NEW s \in Requests, TrueAnswer(s), request'[s] = request[s]
    PROVE  TrueAnswer(s)'
<1>1. /\ Positions \subseteq Positions'
      /\ \A i \in Positions : stream'[i] = stream[i]
  BY EntryOfType, XAddEffect DEF Sell, TypeOK
<1>2. EntryOf(s)' = EntryOf(s)
  BY DEF EntryOf
<1>3. request[s].pc = "soldOut" => purchased'[request[s].voucher] = purchased[request[s].voucher]
  <2> SUFFICES ASSUME request[s].pc = "soldOut", request[s].voucher = request[r].voucher
               PROVE  FALSE
    BY DEF Sell, TypeOK, StoreType
  <2> PICK v \in Vouchers : v = request[r].voucher
    BY DEF TypeOK, RequestType
  <2>1. redisStock[v] \in Int /\ redisStock[v] > 0 /\ published[v] # "absent"
    BY DEF Sell, SoldOut, ScriptRaises, TypeOK, StoreType
  <2>2. IsFiniteSet(purchased[v])
    BY FiniteAssumption, FS_Subset DEF TypeOK, StoreType
  <2>3. Cardinality(purchased[v]) \in Nat /\ Cardinality(purchased[v]) = Stock[v]
    BY <2>2, FS_CardinalityType DEF TrueAnswer
  <2>4. redisStock[v] + Cardinality(purchased[v]) = Stock[v]
    BY <2>1 DEF SaleInv, RedisLedger
  <2> QED BY <2>1, <2>3, <2>4
<1>4. request'[s].pc = "soldOut" =>
          Cardinality(purchased'[request'[s].voucher]) = Stock[request'[s].voucher]
  BY <1>3 DEF TrueAnswer
<1> QED BY <1>1, <1>2, <1>4 DEF TrueAnswer

\* The script's own answers are true when given.
LEMMA ScriptAnswersTruly ==
    ASSUME TypeOK, SaleInv, NEW r \in Requests, request[r].pc = "numbered", RunScript(r)
    PROVE  TrueAnswer(r)'
<1> PICK u \in Users, v \in Vouchers : u = request[r].user /\ v = request[r].voucher
  BY DEF TypeOK, RequestType
<1>1. request \in [Requests -> RequestState]
  BY DEF TypeOK, RequestType
<1>2. CASE Reject(r)
  <2>1. UNCHANGED <<stream, purchased>>
    BY <1>2 DEF Reject, streamVars
  <2>2. CASE Answer(r, "error")
    BY <1>1, <2>2 DEF Answer, TrueAnswer, RequestState
  <2>3. CASE ~ScriptRaises(v) /\ SoldOut(v) /\ Answer(r, "soldOut")
    <3>1. redisStock[v] \in Int /\ redisStock[v] <= 0 /\ redisStock[v] >= 0
      BY <2>3 DEF ScriptRaises, SoldOut, TypeOK, StoreType, SaleInv, RedisLedger
    <3>2. IsFiniteSet(purchased[v])
      BY FiniteAssumption, FS_Subset DEF TypeOK, StoreType
    <3>3. Cardinality(purchased[v]) \in Nat
      BY <3>2, FS_CardinalityType
    <3>4. redisStock[v] + Cardinality(purchased[v]) = Stock[v]
      BY <2>3 DEF ScriptRaises, SaleInv, RedisLedger
    <3>5. Cardinality(purchased[v]) = Stock[v]
      BY <3>1, <3>3, <3>4
    <3>6. request'[r].pc = "soldOut" /\ request'[r].voucher = v
      BY <1>1, <2>3 DEF Answer, RequestState
    <3> QED BY <2>1, <3>5, <3>6 DEF TrueAnswer
  <2>4. CASE AlreadyBought(u, v) /\ Answer(r, "duplicate")
    <3>1. PICK i \in Positions : stream[i].user = u /\ stream[i].voucher = v
      BY <2>4 DEF AlreadyBought, SaleInv, StreamMatchesPurchases, EntriesOf
    <3>2. stream[i].id # request[r].id
      BY <3>1 DEF SaleInv, IdsAreFresh
    <3>3. request'[r] = [request[r] EXCEPT !.pc = "duplicate"]
      BY <1>1, <2>4 DEF Answer
    <3>4. /\ request'[r].pc = "duplicate" /\ request'[r].user = u /\ request'[r].voucher = v
          /\ request'[r].id = request[r].id
      BY <1>1, <3>3 DEF RequestState
    <3>5. i \in Positions' /\ stream'[i] = stream[i]
      BY <2>1 DEF Positions
    <3> QED BY <3>1, <3>2, <3>4, <3>5 DEF TrueAnswer
  <2> QED BY <1>2, <2>2, <2>3, <2>4 DEF Reject
<1>3. CASE Sell(r) /\ Answer(r, "queued")
  <2>1. /\ Positions' = Positions \cup {Len(stream) + 1}
        /\ stream'[Len(stream) + 1] = EntryOf(r)
    BY <1>3, EntryOfType, XAddEffect DEF Sell, TypeOK
  <2>2. request'[r].pc = "queued" /\ EntryOf(r)' = EntryOf(r)
    BY <1>1, <1>3 DEF Answer, EntryOf, RequestState
  <2> QED BY <2>1, <2>2 DEF TrueAnswer
<1> QED BY <1>2, <1>3 DEF RunScript

LEMMA ClientAnswers ==
    ASSUME TypeOK, SaleInv, AnswersStayTrue, NEW r \in Requests, Client(r),
           NEW s \in Requests
    PROVE  TrueAnswer(s)'
<1>1. request \in [Requests -> RequestState] /\ TrueAnswer(s)
  BY DEF TypeOK, RequestType, AnswersStayTrue, TrueAnswer
<1>2. s # r => request'[s] = request[s]
  BY <1>1 DEF Client, RunScript, RunScriptFails, Reject, InitializeTransactionProxy, Answer
<1>3. \/ request[r].pc = "numbered" /\ Sell(r)
      \/ UNCHANGED <<stream, purchased>>
  BY DEF Client, RunScript, RunScriptFails, Reject, InitializeTransactionProxy, streamVars, redisVars
<1>4. CASE s # r
  <2>1. CASE UNCHANGED <<stream, purchased>>
    BY <1>1, <1>2, <1>4, <2>1 DEF TrueAnswer, Positions, EntryOf
  <2> QED BY <1>1, <1>2, <1>3, <1>4, <2>1, SaleKeepsAnswer
<1>5. CASE s = r
  <2>1. CASE RunScript(r)
    BY <1>5, <2>1, ScriptAnswersTruly DEF RunScript
  <2>2. CASE RunScriptFails(r)
    BY <1>1, <1>5, <2>2 DEF RunScriptFails, Answer, TrueAnswer, RequestState
  <2>3. CASE InitializeTransactionProxy(r)
    <3>1. /\ request[r].pc = "queued" /\ UNCHANGED stream
          /\ request'[r].pc = "ok" /\ EntryOf(r)' = EntryOf(r)
      BY <1>1, <2>3 DEF InitializeTransactionProxy, Answer, EntryOf, RequestState, streamVars
    <3> QED BY <1>1, <1>5, <3>1 DEF TrueAnswer, Positions
  <2> QED BY <2>1, <2>2, <2>3 DEF Client
<1> QED BY <1>4, <1>5

LEMMA StepKeepsAnswers == TypeOK /\ SaleInv /\ AnswersStayTrue /\ [Next]_vars => AnswersStayTrue'
<1> SUFFICES ASSUME TypeOK, SaleInv, AnswersStayTrue, [Next]_vars, NEW s \in Requests
             PROVE  TrueAnswer(s)'
  BY DEF AnswersStayTrue, TrueAnswer
<1>1. request \in [Requests -> RequestState] /\ TrueAnswer(s)
  BY DEF TypeOK, RequestType, AnswersStayTrue, TrueAnswer
<1>2. ASSUME UNCHANGED <<stream, purchased>>,
             request'[s] = request[s] \/ request'[s].pc \in {"numbered", "error"}
      PROVE  TrueAnswer(s)'
  BY <1>1, <1>2 DEF TrueAnswer, Positions, EntryOf
<1>3. CASE UNCHANGED <<stream, purchased, request>>
  BY <1>2, <1>3
<1>4. ASSUME NEW r \in Requests, NEW u \in Users, NEW v \in Vouchers, NEW w \in Instances,
             NextId(r, u, v, w)
      PROVE  TrueAnswer(s)'
  <2>1. request'[s] = request[s] \/ request'[s].pc = "numbered"
    BY <1>1, <1>4 DEF NextId
  <2> QED BY <1>2, <1>4, <2>1 DEF NextId, streamVars
<1>5. ASSUME NEW w \in Instances, Crash(w) PROVE TrueAnswer(s)'
  <2>1. request'[s] = request[s] \/ request'[s].pc = "error"
    BY <1>1, <1>5 DEF Crash, RequestState
  <2> QED BY <1>2, <1>5, <2>1 DEF Crash, streamVars, redisVars
<1> QED
  BY <1>3, <1>4, <1>5, ClientAnswers
     DEF Next, vars, Publish, CacheStock, CommitVoucher, RollbackVoucher,
     XGroupCreateByOperator, XGroupCreate, Consume, ReadNew, ReadNewFails, ReadPending,
     XReadGroupNew, AcquireUserLock, AcquireUserLockFails, CreateVoucherOrder,
     CreateVoucherOrderFails, ReleaseUserLock, ReleaseUserLockFails, Acknowledge,
     AcknowledgeFails, XAck, Restart, LeaseExpires, streamVars, redisVars

\* What a buyer was told stays true: an accepted order is in the stream under
\* its id, "Insufficient inventory" and "Duplicate orders" are final.
THEOREM AnswersHold == Spec => []AnswersStayTrue
<1>1. Init => AnswersStayTrue
  BY DEF Init, AnswersStayTrue, NewRequest
<1> QED BY <1>1, InitSale, StepKeepsSaleInv, StepKeepsAnswers, TypeCorrect, PTL DEF Spec

-----------------------------------------------------------------------------
(* What a consumer thread has done by the time it unlocks without having   *)
(* been thrown out: its entry has a row, or never will.                    *)

Handled(e) == e \in orders \/ published[e.voucher] = "rolledBack"
HandledAfter(e) == e \in orders' \/ published'[e.voucher] = "rolledBack"

HandledInv ==
    \A w \in Instances :
        worker[w].pc = "Unlock" /\ ~worker[w].thrown => Handled(stream[worker[w].at])

LEMMA StaysHandled ==
    ASSUME TypeOK, OrderInv, [Next]_vars, NEW e \in Entry, Handled(e)
    PROVE  HandledAfter(e)
<1>1. e.voucher \in Vouchers
  BY DEF Entry
<1>2. ASSUME NEW v \in Vouchers, Publish(v) PROVE HandledAfter(e)
  BY <1>1, <1>2 DEF Publish, CacheStock, CommitVoucher, RollbackVoucher, Handled, HandledAfter,
         TypeOK, StoreType
<1>3. ASSUME NEW w \in Instances, CreateVoucherOrder(w) \/ CreateVoucherOrderFails(w)
      PROVE  HandledAfter(e)
  BY <1>3, CreateEffect DEF CommitOrder, Handled, HandledAfter
<1> QED BY <1>2, <1>3, OtherOrder DEF Handled, HandledAfter

\* The entry a thread is at is not changed by any step.
LEMMA EntryStays ==
    ASSUME TypeOK, OrderInv, [Next]_vars, NEW i \in Positions
    PROVE  stream'[i] = stream[i]
<1>1. ASSUME NEW r \in Requests, request[r].pc = "numbered", Sell(r) PROVE stream'[i] = stream[i]
  BY <1>1, EntryOfType, XAddEffect DEF Sell, TypeOK
<1>2. CASE UNCHANGED stream
  BY <1>2
<1>3. UNCHANGED stream \/ \E r \in Requests : request[r].pc = "numbered" /\ Sell(r)
  BY DEF Next, vars, Publish, CacheStock, CommitVoucher, RollbackVoucher, NextId, Client,
     RunScript, RunScriptFails, Reject, InitializeTransactionProxy, XGroupCreateByOperator,
     XGroupCreate, Consume, ReadNew, ReadNewFails, ReadPending, XReadGroupNew, AcquireUserLock,
     AcquireUserLockFails, CreateVoucherOrder, CreateVoucherOrderFails, ReleaseUserLock,
     ReleaseUserLockFails, Acknowledge, AcknowledgeFails, XAck, Crash, Restart, LeaseExpires,
     streamVars
<1> QED BY <1>1, <1>2, <1>3

\* Consumer steps move one thread.
LEMMA OneThreadMoves ==
    ASSUME TypeOK, NEW x \in Instances, Consume(x) \/ Crash(x) \/ Restart(x),
           NEW w \in Instances, w # x
    PROVE  worker'[w] = worker[w]
<1>1. worker \in [Instances -> WorkerState]
  BY DEF TypeOK, WorkerType
<1>2. CASE Crash(x) \/ Restart(x)
  BY <1>1, <1>2 DEF Crash, Restart
<1>3. CASE ReadNew(x) \/ ReadNewFails(x) \/ ReadPending(x)
  BY <1>1, <1>3 DEF ReadNew, ReadNewFails, ReadPending, Take, Catch
<1>4. CASE AcquireUserLock(x) \/ AcquireUserLockFails(x)
  BY <1>1, <1>4 DEF AcquireUserLock, AcquireUserLockFails, MoveTo, Catch
<1>5. CASE CreateVoucherOrder(x) \/ CreateVoucherOrderFails(x)
  BY <1>1, <1>5 DEF CreateVoucherOrder, CreateVoucherOrderFails, Throw, MoveTo
<1>6. CASE ReleaseUserLock(x) \/ ReleaseUserLockFails(x)
  BY <1>1, <1>6 DEF ReleaseUserLock, ReleaseUserLockFails, AfterUnlock, MoveTo, Catch
<1>7. CASE Acknowledge(x) \/ AcknowledgeFails(x)
  BY <1>1, <1>7 DEF Acknowledge, AcknowledgeFails, NextRound, Catch
<1> QED BY <1>2, <1>3, <1>4, <1>5, <1>6, <1>7 DEF Consume

\* The other steps move none.
LEMMA NoThreadMoves ==
    ASSUME [Next]_vars, \A x \in Instances : ~(Consume(x) \/ Crash(x) \/ Restart(x))
    PROVE  worker' = worker
BY DEF Next, vars, Publish, CacheStock, CommitVoucher, RollbackVoucher, NextId, Client,
   RunScript, RunScriptFails, InitializeTransactionProxy, XGroupCreateByOperator, LeaseExpires

\* createVoucherOrder returns normally only if the row is committed, or there is
\* nothing to deduct from: the stock covers the backlog, so the row is there
\* already or the voucher has never been published.
LEMMA CreateHandles ==
    ASSUME TypeOK, SaleInv, OrderInv, NEW w \in Instances, CreateVoucherOrder(w),
           ~worker'[w].thrown
    PROVE  HandledAfter(stream[worker[w].at]) /\ worker'[w].at = worker[w].at
<1> DEFINE i == worker[w].at
           e == stream[i]
<1>1. /\ worker \in [Instances -> WorkerState] /\ worker[w].pc = "Create"
      /\ UNCHANGED stream
  BY DEF CreateVoucherOrder, TypeOK, WorkerType, streamVars
<1>2. e \in Entry /\ i \in Positions /\ e.voucher \in Vouchers
  BY <1>1, EntryAtType DEF TypeOK, Entry
<1>3. worker'[w].at = i
  BY <1>1 DEF CreateVoucherOrder, Throw, MoveTo, WorkerState
<1>4. CASE CommitOrder(e)
  BY <1>3, <1>4 DEF CommitOrder, HandledAfter
<1>5. CASE RowUnlocked(e.voucher) /\ ~Deductible(e.voucher) /\ UNCHANGED dbVars
  <2> PICK v \in Vouchers : v = e.voucher
    BY <1>2
  <2>1. published[v] \in {"absent", "committed", "rolledBack"} /\ dbStock[v] = 0
    BY <1>5 DEF RowUnlocked, Deductible, TypeOK, StoreType
  <2>2. i \in EntriesOf(v) /\ e.user \in purchased[v]
    BY <1>2 DEF EntriesOf, SaleInv, StreamMatchesPurchases
  <2>3. published[v] # "absent"
    BY <2>2 DEF SaleInv, RedisLedger
  <2>4. CASE published[v] = "committed"
    <3> DEFINE waiting == {j \in EntriesOf(v) : stream[j] \notin orders}
    <3>1. IsFiniteSet(waiting)
      <4>1. Len(stream) \in Nat
        BY LenProperties DEF TypeOK, StreamType
      <4>2. IsFiniteSet(Positions) /\ waiting \subseteq Positions
        BY <4>1, FS_Interval DEF Positions, EntriesOf
      <4> QED BY <4>2, FS_Subset
    <3>2. dbStock[v] >= Cardinality(waiting)
      BY <2>4, BacklogIsRedisStock
    <3>3. Cardinality(waiting) = 0
      BY <2>1, <3>1, <3>2, FS_CardinalityType
    <3>4. waiting = {}
      BY <3>1, <3>3, FS_EmptySet
    <3> QED BY <1>2, <1>3, <1>5, <2>2, <3>4 DEF HandledAfter, dbVars
  <2> QED BY <1>3, <1>5, <2>1, <2>3, <2>4 DEF HandledAfter, dbVars
<1>6. CASE Throw(w)
  BY <1>1, <1>6 DEF Throw, WorkerState
<1> QED BY <1>3, <1>4, <1>5, <1>6 DEF CreateVoucherOrder

LEMMA StepKeepsHandledInv ==
    TypeOK /\ SaleInv /\ OrderInv /\ HandledInv /\ [Next]_vars => HandledInv'
<1> SUFFICES ASSUME TypeOK, SaleInv, OrderInv, HandledInv, [Next]_vars, NEW w \in Instances,
                    worker'[w].pc = "Unlock", ~worker'[w].thrown
             PROVE  HandledAfter(stream'[worker'[w].at])
  BY DEF HandledInv, Handled, HandledAfter
<1>1. worker \in [Instances -> WorkerState]
  BY DEF TypeOK, WorkerType
<1>2. ASSUME worker[w].pc = "Unlock", ~worker[w].thrown, worker'[w].at = worker[w].at
      PROVE  HandledAfter(stream'[worker'[w].at])
  <2> PICK e \in Entry : e = stream[worker[w].at]
    BY <1>2, EntryAtType DEF TypeOK
  <2>1. HandledAfter(e)
    BY <1>2, StaysHandled DEF HandledInv
  <2>2. stream'[worker[w].at] = e
    BY <1>2, EntryAtType, EntryStays DEF TypeOK
  <2> QED BY <1>2, <2>1, <2>2
<1>3. CASE worker'[w] = worker[w]
  BY <1>2, <1>3
<1>4. CASE CreateVoucherOrder(w)
  <2>1. UNCHANGED stream
    BY <1>4 DEF CreateVoucherOrder, streamVars
  <2> QED BY <1>4, <2>1, CreateHandles
<1>5. CASE Consume(w) /\ ~CreateVoucherOrder(w)
  BY <1>1, <1>5 DEF Consume, ReadNew, ReadNewFails, ReadPending, AcquireUserLock,
     AcquireUserLockFails, CreateVoucherOrderFails, ReleaseUserLock, ReleaseUserLockFails,
     Acknowledge, AcknowledgeFails, Take, Catch, MoveTo, Throw, NextRound, AfterUnlock,
     IdleWorker, WorkerState
<1>6. CASE Crash(w) \/ Restart(w)
  BY <1>1, <1>6 DEF Crash, Restart, DownWorker, IdleWorker
<1> QED BY <1>3, <1>4, <1>5, <1>6, OneThreadMoves, NoThreadMoves

\* A thread comes to acknowledge an entry by being refused the lock, or by
\* unlocking with nothing thrown.
LEMMA AckComesFrom ==
    ASSUME TypeOK, [Next]_vars, NEW w \in Instances, worker'[w].pc = "Ack"
    PROVE  /\ worker'[w].at = worker[w].at
           /\ \/ worker[w].pc = "Ack"
              \/ worker[w].pc = "TryLock" /\ ~Acquirable(w, UserAt(worker[w].at))
              \/ worker[w].pc = "Unlock" /\ ~worker[w].thrown
<1>1. worker \in [Instances -> WorkerState]
  BY DEF TypeOK, WorkerType
<1>2. CASE AcquireUserLock(w)
  BY <1>1, <1>2 DEF AcquireUserLock, MoveTo, WorkerState
<1>3. CASE ReleaseUserLock(w)
  BY <1>1, <1>3 DEF ReleaseUserLock, AfterUnlock, MoveTo, Catch, IdleWorker, WorkerState
<1>4. CASE Consume(w) /\ ~AcquireUserLock(w) /\ ~ReleaseUserLock(w)
  BY <1>1, <1>4 DEF Consume, ReadNew, ReadNewFails, ReadPending, AcquireUserLockFails,
     CreateVoucherOrder, CreateVoucherOrderFails, ReleaseUserLockFails, Acknowledge,
     AcknowledgeFails, Take, Catch, MoveTo, Throw, NextRound, IdleWorker, WorkerState
<1>5. CASE Crash(w) \/ Restart(w)
  BY <1>1, <1>5 DEF Crash, Restart, DownWorker, IdleWorker
<1> QED BY <1>2, <1>3, <1>4, <1>5, OneThreadMoves, NoThreadMoves

\* An entry is only given up to another holder of its user's lock: a thread goes
\* on to acknowledge if the row is there, the voucher was rolled back, or
\* somebody else has the lock.
THEOREM GivesUpRightly == Spec => GivesUpOnlyOnContention
<1> DEFINE Acks ==
             \A w \in Instances :
                 worker[w].pc # "Ack" /\ worker'[w].pc = "Ack" =>
                     LET e == stream[worker[w].at]
                     IN  \/ e \in orders
                         \/ published[e.voucher] = "rolledBack"
                         \/ ~Acquirable(w, e.user)
<1>1. TypeOK /\ HandledInv /\ [Next]_vars => Acks
  <2> SUFFICES ASSUME TypeOK, HandledInv, [Next]_vars, NEW w \in Instances,
                      worker[w].pc # "Ack", worker'[w].pc = "Ack"
               PROVE  LET e == stream[worker[w].at]
                      IN  Handled(e) \/ ~Acquirable(w, e.user)
    BY DEF Handled
  <2> QED BY AckComesFrom DEF HandledInv, UserAt
<1>2. TypeOK /\ HandledInv /\ [Next]_vars => [Acks]_vars
  BY <1>1
<1>3. Init => HandledInv
  BY DEF Init, HandledInv, IdleWorker
<1> HIDE DEF Acks
<1>4. Spec => [][Acks]_vars
  BY <1>2, <1>3, InitSale, InitOrder, StepKeepsSaleInv, StepKeepsOrderInv, StepKeepsHandledInv,
     TypeCorrect, PTL DEF Spec
<1> QED BY <1>4 DEF GivesUpOnlyOnContention, Acks

-----------------------------------------------------------------------------
(* One instance that does not crash: nobody else can have a user's lock,   *)
(* so no entry is given up.                                                *)

SingleInv ==
    /\ \A u \in Users : holder[u] # Orphan
    /\ \A w \in Instances : worker[w].pc = "Ack" => Handled(stream[worker[w].at])
    /\ \A i \in Acked : Handled(stream[i])

LEMMA InitSingle == Init => SingleInv
<1> SUFFICES ASSUME Init PROVE SingleInv
  OBVIOUS
<1>1. Len(stream) = 0 /\ lastDelivered = 0
  BY EmptySeq DEF Init, StreamInit
<1>2. Acked = {}
  BY <1>1 DEF Acked, Positions
<1> QED BY <1>2, LockValues DEF Init, LockInit, SingleInv, IdleWorker

\* An entry becomes acknowledged by the thread that is at it.
LEMMA AckedBy ==
    ASSUME TypeOK, [Next]_vars, NEW i \in Acked'
    PROVE  i \in Acked \/ \E w \in Instances : worker[w].pc = "Ack" /\ worker[w].at = i
<1>1. Len(stream) \in Nat /\ lastDelivered \in 0..Len(stream)
  BY LenProperties DEF TypeOK, StreamType
<1>2. CASE UNCHANGED streamVars
  BY <1>2 DEF streamVars, Acked, Positions
<1>3. ASSUME NEW r \in Requests, request[r].pc = "numbered", Sell(r) PROVE i \in Acked
  <2>1. /\ UNCHANGED groupVars /\ Positions' = Positions \cup {Len(stream) + 1}
    BY <1>3, EntryOfType, XAddEffect DEF Sell, TypeOK, XAdd
  <2> QED BY <1>1, <2>1 DEF Acked, groupVars
<1>4. CASE XReadGroupNew \/ XGroupCreate
  BY <1>1, <1>4 DEF XReadGroupNew, XGroupCreate, Acked, Positions
<1>5. ASSUME NEW w \in Instances, worker[w].pc = "Ack", XAck(worker[w].at)
      PROVE  i \in Acked \/ (worker[w].pc = "Ack" /\ worker[w].at = i)
  BY <1>5 DEF XAck, Acked, Positions
<1>6. \/ UNCHANGED streamVars
      \/ \E r \in Requests : request[r].pc = "numbered" /\ Sell(r)
      \/ XReadGroupNew \/ XGroupCreate
      \/ \E w \in Instances : worker[w].pc = "Ack" /\ XAck(worker[w].at)
  BY DEF Next, vars, Publish, CacheStock, CommitVoucher, RollbackVoucher, NextId, Client,
     RunScript, RunScriptFails, Reject, InitializeTransactionProxy, XGroupCreateByOperator,
     Consume, ReadNew, ReadNewFails, ReadPending, AcquireUserLock, AcquireUserLockFails,
     CreateVoucherOrder, CreateVoucherOrderFails, ReleaseUserLock, ReleaseUserLockFails,
     Acknowledge, AcknowledgeFails, Crash, Restart, LeaseExpires, streamVars
<1> QED BY <1>2, <1>3, <1>4, <1>5, <1>6

LEMMA StepKeepsSingleInv ==
    ASSUME NEW x, Instances = {x}, MaxCrashes = 0
    PROVE  TypeOK /\ SaleInv /\ OrderInv /\ HandledInv /\ SingleInv /\ [Next]_vars => SingleInv'
<1> SUFFICES ASSUME TypeOK, SaleInv, OrderInv, HandledInv, SingleInv, [Next]_vars
             PROVE  SingleInv'
  OBVIOUS
<1>1. \A w \in Instances : ~Crash(w)
  BY DEF Crash, Spend, Limit, TypeOK, SpentType
<1>2. ASSUME NEW u \in Users PROVE holder'[u] # Orphan
  <2>1. holder \in [Users -> Instances \cup {Free, Orphan}] /\ holder[u] # Orphan
    BY DEF TypeOK, LockType, SingleInv
  <2>2. \/ UNCHANGED holder
        \/ \E w \in Instances, z \in Users : holder' = [holder EXCEPT ![z] = w]
        \/ \E z \in Users : holder' = [holder EXCEPT ![z] = Free]
    <3>1. \A w \in Instances : worker[w].pc \notin {"Read", "Down"} => UserAt(worker[w].at) \in Users
      BY EntryAtType DEF TypeOK
    <3> QED
      BY <1>1, <3>1 DEF Next, vars, Publish, CacheStock, CommitVoucher, RollbackVoucher, NextId,
         Client, RunScript, RunScriptFails, InitializeTransactionProxy, XGroupCreateByOperator,
         Consume, ReadNew, ReadNewFails, ReadPending, AcquireUserLock, AcquireUserLockFails,
         CreateVoucherOrder, CreateVoucherOrderFails, ReleaseUserLock, ReleaseUserLockFails,
         Acknowledge, AcknowledgeFails, Restart, LeaseExpires, Acquire, GiveBack, Expire, lockVars
  <2> QED BY <2>1, <2>2, LockValues
<1>3. ASSUME NEW i \in Positions, Handled(stream[i]) PROVE HandledAfter(stream'[i])
  <2> PICK e \in Entry : e = stream[i]
    BY ElementOfSeq DEF TypeOK, StreamType, Positions
  <2> QED BY <1>3, EntryStays, StaysHandled
<1>4. ASSUME NEW w \in Instances, worker'[w].pc = "Ack"
      PROVE  HandledAfter(stream'[worker'[w].at])
  <2>1. /\ worker[w].pc \notin {"Read", "Down"}
        /\ worker'[w].at = worker[w].at
    BY <1>4, AckComesFrom
  <2>2. worker[w].at \in Positions /\ UserAt(worker[w].at) \in Users
    BY <2>1, EntryAtType DEF TypeOK
  <2>3. holder[UserAt(worker[w].at)] \in {Free, w}
    BY <2>2 DEF TypeOK, LockType, SingleInv
  <2>4. Handled(stream[worker[w].at])
    BY <1>4, <2>3, AckComesFrom DEF Acquirable, SingleInv, HandledInv
  <2> QED BY <1>3, <2>1, <2>2, <2>4
<1>5. ASSUME NEW i \in Acked' PROVE HandledAfter(stream'[i])
  <2>1. CASE i \in Acked
    BY <1>3, <2>1 DEF SingleInv, Acked
  <2>2. ASSUME NEW w \in Instances, worker[w].pc = "Ack", worker[w].at = i
        PROVE  HandledAfter(stream'[i])
    BY <1>3, <2>2, EntryAtType DEF SingleInv, TypeOK
  <2> QED BY <2>1, <2>2, AckedBy
<1> QED BY <1>2, <1>4, <1>5 DEF SingleInv, Handled, HandledAfter

\* "Exactly-once: XACK ensures message processed exactly once" holds of a single
\* instance that does not crash: whatever calls fail or get lost, and however
\* leases lapse, an acknowledged entry has its row or a rolled-back voucher.
THEOREM AckedOnOneInstance ==
    ASSUME NEW x, Instances = {x}, MaxCrashes = 0
    PROVE  Spec => []AckedHasOrder
<1>1. Init => HandledInv
  BY DEF Init, HandledInv, IdleWorker
<1>2. SingleInv => AckedHasOrder
  BY DEF SingleInv, Handled, AckedHasOrder
<1> QED
  BY <1>1, <1>2, InitSale, InitOrder, InitSingle, StepKeepsSaleInv, StepKeepsOrderInv,
     StepKeepsHandledInv, StepKeepsSingleInv, TypeCorrect, PTL DEF Spec

-----------------------------------------------------------------------------
(* The pipeline implements the abstract sale.                              *)

SaleStutter == UNCHANGED <<purchased, published, orders>>

LEMMA StutterMaps == SaleStutter => UNCHANGED Sale!saleVars
BY DEF SaleStutter, Sale!saleVars, OrdersOf

LEMMA InitMaps == Init => Sale!Init
BY DEF Init, Sale!Init, OrdersOf

LEMMA PublishMaps ==
    ASSUME TypeOK, NEW v \in Vouchers, Publish(v)
    PROVE  [Sale!Next]_(Sale!saleVars)
<1>1. UNCHANGED <<purchased, orders>>
  BY DEF Publish, CacheStock, CommitVoucher, RollbackVoucher, redisVars
<1>2. [x \in Vouchers |-> {o.user : o \in OrdersOf(x)}]'
      = [x \in Vouchers |-> {o.user : o \in OrdersOf(x)}]
  BY <1>1 DEF OrdersOf
<1>3. CASE CacheStock(v)
  <2>1. Sale!PutOnSale(v)
    BY <1>1, <1>2, <1>3 DEF CacheStock, Sale!PutOnSale, TypeOK, StoreType
  <2> QED BY <2>1 DEF Sale!Next
<1>4. CASE CommitVoucher(v)
  <2>1. Sale!List(v)
    BY <1>1, <1>2, <1>4 DEF CommitVoucher, Sale!List, TypeOK, StoreType
  <2> QED BY <2>1 DEF Sale!Next
<1>5. CASE RollbackVoucher(v)
  <2>1. UNCHANGED Sale!saleVars
    BY <1>1, <1>2, <1>5 DEF RollbackVoucher, Sale!saleVars, TypeOK, StoreType
  <2> QED BY <2>1
<1> QED BY <1>3, <1>4, <1>5 DEF Publish

\* The script sells as the abstract sale accepts: stock left in Redis means
\* fewer buyers than stock.
LEMMA SellMaps ==
    ASSUME TypeOK, RedisLedger, NEW r \in Requests, request[r].pc = "numbered", Sell(r),
           UNCHANGED <<published, orders>>
    PROVE  [Sale!Next]_(Sale!saleVars)
<1> PICK u \in Users, v \in Vouchers : u = request[r].user /\ v = request[r].voucher
  BY DEF TypeOK, RequestType
<1>1. u \in Users /\ v \in Vouchers
  OBVIOUS
<1>2. Cardinality(purchased[v]) < Stock[v]
  <2>1. IsFiniteSet(purchased[v])
    BY <1>1, FiniteAssumption, FS_Subset DEF TypeOK, StoreType
  <2>2. Cardinality(purchased[v]) \in Nat /\ Stock[v] \in Nat
    BY <1>1, <2>1, FS_CardinalityType, StockAssumption
  <2>3. redisStock[v] \in Int /\ redisStock[v] > 0
    BY <1>1 DEF Sell, SoldOut, TypeOK, StoreType
  <2>4. redisStock[v] + Cardinality(purchased[v]) = Stock[v]
    BY <1>1 DEF Sell, ScriptRaises, RedisLedger
  <2> QED BY <2>2, <2>3, <2>4
<1>3. [x \in Vouchers |-> {o.user : o \in OrdersOf(x)'}]
      = [x \in Vouchers |-> {o.user : o \in OrdersOf(x)}]
  BY DEF OrdersOf
<1>4. /\ published[v] # "absent" /\ u \notin purchased[v]
      /\ purchased' = [purchased EXCEPT ![v] = @ \cup {u}]
  BY DEF Sell, ScriptRaises, AlreadyBought
\* Sale!Cardinality is the copy of Cardinality that comes with the instance.
<1>5. Sale!Accept(u, v)
  <2>1. v \in {x \in Vouchers : published[x] # "absent"}
    BY <1>1, <1>4
  <2>2. /\ {x \in Vouchers : published'[x] # "absent"} = {x \in Vouchers : published[x] # "absent"}
        /\ {x \in Vouchers : published'[x] = "committed"}
           = {x \in Vouchers : published[x] = "committed"}
    OBVIOUS
  <2>3. u \notin purchased[v] /\ Cardinality(purchased[v]) < Stock[v]
    BY <1>2, <1>4
  <2>4. purchased' = [purchased EXCEPT ![v] = purchased[v] \cup {u}]
    BY <1>4
  <2> QED BY ONLY <1>3, <2>1, <2>2, <2>3, <2>4 DEF Sale!Accept, Sale!Cardinality, Cardinality
<1> QED BY <1>1, <1>5 DEF Sale!Next

\* A committed order fulfils a purchase for the first time: a row for the same
\* user and voucher would be this very entry, and its key would be taken.
LEMMA CommitMaps ==
    ASSUME TypeOK, OrderInv, SaleInv, NEW e \in Entry, NEW i \in Positions, stream[i] = e,
           CommitOrder(e), UNCHANGED <<purchased, published>>
    PROVE  [Sale!Next]_(Sale!saleVars)
<1> DEFINE u == e.user
           v == e.voucher
<1>1. u \in Users /\ v \in Vouchers
  BY DEF Entry
<1>2. /\ e \notin orders
      /\ published[v] = "committed"
      /\ OrdersOf(v)' = OrdersOf(v) \cup {e}
      /\ \A x \in Vouchers \ {v} : OrdersOf(x)' = OrdersOf(x)
  BY CommitRows
<1>3. u \in purchased[v]
  BY <1>1 DEF SaleInv, StreamMatchesPurchases, EntriesOf
<1>4. u \notin {o.user : o \in OrdersOf(v)}
  <2>1. 1..lastDelivered \subseteq Positions
    <3>1. Len(stream) \in Nat /\ lastDelivered \in 0..Len(stream)
      BY LenProperties DEF TypeOK, StreamType
    <3> QED BY <3>1 DEF Positions
  <2>2. ASSUME NEW o \in OrdersOf(v), o.user = u PROVE FALSE
    <3>1. PICK j \in 1..lastDelivered : stream[j] = o
      BY DEF OrdersOf, OrderInv, OrdersWereDelivered
    <3>2. j = i
      BY <2>1, <2>2, <3>1 DEF OrdersOf, SaleInv, StreamMatchesPurchases
    <3> QED BY <1>2, <3>1, <3>2 DEF OrdersOf
  <2> QED BY <2>2
<1>5. [x \in Vouchers |-> {o.user : o \in OrdersOf(x)'}]
      = [[x \in Vouchers |-> {o.user : o \in OrdersOf(x)}]
            EXCEPT ![v] = @ \cup {u}]
  <2>1. {o.user : o \in OrdersOf(v)'} = {o.user : o \in OrdersOf(v)} \cup {u}
    BY <1>2
  <2>2. \A x \in Vouchers \ {v} : {o.user : o \in OrdersOf(x)'} = {o.user : o \in OrdersOf(x)}
    BY <1>2
  <2> QED BY <1>1, <2>1, <2>2
<1>6. Sale!Fulfil(u, v)
  BY <1>1, <1>2, <1>3, <1>4, <1>5 DEF Sale!Fulfil
<1> QED BY <1>1, <1>6 DEF Sale!Next

LEMMA OtherMaps ==
    ASSUME TypeOK, SaleInv, OrderInv, [Next]_vars,
           \A v \in Vouchers : ~Publish(v),
           \A w \in Instances : ~CreateVoucherOrder(w) /\ ~CreateVoucherOrderFails(w)
    PROVE  [Sale!Next]_(Sale!saleVars)
<1>1. UNCHANGED <<orders, published>>
  BY OtherOrder
<1>2. \/ \E r \in Requests : request[r].pc = "numbered" /\ Sell(r)
      \/ UNCHANGED purchased
  BY DEF Next, vars, Client, NextId, RunScript, Reject, RunScriptFails,
     InitializeTransactionProxy, XGroupCreateByOperator, Consume, ReadNew, ReadNewFails,
     ReadPending, AcquireUserLock, AcquireUserLockFails, ReleaseUserLock,
     ReleaseUserLockFails, Acknowledge, AcknowledgeFails, Crash, Restart, LeaseExpires,
     redisVars
<1> QED BY <1>1, <1>2, SellMaps, StutterMaps DEF SaleInv, SaleStutter

\* The whole pipeline, with its redeliveries, crashes and half-failed calls,
\* implements a flash sale that accepts while stock lasts and fulfils once.
THEOREM Implementation == Spec => ImplementsFlashSale
<1>1. TypeOK /\ SaleInv /\ OrderInv /\ [Next]_vars => [Sale!Next]_(Sale!saleVars)
  <2> SUFFICES ASSUME TypeOK, SaleInv, OrderInv, [Next]_vars
               PROVE  [Sale!Next]_(Sale!saleVars)
    OBVIOUS
  <2>1. ASSUME NEW w \in Instances, CreateVoucherOrder(w) \/ CreateVoucherOrderFails(w)
        PROVE  [Sale!Next]_(Sale!saleVars)
    <3>1. CASE CommitOrder(stream[worker[w].at])
      <4> PICK e \in Entry : e = stream[worker[w].at]
        BY <2>1, CreateEffect
      <4>1. worker[w].at \in Positions /\ CommitOrder(e) /\ UNCHANGED <<purchased, published>>
        BY <2>1, <3>1, CreateEffect
      <4> QED BY <4>1, CommitMaps
    <3>2. CASE UNCHANGED <<orders, dbStock>>
      BY <2>1, <3>2, CreateEffect, StutterMaps DEF SaleStutter
    <3> QED BY <2>1, <3>1, <3>2, CreateEffect
  <2> QED BY <2>1, PublishMaps, OtherMaps
<1> QED
  BY <1>1, InitMaps, InitSale, InitOrder, StepKeepsSaleInv, StepKeepsOrderInv, TypeCorrect, PTL
     DEF Spec, ImplementsFlashSale, Sale!Spec
=============================================================================
