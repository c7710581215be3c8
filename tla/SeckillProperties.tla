------------------------- MODULE SeckillProperties -------------------------
(***************************************************************************)
(* What the flash-sale pipeline must guarantee.                            *)
(***************************************************************************)
EXTENDS SeckillOrder

WorkerState == [pc : {"Down", "Read", "TryLock", "Create", "Unlock", "Ack"},
                loop : {"new", "pending"}, at : Nat, thrown : BOOLEAN]

RequestState == [pc : {"idle", "numbered", "queued", "ok", "soldOut", "duplicate", "error"},
                 user : Users \cup {Nil}, voucher : Vouchers \cup {Nil},
                 jvm : Instances \cup {Nil}, id : Nat]

StreamType ==
    /\ stream \in Seq(Entry)
    /\ groupExists \in BOOLEAN
    /\ lastDelivered \in 0..Len(stream)
    /\ pel \subseteq 1..lastDelivered

LockType ==
    /\ holder \in [Users -> Instances \cup {Free, Orphan}]
    /\ leaked \in SUBSET Users

StoreType ==
    /\ redisStock \in [Vouchers -> Int]
    /\ purchased \in [Vouchers -> SUBSET Users]
    /\ idCounter \in Nat
    /\ published \in [Vouchers -> {"absent", "cached", "committed", "rolledBack"}]
    /\ dbStock \in [Vouchers -> Nat]
    /\ orders \in SUBSET Entry

WorkerType ==
    /\ proxy \in [Instances -> BOOLEAN]
    /\ worker \in [Instances -> WorkerState]
    /\ \A w \in Instances :
          worker[w].pc \notin {"Read", "Down"} => worker[w].at \in 1..lastDelivered

RequestType ==
    /\ request \in [Requests -> RequestState]
    /\ \A r \in Requests :
          request[r].pc # "idle" => /\ request[r].user \in Users
                                    /\ request[r].voucher \in Vouchers
                                    /\ request[r].jvm \in Instances

SpentType == spent \in [DOMAIN Limit -> Nat]

\* The shape of the state; in particular a position being handled, or pending,
\* has been delivered, and no more has been delivered than was added.
TypeOK == StreamType /\ LockType /\ StoreType /\ WorkerType /\ RequestType /\ SpentType

-----------------------------------------------------------------------------
EntriesOf(v) == {i \in Positions : stream[i].voucher = v}
OrdersOf(v) == {o \in orders : o.voucher = v}

\* What Redis holds of a voucher adds up: the units left and the buyers make
\* the stock put on sale, and the stock never goes below zero ("No overselling
\* guaranteed by Lua script atomicity").
RedisLedger ==
    \A v \in Vouchers :
        IF published[v] = "absent"
        THEN purchased[v] = {}
        ELSE redisStock[v] >= 0 /\ redisStock[v] + Cardinality(purchased[v]) = Stock[v]

\* The buyers Redis remembers are exactly those with an entry in the stream, a
\* buyer has one entry per voucher, and no two entries carry the same order id.
StreamMatchesPurchases ==
    /\ \A v \in Vouchers : purchased[v] = {stream[i].user : i \in EntriesOf(v)}
    /\ \A i, j \in Positions :
          /\ stream[i].user = stream[j].user /\ stream[i].voucher = stream[j].voucher => i = j
          /\ stream[i].id = stream[j].id => i = j

\* Order ids come from INCR: none is above the counter, and the id of a request
\* that has yet to run the script is its own.
IdsAreFresh ==
    /\ \A i \in Positions : stream[i].id <= idCounter
    /\ \A r \in Requests :
          request[r].pc = "numbered" =>
              /\ request[r].id <= idCounter
              /\ \A i \in Positions : stream[i].id # request[r].id
              /\ \A s \in Requests \ {r} :
                    request[s].pc = "numbered" => request[s].id # request[r].id

\* MySQL adds up too: the stock left and the rows of tb_voucher_order make the
\* stock the voucher was published with, through redelivery, crashes, failed
\* and half-failed calls, whatever instance handles an entry.
DbLedger ==
    \A v \in Vouchers :
        IF published[v] = "committed"
        THEN dbStock[v] + Cardinality(OrdersOf(v)) = Stock[v]
        ELSE dbStock[v] = 0 /\ OrdersOf(v) = {}

\* No user gets a voucher twice, although tb_voucher_order has no unique index
\* on (user_id, voucher_id) and the consumer checks nothing but the lock.
OneOrderPerUser ==
    \A o, p \in orders : o.user = p.user /\ o.voucher = p.voucher => o = p

\* Every row comes from an entry that the script wrote and the group delivered.
OrdersWereDelivered ==
    \A o \in orders : \E i \in 1..lastDelivered : stream[i] = o

\* MySQL never has less stock than accepted entries still waiting for a row,
\* so deductInventory cannot refuse an order the script accepted.
BacklogCovered ==
    \A v \in Vouchers :
        published[v] = "committed" =>
            dbStock[v] >= Cardinality({i \in EntriesOf(v) : stream[i] \notin orders})

\* The answers stay true: an accepted order is in the stream under the id the
\* client was given; "Insufficient inventory" and "Duplicate orders" are final.
AnswersStayTrue ==
    \A r \in Requests :
        /\ request[r].pc \in {"queued", "ok"} => \E i \in Positions : stream[i] = EntryOf(r)
        /\ request[r].pc = "soldOut" =>
              Cardinality(purchased[request[r].voucher]) = Stock[request[r].voucher]
        /\ request[r].pc = "duplicate" =>
              \E i \in Positions : /\ stream[i].user = request[r].user
                                   /\ stream[i].voucher = request[r].voucher
                                   /\ stream[i].id # request[r].id

\* Until a JVM stalls past a lease, two instances are never inside
\* createVoucherOrder for one user, whatever is redelivered to whom.
LockExclusion ==
    spent["pause"] = 0 =>
        \A w, x \in Instances, u \in Users :
            InSection(w, u) /\ InSection(x, u) => w = x

\* The inventory and the orders move together: a step that changes the stock
\* of a published voucher inserts exactly one row for it and takes one unit,
\* and no row is ever changed or deleted.
StockMovesWithOrder ==
    [][/\ orders \subseteq orders'
       /\ Cardinality(orders' \ orders) <= 1
       /\ \A v \in Vouchers :
            published[v] = "committed" =>
                dbStock'[v] = dbStock[v] - Cardinality(OrdersOf(v)' \ OrdersOf(v))]_vars

\* The consumer goes on to acknowledge an entry only if its row is in the
\* table, its voucher was rolled back, or somebody else holds the user's lock.
GivesUpOnlyOnContention ==
    [][\A w \in Instances :
         worker[w].pc # "Ack" /\ worker'[w].pc = "Ack" =>
             LET e == stream[worker[w].at]
             IN  \/ e \in orders
                 \/ published[e.voucher] = "rolledBack"
                 \/ ~Acquirable(w, e.user)]_vars

-----------------------------------------------------------------------------
\* The buyers of the script are the accepted purchases, the rows of
\* tb_voucher_order the fulfilled ones.
Sale == INSTANCE FlashSale WITH
    onSale <- {v \in Vouchers : published[v] # "absent"},
    listed <- {v \in Vouchers : published[v] = "committed"},
    accepted <- purchased,
    fulfilled <- [v \in Vouchers |-> {o.user : o \in OrdersOf(v)}]

\* The pipeline is a flash sale: whatever fails, is redelivered or crashes,
\* every step sells one unit, fulfils one accepted purchase for the first
\* time, publishes a voucher, or changes nothing a customer can see.
ImplementsFlashSale == Sale!Spec

-----------------------------------------------------------------------------
\* An acknowledged entry has its row ("Exactly-once: XACK ensures message
\* processed exactly once"), or its voucher was rolled back.
AckedHasOrder ==
    \A i \in Acked :
        stream[i] \in orders \/ published[stream[i].voucher] = "rolledBack"

\* An accepted order reaches the database ("Async Reliability: Redis Streams
\* ensure order processing even if service restarts").
Settled(i) ==
    i \in Positions /\ (stream[i] \in orders \/ published[stream[i].voucher] = "rolledBack")

AcceptedIsSettled ==
    \A i \in 1..Cardinality(Requests) : (i \in Positions) ~> Settled(i)

\* A failed XACK is made good: "If ACK fails, message reprocessed on restart".
PendingListDrains == []<>(pel = {})
=============================================================================
