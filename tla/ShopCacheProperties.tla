------------------------ MODULE ShopCacheProperties ------------------------
(***************************************************************************)
(* What a shop's cache entry and its rebuild lock must guarantee.          *)
(***************************************************************************)
EXTENDS ShopCache

ReaderState == [pc : {"idle", "done", "failed", "get", "rebuildStale", "rebuildMissing", "lock",
                      "load", "put", "unlock"},
                version : Nat, unlocks : Nat, thrown : BOOLEAN]

EntryType == cache \in [kind : {"none", "live", "expired"}, version : Nat] /\ lock \in BOOLEAN

RowType ==
    /\ last \in Nat
    /\ committed \subseteq 0..last
    /\ row \in committed
    /\ tx \in [pc : {"none", "updated", "deleted"}, version : 0..last]

ReaderType ==
    /\ reader \in [Readers -> ReaderState]
    /\ \A r \in Readers : At(r, "unlock") => reader[r].unlocks > 0

PoolType ==
    /\ queued \in Nat
    /\ worker \in [Workers -> [pc : {"idle", "load", "put", "unlock"}, version : Nat]]

SpentType == spent \in [DOMAIN NoTroubles -> Nat]

\* The shape of the state; a row's version is one of its history, and a thread
\* in a finally block has one left to run.
TypeOK ==
    strategy \in Strategies /\ EntryType /\ RowType /\ ReaderType /\ PoolType /\ SpentType

\* No cache of uncommitted rows: what is cached, and what a reader is answered
\* with, is a version the row has had, although update() touches the cache
\* inside a transaction that may still roll back.  "No such shop" is answered
\* only if the row was missing, except by CacheClient on an empty cache.
OnlyCommittedIsServed ==
    /\ cache.kind # "none" => cache.version \in committed
    /\ \A r \in Readers :
          At(r, "done") => \/ reader[r].version \in committed
                           \/ strategy = ClientLogical /\ reader[r].version = 0

Busy(w) == ~WorkerAt(w, "idle")

AtMostOneRebuild ==
    /\ queued <= 1
    /\ \A w \in Workers : Busy(w) => queued = 0
    /\ \A w, x \in Workers : Busy(w) /\ Busy(x) => w = x

\* While no rebuild outlives the lease, a logically expired or missing entry
\* is rebuilt by one task at a time, through failures and crashes.
OneRebuildWithinLease ==
    strategy \in Logical /\ spent.lapse = 0 => AtMostOneRebuild

\* And then the entry never goes back to an older version, although update()
\* deletes it, and rows are read and written in separate steps.
EntryNeverGoesBack ==
    [][\/ strategy \notin Logical
       \/ spent.lapse # 0
       \/ cache.kind = "none"
       \/ (cache.kind)' = "none"
       \/ (cache.version)' >= cache.version]_vars

\* Every build is eventually consistent ("Cache-aside pattern with TTL, accept
\* eventual consistency"): rows stop changing, and then the entry of a busy
\* shop is the row or missing for good, whoever had it in hand.
Converges == <>[](cache.kind # "none" => cache.version = row)

-----------------------------------------------------------------------------
\* "Logically expired - exactly one reader rebuilds in the background".
ExactlyOneRebuilds == strategy \in Logical => AtMostOneRebuild

\* "Only ONE thread queries DB per cache miss" (the mutex strategy).
OneThreadQueries ==
    strategy = Mutex => \A r, s \in Readers : At(r, "load") /\ At(s, "load") => r = s
=============================================================================
