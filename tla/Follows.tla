------------------------------ MODULE Follows ------------------------------
(***************************************************************************)
(* FollowServiceImpl.follow: a row of tb_follow, which has no unique       *)
(* index, and a member of the Redis set follows:<user>, which is what      *)
(* common follows are computed from.  Row first, then set; the set is left *)
(* alone when no row was deleted.                                          *)
(***************************************************************************)
EXTENDS Naturals

CONSTANTS
    Fans, Authors,
    Workers,         \* request threads
    NoPair,          \* a thread without a follow request
    MaxRows,         \* bound on the rows of one pair
    MaxFollows,      \* bound on the requests
    MaxFollowFaults  \* bound on failing calls

ASSUME FollowConstants ==
    NoPair \notin Fans \X Authors /\ MaxRows \in Nat /\ MaxFollows \in Nat /\ MaxFollowFaults \in Nat

VARIABLES
    rows,       \* rows[p]: rows of tb_follow for the pair p = <<fan, author>>
    followed,   \* pairs <<fan, author>> with author in follows:<fan>
    pair,       \* pair[w]: the pair of the request on thread w, or NoPair
    step,       \* step[w]: its next call
    alone,      \* threads whose request overlapped none of the same pair so far (history)
    disturbed,  \* pairs hit by an overlap or a failure and not put right since (history)
    follows, followFaults

followVars == <<rows, followed, pair, step, alone, disturbed, follows, followFaults>>

Pairs == Fans \X Authors

On(p) == {w \in Workers : pair[w] = p}

FollowInit ==
    /\ rows \in [Pairs -> 0..MaxRows]
    /\ followed = {p \in Pairs : rows[p] > 0}
    /\ pair = [w \in Workers |-> NoPair]
    /\ step = [w \in Workers |-> "none"]
    /\ alone = {}
    /\ disturbed = {}
    /\ follows = 0
    /\ followFaults = 0

\* The page sends the opposite of what it shows, which may be out of date: any
\* request can come at any time.
Follow(w, p, isFollow) ==
    /\ pair[w] = NoPair /\ follows < MaxFollows
    /\ pair' = [pair EXCEPT ![w] = p]
    /\ step' = [step EXCEPT ![w] = IF isFollow THEN "save" ELSE "remove"]
    /\ alone' = IF On(p) = {} THEN alone \cup {w} ELSE alone \ On(p)
    /\ disturbed' = IF On(p) = {} THEN disturbed ELSE disturbed \cup {p}
    /\ follows' = follows + 1
    /\ UNCHANGED <<rows, followed, followFaults>>

End(w) ==
    /\ pair' = [pair EXCEPT ![w] = NoPair]
    /\ step' = [step EXCEPT ![w] = "none"]
    /\ alone' = alone \ {w}

InsertRow(p) == rows[p] < MaxRows /\ rows' = [rows EXCEPT ![p] = @ + 1]

SaveRow(w) ==
    /\ step[w] = "save"
    /\ InsertRow(pair[w])
    /\ step' = [step EXCEPT ![w] = "add"]
    /\ UNCHANGED <<followed, pair, alone, disturbed, follows, followFaults>>

\* Mutant: only one row of the pair is deleted.
DeleteOneRow(p) == rows' = [rows EXCEPT ![p] = @ - 1]

\* DELETE ... WHERE user_id = ? AND follow_user_id = ?
DeleteRows(p) == rows' = [rows EXCEPT ![p] = 0]

RemoveRows(w) ==
    /\ step[w] = "remove" /\ rows[pair[w]] > 0
    /\ DeleteRows(pair[w])
    /\ step' = [step EXCEPT ![w] = "srem"]
    /\ UNCHANGED <<followed, pair, alone, disturbed, follows, followFaults>>

RemoveNothing(w) ==
    /\ step[w] = "remove" /\ rows[pair[w]] = 0
    /\ End(w)
    /\ UNCHANGED <<rows, followed, disturbed, follows, followFaults>>

\* SADD, SREM
WriteSet(w) == followed' = IF step[w] = "add" THEN followed \cup {pair[w]} ELSE followed \ {pair[w]}

\* A request that had its pair to itself and wrote both stores puts the pair right.
UpdateSet(w) ==
    /\ step[w] \in {"add", "srem"}
    /\ WriteSet(w)
    /\ disturbed' = IF w \in alone THEN disturbed \ {pair[w]} ELSE disturbed
    /\ End(w)
    /\ UNCHANGED <<rows, follows, followFaults>>

\* A call throws, applied or not, and the request ends there.
FollowFails(w) ==
    /\ step[w] # "none" /\ followFaults < MaxFollowFaults
    /\ \/ UNCHANGED <<rows, followed>>
       \/ step[w] = "save" /\ InsertRow(pair[w]) /\ UNCHANGED followed
       \/ step[w] = "remove" /\ DeleteRows(pair[w]) /\ UNCHANGED followed
       \/ step[w] \in {"add", "srem"} /\ WriteSet(w) /\ UNCHANGED rows
    /\ disturbed' = disturbed \cup {pair[w]}
    /\ End(w)
    /\ followFaults' = followFaults + 1
    /\ UNCHANGED follows

FollowNext ==
    \/ \E w \in Workers, p \in Pairs, isFollow \in BOOLEAN : Follow(w, p, isFollow)
    \/ \E w \in Workers : SaveRow(w)
    \/ \E w \in Workers : RemoveRows(w)
    \/ \E w \in Workers : RemoveNothing(w)
    \/ \E w \in Workers : UpdateSet(w)
    \/ \E w \in Workers : FollowFails(w)

FollowSpec == FollowInit /\ [][FollowNext]_followVars

-----------------------------------------------------------------------------
FollowType ==
    /\ rows \in [Pairs -> 0..MaxRows]
    /\ followed \in SUBSET Pairs
    /\ pair \in [Workers -> Pairs \cup {NoPair}]
    /\ step \in [Workers -> {"none", "save", "add", "remove", "srem"}]
    /\ \A w \in Workers : pair[w] = NoPair <=> step[w] = "none"
    /\ alone \in SUBSET Workers
    /\ disturbed \in SUBSET Pairs
    /\ follows \in 0..MaxFollows /\ followFaults \in 0..MaxFollowFaults

\* The table, which decides whom posts are pushed to and what a page shows, and the
\* Redis set, which decides common follows, agree on a pair at rest.  An overlap or
\* a failure may part them, and one undisturbed request that gets through joins
\* them again, however many rows the pair had by then.
TableAgreesWithSet ==
    \A p \in Pairs \ disturbed : On(p) = {} => (rows[p] > 0 <=> p \in followed)
=============================================================================
