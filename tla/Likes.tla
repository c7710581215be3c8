------------------------------- MODULE Likes -------------------------------
(***************************************************************************)
(* BlogServiceImpl.likeBlog on one blog: ZSCORE tells whether the user has *)
(* liked it, an UPDATE moves the counter of the row, which is unsigned,    *)
(* and ZADD or ZREM moves the user in or out of blog:liked:<id>.  Nothing  *)
(* holds the three together; the like button sends one request per click.  *)
(***************************************************************************)
EXTENDS Integers, FiniteSets

CONSTANTS
    Users,
    Servers,      \* request threads
    MaxClicks,    \* bound on the requests
    MaxFaults     \* bound on failing calls

ASSUME LikeConstants == IsFiniteSet(Users) /\ MaxClicks \in Nat /\ MaxFaults \in Nat

VARIABLES
    liked,     \* tb_blog.liked
    likers,    \* blog:liked:<id>
    like,      \* like[w]: the request on that thread
    net,       \* net[u]: increments less decrements committed for u (history)
    unlucky,   \* users with a request that overlapped another of theirs, or failed (history)
    clicks, likeFaults

likeVars == <<liked, likers, like, net, unlucky, clicks, likeFaults>>

NoLike == [pc |-> "idle", user |-> "none"]

Liking(u) == {w \in Servers : like[w].pc # "idle" /\ like[w].user = u}

LikeInit ==
    /\ liked = 0
    /\ likers = {}
    /\ like = [w \in Servers |-> NoLike]
    /\ net = [u \in Users |-> 0]
    /\ unlucky = {}
    /\ clicks = 0
    /\ likeFaults = 0

Click(w, u) ==
    /\ like[w].pc = "idle" /\ clicks < MaxClicks
    /\ like' = [like EXCEPT ![w] = [pc |-> "score", user |-> u]]
    /\ unlucky' = IF Liking(u) = {} THEN unlucky ELSE unlucky \cup {u}
    /\ clicks' = clicks + 1
    /\ UNCHANGED <<liked, likers, net, likeFaults>>

\* ZSCORE
ReadScore(w) ==
    /\ like[w].pc = "score"
    /\ like' = [like EXCEPT ![w].pc = IF like[w].user \in likers THEN "minus" ELSE "plus"]
    /\ UNCHANGED <<liked, likers, net, unlucky, clicks, likeFaults>>

\* UPDATE tb_blog SET liked = liked +- 1
Count(w, step) ==
    /\ liked' = liked + step
    /\ net' = [net EXCEPT ![like[w].user] = @ + step]
    /\ UNCHANGED likers

CountUp(w) ==
    /\ like[w].pc = "plus"
    /\ Count(w, 1)
    /\ like' = [like EXCEPT ![w].pc = "add"]
    /\ UNCHANGED <<unlucky, clicks, likeFaults>>

\* Mutant: the counter may go below zero.
CountDownAnyway(w) ==
    /\ like[w].pc = "minus"
    /\ Count(w, -1)
    /\ like' = [like EXCEPT ![w].pc = "remove"]
    /\ UNCHANGED <<unlucky, clicks, likeFaults>>

CountDown(w) ==
    /\ like[w].pc = "minus" /\ liked > 0
    /\ Count(w, -1)
    /\ like' = [like EXCEPT ![w].pc = "remove"]
    /\ UNCHANGED <<unlucky, clicks, likeFaults>>

\* An unsigned column does not go below zero: the UPDATE fails.
CountDownRefused(w) ==
    /\ like[w].pc = "minus" /\ liked = 0
    /\ like' = [like EXCEPT ![w] = NoLike]
    /\ UNCHANGED <<liked, likers, net, unlucky, clicks, likeFaults>>

\* Mutant: the set is written for a cancelled like as well.
AddAlways(w) == likers' = likers \cup {like[w].user}

\* ZADD, ZREM
Mark(w) == likers' = IF like[w].pc = "add" THEN likers \cup {like[w].user} ELSE likers \ {like[w].user}

MarkUser(w) ==
    /\ like[w].pc \in {"add", "remove"}
    /\ Mark(w)
    /\ like' = [like EXCEPT ![w] = NoLike]
    /\ UNCHANGED <<liked, net, unlucky, clicks, likeFaults>>

\* A call throws, applied or not, and the request ends there.
LikeFails(w) ==
    /\ like[w].pc # "idle" /\ likeFaults < MaxFaults
    /\ \/ UNCHANGED <<liked, likers, net>>
       \/ like[w].pc = "plus" /\ Count(w, 1)
       \/ like[w].pc = "minus" /\ liked > 0 /\ Count(w, -1)
       \/ like[w].pc \in {"add", "remove"} /\ Mark(w) /\ UNCHANGED <<liked, net>>
    /\ like' = [like EXCEPT ![w] = NoLike]
    /\ unlucky' = unlucky \cup {like[w].user}
    /\ likeFaults' = likeFaults + 1
    /\ UNCHANGED clicks

LikeNext == \E w \in Servers :
    \/ \E u \in Users : Click(w, u)
    \/ ReadScore(w)
    \/ CountUp(w)
    \/ CountDown(w)
    \/ CountDownRefused(w)
    \/ MarkUser(w)
    \/ LikeFails(w)

LikeSpec == LikeInit /\ [][LikeNext]_likeVars

-----------------------------------------------------------------------------
LikeType ==
    /\ liked \in Nat
    /\ likers \in SUBSET Users
    /\ like \in [Servers -> [pc : {"idle", "score", "plus", "minus", "add", "remove"},
                             user : Users \cup {"none"}]]
    /\ net \in [Users -> Int]
    /\ unlucky \in SUBSET Users
    /\ clicks \in 0..MaxClicks /\ likeFaults \in 0..MaxFaults

\* The counter of the row contains exactly one for a user in the Redis set and
\* nothing for any other, whatever the requests of the other users do meanwhile,
\* once the user's own requests are over; the exception is a user of whom two
\* requests overlapped, or one failed half way.
CounterAgreesWithSet ==
    \A u \in Users \ unlucky :
        Liking(u) = {} => net[u] = IF u \in likers THEN 1 ELSE 0

\* A like can be taken back: as long as no user was unlucky, nobody in the set
\* meets a counter that is already zero.
LikeCanBeCancelled ==
    unlucky = {} => \A w \in Servers : like[w].pc = "minus" => liked > 0
=============================================================================
