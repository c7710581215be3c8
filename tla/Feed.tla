-------------------------------- MODULE Feed --------------------------------
(***************************************************************************)
(* BlogServiceImpl.saveBlog: the post is saved, the rows of tb_follow are  *)
(* read, and the post is pushed to the inbox (sorted set feed:<fan>) of    *)
(* every fan, one after the other, each with the time of its push.  Fans   *)
(* follow and unfollow meanwhile.  A row is one push, so a fan with two    *)
(* rows gets the post twice, which moves it to the later time.             *)
(***************************************************************************)
EXTENDS Follows, Sequences

CONSTANTS
    Publishers,     \* request threads of saveBlog
    MaxPosts,       \* bound on the posts
    MaxTime,        \* bound on the times
    MaxPushFaults   \* bound on failing calls

ASSUME FeedConstants == MaxPosts \in Nat /\ MaxTime \in Nat \ {0} /\ MaxPushFaults \in Nat

VARIABLES
    author,     \* author[b] of the posts saved so far
    inbox,      \* inbox[f][b]: score of post b in feed:<f>, 0 if it is not there
    push,       \* push[w]: the post on thread w, the pushes left and the time just read
    loyal,      \* loyal[b]: fans who followed when b was saved and have not stopped (history)
    broken,     \* posts whose publication failed half way (history)
    pushFaults

feedVars == <<author, inbox, push, loyal, broken, pushFaults>>

Posts == 1..MaxPosts
NoFans == [f \in Fans |-> 0]

At(pc, post, left, time) == [pc |-> pc, post |-> post, left |-> left, time |-> time]
NoPush == At("idle", 0, NoFans, 0)

FollowersOf(a) == {f \in Fans : rows[<<f, a>>] > 0}

FeedInit ==
    /\ author = <<>>
    /\ inbox = [f \in Fans |-> [b \in Posts |-> 0]]
    /\ push = [w \in Publishers |-> NoPush]
    /\ loyal = <<>>
    /\ broken = {}
    /\ pushFaults = 0

Posted == DOMAIN author

\* save(blog)
SavePost(w, a) ==
    /\ push[w].pc = "idle" /\ Len(author) < MaxPosts
    /\ author' = Append(author, a)
    /\ loyal' = Append(loyal, FollowersOf(a))
    /\ push' = [push EXCEPT ![w] = At("list", Len(author) + 1, NoFans, 0)]
    /\ UNCHANGED <<inbox, broken, pushFaults>>

\* Mutant: the fans are taken from the Redis sets.
FansInRedis(a) == [f \in Fans |-> IF <<f, a>> \in followed THEN 1 ELSE 0]

\* SELECT ... FROM tb_follow WHERE follow_user_id = ?
FansInTable(a) == [f \in Fans |-> rows[<<f, a>>]]

\* The next fan of the list, or the end.
Settle(post, left) == IF left = NoFans THEN NoPush ELSE At("stamp", post, left, 0)

ListFans(w) ==
    /\ push[w].pc = "list"
    /\ push' = [push EXCEPT ![w] = Settle(push[w].post, FansInTable(author[push[w].post]))]
    /\ UNCHANGED <<author, inbox, loyal, broken, pushFaults>>

\* System.currentTimeMillis(), for the next fan of the list: each instance has a
\* clock of its own, which may be behind another's, and be set.
ReadTime(w) == \E time \in 1..MaxTime :
    /\ push[w].pc = "stamp"
    /\ push' = [push EXCEPT ![w] = At("zadd", push[w].post, push[w].left, time)]
    /\ UNCHANGED <<author, inbox, loyal, broken, pushFaults>>

Deliver(w, f) == inbox' = [inbox EXCEPT ![f][push[w].post] = push[w].time]

\* ZADD feed:<fan>; the rows come in any order.
PushToFan(w) == \E f \in Fans :
    /\ push[w].pc = "zadd" /\ push[w].left[f] > 0
    /\ Deliver(w, f)
    /\ push' = [push EXCEPT ![w] = Settle(push[w].post, [push[w].left EXCEPT ![f] = @ - 1])]
    /\ UNCHANGED <<author, loyal, broken, pushFaults>>

\* A call throws, applied or not: the fans that are left never get the post.
PushFails(w) ==
    /\ push[w].pc \in {"list", "zadd"} /\ pushFaults < MaxPushFaults
    /\ \/ UNCHANGED inbox
       \/ push[w].pc = "zadd" /\ \E f \in Fans : push[w].left[f] > 0 /\ Deliver(w, f)
    /\ broken' = broken \cup {push[w].post}
    /\ push' = [push EXCEPT ![w] = NoPush]
    /\ pushFaults' = pushFaults + 1
    /\ UNCHANGED <<author, loyal>>

PublishStep ==
    \/ \E w \in Publishers, a \in Authors : SavePost(w, a)
    \/ \E w \in Publishers : ListFans(w)
    \/ \E w \in Publishers : ReadTime(w)
    \/ \E w \in Publishers : PushToFan(w)

\* Following while posts are published.
FollowStep ==
    /\ FollowNext
    /\ loyal' = [b \in Posted |-> {f \in loyal[b] : rows'[<<f, author[b]>>] > 0}]
    /\ UNCHANGED <<author, inbox, push, broken, pushFaults>>

FeedNext ==
    \/ PublishStep /\ UNCHANGED followVars
    \/ (\E w \in Publishers : PushFails(w)) /\ UNCHANGED followVars
    \/ FollowStep

FeedSpec == FollowInit /\ FeedInit /\ [][FeedNext]_<<followVars, feedVars>>

-----------------------------------------------------------------------------
Push == [pc : {"idle", "list", "stamp", "zadd"}, post : 0..MaxPosts,
         left : [Fans -> 0..MaxRows], time : 0..MaxTime]

FeedType ==
    /\ author \in Seq(Authors) /\ Len(author) <= MaxPosts
    /\ inbox \in [Fans -> [Posts -> 0..MaxTime]]
    /\ push \in [Publishers -> Push]
    /\ loyal \in Seq(SUBSET Fans) /\ Len(loyal) = Len(author)
    /\ broken \in SUBSET Posted
    /\ pushFaults \in 0..MaxPushFaults

\* When a post has been published without a failure, everybody who followed its
\* author when it was saved, and has not stopped since, has it in the inbox:
\* whatever other fans start or stop meanwhile, and whatever an earlier failure has
\* done to the Redis sets.
PublishedReachesFollowers ==
    \A b \in Posted \ broken :
        (\A w \in Publishers : push[w].post # b) => \A f \in loyal[b] : inbox[f][b] > 0
=============================================================================
