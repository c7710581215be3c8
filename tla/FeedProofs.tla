------------------------------ MODULE FeedProofs ------------------------------
(***************************************************************************)
(* Follows and posts for any number of fans, authors, threads, requests    *)
(* and failures: the table and the Redis set agree on every undisturbed    *)
(* pair at rest, and every loyal follower gets the posts published while   *)
(* others follow and unfollow.                                             *)
(***************************************************************************)
EXTENDS Feed, TLAPS

-----------------------------------------------------------------------------
(* The table and the Redis sets.                                           *)


\* A request that counts as alone is the only one of its pair.
AloneIsAlone ==
    \A w \in alone : pair[w] # NoPair /\ \A v \in Workers : pair[v] = pair[w] => v = w

\* The request of an undisturbed pair is alone.
UndisturbedIsAlone ==
    \A w \in Workers : pair[w] # NoPair /\ pair[w] \notin disturbed => w \in alone

\* What a request that is alone has written to the table is still there.
RowsAsWritten ==
    \A w \in alone : /\ step[w] = "add" => rows[pair[w]] > 0
                     /\ step[w] = "srem" => rows[pair[w]] = 0

\* The stores agree on an undisturbed pair until a request has written one of them.
AgreeUntilWritten ==
    \A p \in Pairs \ disturbed :
        (\A w \in On(p) : step[w] \in {"save", "remove"}) => (rows[p] > 0 <=> p \in followed)

FollowInv ==
    /\ FollowType
    /\ AloneIsAlone
    /\ UndisturbedIsAlone
    /\ RowsAsWritten
    /\ AgreeUntilWritten

LEMMA FollowInitInv == FollowInit => FollowInv
  BY FollowConstants DEF FollowInit, FollowInv, FollowType, AloneIsAlone, UndisturbedIsAlone,
     RowsAsWritten, AgreeUntilWritten, Pairs, On

\* A request arrives.
LEMMA FollowArrives ==
  ASSUME FollowInv, NEW w \in Workers, NEW p \in Pairs, NEW isFollow \in BOOLEAN,
         Follow(w, p, isFollow)
  PROVE  FollowInv'
<1> USE FollowConstants DEF FollowInv, Follow, On
<1>0. p # NoPair
  BY DEF Pairs
<1>1. FollowType'
  BY <1>0 DEF FollowType
<1>2. AloneIsAlone'
  BY <1>0 DEF FollowType, AloneIsAlone
<1>3. UndisturbedIsAlone'
  BY <1>0 DEF FollowType, AloneIsAlone, UndisturbedIsAlone
<1>4. RowsAsWritten'
  BY <1>0 DEF FollowType, RowsAsWritten
<1>5. AgreeUntilWritten'
  <2> SUFFICES ASSUME NEW q \in Pairs, q \notin disturbed',
                      \A v \in On(q)' : step'[v] \in {"save", "remove"}
               PROVE  rows'[q] > 0 <=> q \in followed'
    BY DEF AgreeUntilWritten
  <2>1. \A v \in On(q) : step[v] \in {"save", "remove"}
    <3>1. CASE q = p
      BY <3>1 DEF FollowType
    <3>2. CASE q # p
      BY <1>0, <3>2 DEF FollowType, Pairs
    <3>3. QED
      BY <3>1, <3>2
  <2>2. q \notin disturbed
    OBVIOUS
  <2>3. QED
    BY <2>1, <2>2 DEF AgreeUntilWritten
<1>6. QED
  BY <1>1, <1>2, <1>3, <1>4, <1>5

\* The table is written.
LEMMA TableWritten ==
  ASSUME FollowInv, NEW w \in Workers, SaveRow(w) \/ RemoveRows(w)
  PROVE  FollowInv'
<1> USE FollowConstants DEF FollowInv, SaveRow, RemoveRows, InsertRow, DeleteRows, On
<1>0. pair[w] \in Pairs
  BY DEF FollowType
<1>1. FollowType'
  BY <1>0 DEF FollowType
<1>2. AloneIsAlone'
  BY DEF FollowType, AloneIsAlone
<1>3. UndisturbedIsAlone'
  BY DEF FollowType, UndisturbedIsAlone
<1>4. RowsAsWritten'
  BY <1>0 DEF FollowType, RowsAsWritten, AloneIsAlone
<1>5. AgreeUntilWritten'
  BY <1>0 DEF FollowType, AgreeUntilWritten
<1>6. QED
  BY <1>1, <1>2, <1>3, <1>4, <1>5

\* Nothing was deleted, and the request ends.
LEMMA NothingRemoved ==
  ASSUME FollowInv, NEW w \in Workers, RemoveNothing(w)
  PROVE  FollowInv'
<1> USE FollowConstants DEF FollowInv, RemoveNothing, End, On
<1>1. FollowType'
  BY DEF FollowType
<1>2. AloneIsAlone'
  BY DEF FollowType, AloneIsAlone
<1>3. UndisturbedIsAlone'
  BY DEF FollowType, UndisturbedIsAlone
<1>4. RowsAsWritten'
  BY DEF FollowType, RowsAsWritten
<1>5. AgreeUntilWritten'
  BY DEF FollowType, AgreeUntilWritten
<1>6. QED
  BY <1>1, <1>2, <1>3, <1>4, <1>5

\* The set is written, and the request ends.
LEMMA SetWritten ==
  ASSUME FollowInv, NEW w \in Workers, UpdateSet(w)
  PROVE  FollowInv'
<1> USE FollowConstants DEF FollowInv, UpdateSet, WriteSet, End, On
<1>0. pair[w] \in Pairs
  BY DEF FollowType
<1>1. FollowType'
  BY <1>0 DEF FollowType
<1>2. AloneIsAlone'
  BY DEF FollowType, AloneIsAlone
<1>3. UndisturbedIsAlone'
  BY DEF FollowType, AloneIsAlone, UndisturbedIsAlone
<1>4. RowsAsWritten'
  BY DEF FollowType, RowsAsWritten
<1>5. AgreeUntilWritten'
  <2> SUFFICES ASSUME NEW p \in Pairs, p \notin disturbed',
                      \A v \in On(p)' : step'[v] \in {"save", "remove"}
               PROVE  rows'[p] > 0 <=> p \in followed'
    BY DEF AgreeUntilWritten
  <2>1. CASE p = pair[w]
    BY <1>0, <2>1 DEF FollowType, RowsAsWritten, UndisturbedIsAlone
  <2>2. CASE p # pair[w]
    BY <1>0, <2>2 DEF FollowType, AgreeUntilWritten
  <2>3. QED
    BY <2>1, <2>2
<1>6. QED
  BY <1>1, <1>2, <1>3, <1>4, <1>5

\* A request fails.
LEMMA RequestFailed ==
  ASSUME FollowInv, NEW w \in Workers, FollowFails(w)
  PROVE  FollowInv'
<1> USE FollowConstants DEF FollowInv, FollowFails, InsertRow, DeleteRows, WriteSet, End, On
<1>0. pair[w] \in Pairs
  BY DEF FollowType
<1>1. FollowType'
  BY <1>0 DEF FollowType
<1>2. AloneIsAlone'
  BY DEF FollowType, AloneIsAlone
<1>3. UndisturbedIsAlone'
  BY DEF FollowType, UndisturbedIsAlone
<1>4. RowsAsWritten'
  BY <1>0 DEF FollowType, RowsAsWritten, AloneIsAlone
<1>5. AgreeUntilWritten'
  BY <1>0 DEF FollowType, AgreeUntilWritten
<1>6. QED
  BY <1>1, <1>2, <1>3, <1>4, <1>5

LEMMA FollowStepInv == FollowInv /\ [FollowNext]_followVars => FollowInv'
<1> SUFFICES ASSUME FollowInv, [FollowNext]_followVars PROVE FollowInv'
  OBVIOUS
<1>1. CASE FollowNext
  BY <1>1, FollowArrives, TableWritten, NothingRemoved, SetWritten, RequestFailed DEF FollowNext
<1>2. CASE UNCHANGED followVars
  BY <1>2 DEF followVars, FollowInv, FollowType, AloneIsAlone, UndisturbedIsAlone,
     RowsAsWritten, AgreeUntilWritten, On
<1>3. QED
  BY <1>1, <1>2

\* FollowServiceImpl.follow: tb_follow and follows:<user> agree on every pair that
\* no overlap or failure has parted; one undisturbed request joins them again.
THEOREM FollowsAgree == FollowSpec => [](FollowType /\ TableAgreesWithSet)
<1>1. FollowInv => TableAgreesWithSet
  BY DEF FollowInv, TableAgreesWithSet, AgreeUntilWritten
<1>2. FollowInv => FollowType
  BY DEF FollowInv
<1>3. QED
  BY <1>1, <1>2, FollowInitInv, FollowStepInv, PTL DEF FollowSpec

-----------------------------------------------------------------------------
(* The publication of posts.                                               *)


\* Loyal fans of a post follow its author.
LoyalFollow == \A b \in Posted : \A f \in loyal[b] : rows[<<f, author[b]>>] > 0

\* A thread that is not idle publishes a post; each loyal fan of the post has it or
\* is still to get it, and a time that is about to be written has been read.
OnItsWay(w) ==
    LET p == push[w] IN
    /\ IF p.pc = "idle" THEN p.post = 0 ELSE p.post \in Posted
    /\ p.pc = "zadd" => p.time > 0
    /\ p.pc \in {"stamp", "zadd"} => \A f \in loyal[p.post] : p.left[f] > 0 \/ inbox[f][p.post] > 0

FeedInv ==
    /\ FollowInv
    /\ FeedType
    /\ LoyalFollow
    /\ \A w \in Publishers : OnItsWay(w)
    /\ PublishedReachesFollowers

\* The posts are the numbers up to the length of the sequence.
LEMMA PostsSaved ==
  ASSUME FeedType
  PROVE  /\ Len(author) \in Nat /\ Posted = 1..Len(author) /\ Posted \subseteq Posts
         /\ \A b \in Posted : author[b] \in Authors /\ loyal[b] \in SUBSET Fans
         /\ \A w \in Publishers : push[w] \in Push
<1>1. author \in Seq(Authors) /\ loyal \in Seq(SUBSET Fans) /\ Len(loyal) = Len(author)
  BY DEF FeedType
<1>2. Len(author) \in Nat /\ Posted = 1..Len(author)
  BY <1>1 DEF Posted
<1>3. Posted \subseteq Posts
  BY <1>2, FeedConstants DEF FeedType, Posts
<1>4. \A b \in Posted : author[b] \in Authors /\ loyal[b] \in SUBSET Fans
  BY <1>1, <1>2
<1>5. QED
  BY <1>2, <1>3, <1>4 DEF FeedType

LEMMA NoPushIsPush == NoPush \in Push
  BY FeedConstants, FollowConstants DEF NoPush, NoFans, At, Push

LEMMA FeedInitInv == FollowInit /\ FeedInit => FeedInv
<1> SUFFICES ASSUME FollowInit, FeedInit PROVE FeedInv
  OBVIOUS
<1>1. FollowInv
  BY FollowInitInv
<1>2. Posted = {} /\ author = <<>> /\ loyal = <<>> /\ broken = {}
  BY DEF FeedInit, Posted
<1>3. FeedType
  <2>1. pushFaults \in 0..MaxPushFaults
    BY FeedConstants DEF FeedInit
  <2>2. author \in Seq(Authors) /\ Len(author) <= MaxPosts
    BY <1>2, FeedConstants
  <2>3. loyal \in Seq(SUBSET Fans) /\ Len(loyal) = Len(author)
    BY <1>2
  <2>4. inbox \in [Fans -> [Posts -> 0..MaxTime]]
    BY FeedConstants DEF FeedInit
  <2>5. push \in [Publishers -> Push]
    BY NoPushIsPush DEF FeedInit
  <2>6. QED
    BY <1>2, <2>1, <2>2, <2>3, <2>4, <2>5 DEF FeedType
<1>4. \A w \in Publishers : OnItsWay(w)
  BY DEF FeedInit, OnItsWay, NoPush, At
<1>5. LoyalFollow /\ PublishedReachesFollowers
  BY <1>2 DEF LoyalFollow, PublishedReachesFollowers
<1>6. QED
  BY <1>1, <1>3, <1>4, <1>5 DEF FeedInv

\* A step of the feed leaves the follows alone.
LEMMA FollowsKept ==
  ASSUME FollowInv, UNCHANGED followVars
  PROVE  FollowInv' /\ rows' = rows
  BY FollowStepInv DEF followVars

LEMMA PostSaved ==
  ASSUME FeedInv, NEW w \in Publishers, NEW a \in Authors, SavePost(w, a), UNCHANGED followVars
  PROVE  FeedInv'
<1> DEFINE n == Len(author)
<1>0. /\ FollowInv' /\ rows' = rows
      /\ FeedType /\ LoyalFollow /\ PublishedReachesFollowers /\ \A v \in Publishers : OnItsWay(v)
  BY FollowsKept DEF FeedInv
<1>1. /\ push[w].pc = "idle" /\ n < MaxPosts
      /\ author' = Append(author, a) /\ loyal' = Append(loyal, FollowersOf(a))
      /\ push' = [push EXCEPT ![w] = At("list", n + 1, NoFans, 0)]
      /\ UNCHANGED <<inbox, broken, pushFaults>>
  BY DEF SavePost
<1>2. /\ n \in Nat /\ Posted = 1..n /\ n + 1 \in 1..MaxPosts
      /\ author \in Seq(Authors) /\ loyal \in Seq(SUBSET Fans) /\ Len(loyal) = n
      /\ \A b \in 1..n : loyal[b] \in SUBSET Fans
  BY <1>0, <1>1, PostsSaved, FeedConstants DEF FeedType
<1>3. FollowersOf(a) \in SUBSET Fans
  BY DEF FollowersOf
<1>4. /\ author' \in Seq(Authors) /\ Len(author') = n + 1 /\ DOMAIN author' = 1..(n + 1)
      /\ author'[n + 1] = a /\ \A b \in 1..n : author'[b] = author[b]
  BY <1>1, <1>2
<1>5. /\ loyal' \in Seq(SUBSET Fans) /\ Len(loyal') = n + 1
      /\ loyal'[n + 1] = FollowersOf(a) /\ \A b \in 1..n : loyal'[b] = loyal[b]
  BY <1>1, <1>2, <1>3
<1>6. /\ push' \in [Publishers -> Push]
      /\ push'[w].pc = "list" /\ push'[w].post = n + 1
      /\ \A v \in Publishers \ {w} : push'[v] = push[v]
  <2> DEFINE q == At("list", n + 1, NoFans, 0)
  <2>1. n + 1 \in 0..MaxPosts /\ 0 \in 0..MaxTime
    BY <1>2, FeedConstants
  <2>2. NoFans \in [Fans -> 0..MaxRows]
    BY FollowConstants DEF NoFans
  <2>3. q \in Push /\ q.pc = "list" /\ q.post = n + 1
    BY <2>1, <2>2 DEF Push, At
  <2>4. push' = [push EXCEPT ![w] = q] /\ push \in [Publishers -> Push]
    BY <1>0, <1>1 DEF FeedType
  <2> HIDE DEF q
  <2>5. QED
    BY <2>3, <2>4
<1>7. Posted' = 1..(n + 1) /\ 1..n \subseteq 1..(n + 1)
  BY <1>2, <1>4 DEF Posted
<1>8. FeedType'
  BY <1>0, <1>1, <1>2, <1>4, <1>5, <1>6, <1>7 DEF FeedType
<1>9. LoyalFollow'
  <2>1. ASSUME NEW b \in 1..(n + 1), NEW f \in loyal'[b] PROVE rows[<<f, author'[b]>>] > 0
    <3>1. CASE b = n + 1
      BY <1>4, <1>5, <2>1, <3>1 DEF FollowersOf
    <3>2. CASE b # n + 1
      <4>1. b \in 1..n /\ author'[b] = author[b] /\ f \in loyal[b]
        BY <1>2, <1>4, <1>5, <2>1, <3>2
      <4>2. QED
        BY <1>0, <1>2, <4>1 DEF LoyalFollow
    <3>3. QED
      BY <3>1, <3>2
  <2>2. QED
    BY <1>0, <1>7, <2>1 DEF LoyalFollow
<1>10. \A v \in Publishers : OnItsWay(v)'
  <2> SUFFICES ASSUME NEW v \in Publishers PROVE OnItsWay(v)'
    OBVIOUS
  <2>1. CASE v = w
    BY <1>6, <1>7, <1>2, <2>1 DEF OnItsWay
  <2>2. CASE v # w
    BY <1>0, <1>1, <1>2, <1>5, <1>6, <1>7, <2>2 DEF OnItsWay
  <2>3. QED
    BY <2>1, <2>2
<1>11. PublishedReachesFollowers'
  <2> SUFFICES ASSUME NEW b \in 1..(n + 1), b \notin broken,
                      \A v \in Publishers : push'[v].post # b
               PROVE  \A f \in loyal'[b] : inbox[f][b] > 0
    BY <1>1, <1>7 DEF PublishedReachesFollowers
  <2>1. b \in 1..n /\ loyal'[b] = loyal[b]
    BY <1>2, <1>5, <1>6
  <2>2. \A v \in Publishers : push[v].post # b
    <3>1. push[w].post # b
      BY <1>0, <1>1, <2>1 DEF OnItsWay
    <3>2. QED
      BY <1>6, <3>1
  <2>3. QED
    BY <1>0, <1>2, <2>1, <2>2 DEF PublishedReachesFollowers
<1>12. QED
  BY <1>0, <1>8, <1>9, <1>10, <1>11 DEF FeedInv

\* A thread moves on: nothing leaves the inboxes, and when it gives up a post that
\* has not failed, the loyal fans have it.
LEMMA ThreadMoved ==
  ASSUME FeedInv, NEW w \in Publishers, NEW q \in Push, push' = [push EXCEPT ![w] = q],
         UNCHANGED followVars, UNCHANGED <<author, loyal>>,
         inbox' \in [Fans -> [Posts -> 0..MaxTime]],
         \A f \in Fans, b \in Posts : inbox[f][b] > 0 => inbox'[f][b] > 0,
         broken \subseteq broken', broken' \subseteq Posted,
         pushFaults' \in 0..MaxPushFaults,
         OnItsWay(w)',
         push[w].post \in Posted \ broken' /\ q.post # push[w].post =>
             \A f \in loyal[push[w].post] : inbox'[f][push[w].post] > 0
  PROVE  FeedInv'
<1>0. /\ FollowInv' /\ rows' = rows
      /\ FeedType /\ LoyalFollow /\ PublishedReachesFollowers /\ \A v \in Publishers : OnItsWay(v)
  BY FollowsKept DEF FeedInv
<1>1. Posted' = Posted /\ Posted \subseteq Posts /\ \A b \in Posted : loyal[b] \subseteq Fans
  BY <1>0, PostsSaved DEF Posted
<1>2. push'[w] = q /\ \A v \in Publishers \ {w} : push'[v] = push[v]
  BY <1>0 DEF FeedType
<1>3. FeedType'
  BY <1>0, <1>1 DEF FeedType
<1>4. LoyalFollow'
  BY <1>0, <1>1 DEF LoyalFollow
<1>5. ASSUME NEW v \in Publishers PROVE OnItsWay(v)'
  <2>1. CASE v # w
    <3>1. push'[v] = push[v]
      BY <1>2, <2>1
    <3>2. \A b \in Posted, f \in Fans : inbox[f][b] > 0 => inbox'[f][b] > 0
      BY <1>1
    <3>3. OnItsWay(v)
      BY <1>0
    <3>4. QED
      BY <1>1, <3>1, <3>2, <3>3 DEF OnItsWay
  <2>2. QED
    BY <2>1
<1>6. PublishedReachesFollowers'
  <2> SUFFICES ASSUME NEW b \in Posted, b \notin broken',
                      \A v \in Publishers : push'[v].post # b
               PROVE  \A f \in loyal[b] : inbox'[f][b] > 0
    BY <1>1 DEF PublishedReachesFollowers
  <2>1. CASE push[w].post = b
    BY <1>2, <2>1
  <2>2. CASE push[w].post # b
    <3>1. \A v \in Publishers : push[v].post # b
      BY <1>2, <2>2
    <3>2. \A f \in loyal[b] : inbox[f][b] > 0
      BY <1>0, <3>1 DEF PublishedReachesFollowers
    <3>3. QED
      BY <1>1, <3>2
  <2>3. QED
    BY <2>1, <2>2
<1>7. QED
  BY <1>0, <1>3, <1>4, <1>5, <1>6 DEF FeedInv

\* What a busy thread has in hand.
LEMMA BusyThread ==
  ASSUME FeedInv, NEW w \in Publishers, push[w].pc # "idle"
  PROVE  /\ push[w] \in Push /\ push[w].post \in Posted /\ push[w].post \in Posts
         /\ push[w].post \in 0..MaxPosts /\ push[w].left \in [Fans -> 0..MaxRows]
         /\ push[w].time \in 0..MaxTime
         /\ author[push[w].post] \in Authors /\ loyal[push[w].post] \subseteq Fans
         /\ OnItsWay(w)
<1>1. push[w] \in Push /\ OnItsWay(w)
  BY PostsSaved DEF FeedInv
<1>2. push[w].post \in Posted
  BY <1>1 DEF OnItsWay
<1>3. QED
  BY <1>1, <1>2, PostsSaved DEF FeedInv, Push

LEMMA IdlePush ==
  ASSUME NEW w \in Publishers, push'[w] = NoPush
  PROVE  OnItsWay(w)' /\ NoPush.post = 0 /\ NoPush.pc = "idle"
  BY DEF OnItsWay, NoPush, At

LEMMA AtIsPush ==
  ASSUME NEW pc \in {"list", "stamp", "zadd"}, NEW post \in 0..MaxPosts,
         NEW left \in [Fans -> 0..MaxRows], NEW time \in 0..MaxTime
  PROVE  At(pc, post, left, time) \in Push
  BY DEF At, Push

\* The list of fans is empty, or the first of them is next.
LEMMA ListSettled ==
  ASSUME FeedInv, NEW w \in Publishers, push[w].pc # "idle", UNCHANGED followVars,
         NEW left \in [Fans -> 0..MaxRows],
         push' = [push EXCEPT ![w] = Settle(push[w].post, left)],
         UNCHANGED <<author, loyal, broken, pushFaults>>,
         inbox' \in [Fans -> [Posts -> 0..MaxTime]],
         \A f \in Fans, b \in Posts : inbox[f][b] > 0 => inbox'[f][b] > 0,
         \A f \in loyal[push[w].post] : left[f] > 0 \/ inbox'[f][push[w].post] > 0
  PROVE  FeedInv'
<1> DEFINE b == push[w].post
<1>1. /\ FeedType /\ b \in Posted /\ b \in 0..MaxPosts /\ loyal[b] \subseteq Fans
      /\ 0 \in 0..MaxTime
  BY BusyThread, FeedConstants DEF FeedInv
<1>2. broken \subseteq Posted /\ pushFaults \in 0..MaxPushFaults /\ Posted' = Posted
  BY <1>1 DEF FeedType, Posted
<1>3. CASE left = NoFans
  <2>1. push' = [push EXCEPT ![w] = NoPush] /\ push'[w] = NoPush /\ NoPush \in Push
    BY <1>1, <1>3, NoPushIsPush DEF Settle, FeedType
  <2>2. OnItsWay(w)'
    BY <2>1, IdlePush
  <2>3. \A f \in loyal[b] : inbox'[f][b] > 0
    BY <1>1, <1>3 DEF NoFans
  <2>4. QED
    BY <1>1, <1>2, <2>1, <2>2, <2>3, ThreadMoved
<1>4. CASE left # NoFans
  <2> DEFINE q == At("stamp", b, left, 0)
  <2>1. q \in Push /\ q.pc = "stamp" /\ q.post = b /\ q.left = left
    BY <1>1, AtIsPush DEF At
  <2>2. push' = [push EXCEPT ![w] = q] /\ push'[w] = q
    BY <1>1, <1>4 DEF Settle, FeedType
  <2>3. OnItsWay(w)'
    BY <1>1, <1>2, <2>1, <2>2 DEF OnItsWay
  <2> HIDE DEF q
  <2>4. QED
    BY <1>1, <1>2, <2>1, <2>2, <2>3, ThreadMoved
<1>5. QED
  BY <1>3, <1>4

LEMMA FansListed ==
  ASSUME FeedInv, NEW w \in Publishers, ListFans(w), UNCHANGED followVars
  PROVE  FeedInv'
<1> DEFINE b == push[w].post
           left == FansInTable(author[b])
<1>1. push[w].pc = "list" /\ push' = [push EXCEPT ![w] = Settle(b, left)]
      /\ UNCHANGED <<author, inbox, loyal, broken, pushFaults>>
  BY DEF ListFans
<1>2. b \in Posted /\ author[b] \in Authors /\ loyal[b] \subseteq Fans
  BY <1>1, BusyThread
<1>3. left \in [Fans -> 0..MaxRows]
  <2>1. \A f \in Fans : <<f, author[b]>> \in Pairs
    BY <1>2 DEF Pairs
  <2>2. QED
    BY <2>1 DEF FansInTable, FeedInv, FollowInv, FollowType
<1>4. \A f \in loyal[b] : left[f] > 0
  BY <1>2 DEF FansInTable, FeedInv, LoyalFollow
<1>5. inbox' \in [Fans -> [Posts -> 0..MaxTime]]
  BY <1>1 DEF FeedInv, FeedType
<1> HIDE DEF left
<1>6. QED
  BY <1>1, <1>3, <1>4, <1>5, ListSettled

LEMMA TimeRead ==
  ASSUME FeedInv, NEW w \in Publishers, ReadTime(w), UNCHANGED followVars
  PROVE  FeedInv'
<1>0. PICK time \in 1..MaxTime :
        /\ push[w].pc = "stamp"
        /\ push' = [push EXCEPT ![w] = At("zadd", push[w].post, push[w].left, time)]
        /\ UNCHANGED <<author, inbox, loyal, broken, pushFaults>>
  BY DEF ReadTime
<1> DEFINE p == push[w]
           q == At("zadd", p.post, p.left, time)
<1>1. p.pc = "stamp" /\ push' = [push EXCEPT ![w] = q]
      /\ UNCHANGED <<author, inbox, loyal, broken, pushFaults>>
  BY <1>0
<1>2. /\ p.post \in Posted /\ p.post \in 0..MaxPosts /\ p.left \in [Fans -> 0..MaxRows]
      /\ OnItsWay(w) /\ FeedType
  BY <1>1, BusyThread DEF FeedInv
<1>3. time \in 0..MaxTime /\ time > 0
  BY FeedConstants
<1>4. q \in Push /\ q.pc = "zadd" /\ q.post = p.post /\ q.left = p.left /\ q.time = time
  BY <1>2, <1>3, AtIsPush DEF At
<1>5. Posted' = Posted /\ push'[w] = q
  BY <1>1, <1>2 DEF FeedType, Posted
<1>6. OnItsWay(w)'
  BY <1>1, <1>2, <1>3, <1>4, <1>5 DEF OnItsWay
<1>7. /\ inbox' \in [Fans -> [Posts -> 0..MaxTime]] /\ broken' \subseteq Posted
      /\ pushFaults' \in 0..MaxPushFaults
  BY <1>1, <1>2 DEF FeedType
<1> HIDE DEF q
<1>8. QED
  BY <1>1, <1>4, <1>6, <1>7, ThreadMoved

\* One ZADD: the post is in the inbox of the fan, nothing leaves any.
LEMMA Delivered ==
  ASSUME FeedInv, NEW w \in Publishers, push[w].pc = "zadd", NEW f \in Fans, Deliver(w, f)
  PROVE  /\ inbox' \in [Fans -> [Posts -> 0..MaxTime]]
         /\ inbox'[f][push[w].post] > 0
         /\ \A g \in Fans, b \in Posts : inbox[g][b] > 0 => inbox'[g][b] > 0
<1>1. /\ push[w].post \in Posts /\ push[w].time \in 0..MaxTime /\ push[w].time > 0
      /\ inbox \in [Fans -> [Posts -> 0..MaxTime]]
  BY BusyThread DEF OnItsWay, FeedInv, FeedType
<1>2. inbox' = [inbox EXCEPT ![f] = [inbox[f] EXCEPT ![push[w].post] = push[w].time]]
  BY DEF Deliver
<1>3. QED
  BY <1>1, <1>2

LEMMA FanPushed ==
  ASSUME FeedInv, NEW w \in Publishers, PushToFan(w), UNCHANGED followVars
  PROVE  FeedInv'
<1> DEFINE p == push[w]
<1>1. PICK f \in Fans :
        /\ p.pc = "zadd" /\ p.left[f] > 0
        /\ Deliver(w, f)
        /\ push' = [push EXCEPT ![w] = Settle(p.post, [p.left EXCEPT ![f] = @ - 1])]
        /\ UNCHANGED <<author, loyal, broken, pushFaults>>
  BY DEF PushToFan
<1> DEFINE left == [p.left EXCEPT ![f] = @ - 1]
<1>2. /\ p.post \in Posted /\ p.post \in Posts /\ p.left \in [Fans -> 0..MaxRows]
      /\ OnItsWay(w) /\ loyal[p.post] \subseteq Fans
  BY <1>1, BusyThread
<1>3. /\ inbox' \in [Fans -> [Posts -> 0..MaxTime]]
      /\ inbox'[f][p.post] > 0
      /\ \A g \in Fans, b \in Posts : inbox[g][b] > 0 => inbox'[g][b] > 0
  BY <1>1, Delivered
<1>4. left \in [Fans -> 0..MaxRows] /\ \A g \in Fans \ {f} : left[g] = p.left[g]
  BY <1>1, <1>2, FollowConstants
<1>5. \A g \in loyal[p.post] : left[g] > 0 \/ inbox'[g][p.post] > 0
  <2> SUFFICES ASSUME NEW g \in loyal[p.post], g # f
               PROVE  left[g] > 0 \/ inbox'[g][p.post] > 0
    BY <1>3
  <2>1. g \in Fans /\ (p.left[g] > 0 \/ inbox[g][p.post] > 0)
    BY <1>1, <1>2 DEF OnItsWay
  <2>2. QED
    BY <1>2, <1>3, <1>4, <2>1
<1>6. push' = [push EXCEPT ![w] = Settle(p.post, left)] /\ p.pc # "idle"
  BY <1>1
<1> HIDE DEF left
<1>7. QED
  BY <1>1, <1>3, <1>4, <1>5, <1>6, ListSettled

LEMMA PushFailed ==
  ASSUME FeedInv, NEW w \in Publishers, PushFails(w), UNCHANGED followVars
  PROVE  FeedInv'
<1> DEFINE p == push[w]
<1>1. /\ p.pc \in {"list", "zadd"} /\ pushFaults < MaxPushFaults
      /\ UNCHANGED inbox \/ (p.pc = "zadd" /\ \E f \in Fans : Deliver(w, f))
      /\ broken' = broken \cup {p.post}
      /\ push' = [push EXCEPT ![w] = NoPush]
      /\ pushFaults' = pushFaults + 1
      /\ UNCHANGED <<author, loyal>>
  BY DEF PushFails
<1>2. p.post \in Posted /\ FeedType
  BY <1>1, BusyThread DEF FeedInv
<1>3. /\ inbox' \in [Fans -> [Posts -> 0..MaxTime]]
      /\ \A g \in Fans, b \in Posts : inbox[g][b] > 0 => inbox'[g][b] > 0
  <2>1. CASE UNCHANGED inbox
    BY <1>2, <2>1 DEF FeedType
  <2>2. CASE p.pc = "zadd" /\ \E f \in Fans : Deliver(w, f)
    BY <2>2, Delivered
  <2>3. QED
    BY <1>1, <2>1, <2>2
<1>4. broken' \subseteq Posted /\ broken \subseteq broken' /\ p.post \in broken'
  BY <1>1, <1>2 DEF FeedType
<1>5. pushFaults' \in 0..MaxPushFaults
  BY <1>1, <1>2, FeedConstants DEF FeedType
<1>6. NoPush \in Push /\ push'[w] = NoPush
  BY <1>1, <1>2, NoPushIsPush DEF FeedType
<1>7. OnItsWay(w)'
  BY <1>6, IdlePush
<1>8. QED
  BY <1>1, <1>3, <1>4, <1>5, <1>6, <1>7, ThreadMoved

\* Follows change: nobody becomes loyal who was not.
LEMMA FollowsChanged ==
  ASSUME FeedInv, FollowStep
  PROVE  FeedInv'
<1>0. FollowInv' /\ FeedType
  BY FollowStepInv DEF FeedInv, FollowStep
<1>1. /\ loyal' = [b \in Posted |-> {f \in loyal[b] : rows'[<<f, author[b]>>] > 0}]
      /\ UNCHANGED <<author, inbox, push, broken, pushFaults>>
  BY DEF FollowStep
<1>2. /\ Len(author) \in Nat /\ Posted = 1..Len(author) /\ Posted' = Posted
      /\ \A b \in Posted : loyal[b] \in SUBSET Fans
  BY <1>0, <1>1, PostsSaved DEF Posted
<1>3. \A b \in Posted : loyal'[b] \subseteq loyal[b] /\ loyal'[b] \in SUBSET Fans
  BY <1>1, <1>2
<1>4. loyal' \in Seq(SUBSET Fans) /\ Len(loyal') = Len(author)
  <2>1. DOMAIN loyal' = 1..Len(author)
    BY <1>1, <1>2
  <2>2. loyal' \in [1..Len(author) -> SUBSET Fans]
    BY <1>1, <1>2, <1>3
  <2>3. QED
    BY <1>2, <2>1, <2>2
<1>5. FeedType'
  BY <1>0, <1>1, <1>2, <1>4 DEF FeedType
<1>6. LoyalFollow'
  BY <1>1, <1>2 DEF LoyalFollow
<1>7. \A w \in Publishers : OnItsWay(w)'
  <2> SUFFICES ASSUME NEW w \in Publishers PROVE OnItsWay(w)'
    OBVIOUS
  <2>1. OnItsWay(w) /\ push[w] \in Push
    BY <1>0, PostsSaved DEF FeedInv
  <2>2. QED
    BY <1>1, <1>2, <1>3, <2>1 DEF OnItsWay, Push
<1>8. PublishedReachesFollowers'
  BY <1>1, <1>2, <1>3 DEF FeedInv, PublishedReachesFollowers
<1>9. QED
  BY <1>0, <1>5, <1>6, <1>7, <1>8 DEF FeedInv

LEMMA FeedStepInv == FeedInv /\ [FeedNext]_<<followVars, feedVars>> => FeedInv'
<1> SUFFICES ASSUME FeedInv, [FeedNext]_<<followVars, feedVars>> PROVE FeedInv'
  OBVIOUS
<1>1. CASE PublishStep /\ UNCHANGED followVars
  BY <1>1, PostSaved, FansListed, TimeRead, FanPushed DEF PublishStep
<1>2. CASE (\E w \in Publishers : PushFails(w)) /\ UNCHANGED followVars
  BY <1>2, PushFailed
<1>3. CASE FollowStep
  BY <1>3, FollowsChanged
<1>4. CASE UNCHANGED <<followVars, feedVars>>
  <2>1. FollowInv'
    BY <1>4, FollowsKept DEF FeedInv
  <2>2. QED
    BY <1>4, <2>1 DEF followVars, feedVars, FeedInv, FeedType, LoyalFollow, OnItsWay,
       PublishedReachesFollowers, Posted
<1>5. QED
  BY <1>1, <1>2, <1>3, <1>4 DEF FeedNext

\* BlogServiceImpl.saveBlog: a post published without a failure is in the inbox of
\* everybody who followed its author when it was saved and has not stopped since,
\* whatever happens to the follows while it is pushed.
THEOREM LoyalFansGetPosts == FeedSpec => [](FeedType /\ PublishedReachesFollowers)
<1>1. FeedInv => FeedType /\ PublishedReachesFollowers
  BY DEF FeedInv
<1>2. QED
  BY <1>1, FeedInitInv, FeedStepInv, PTL DEF FeedSpec
=============================================================================
