------------------------------ MODULE LikeProofs ------------------------------
(***************************************************************************)
(* Likes for any number of users, threads, clicks and failures: the        *)
(* counter of the blog contains one for each user in the Redis set.        *)
(***************************************************************************)
EXTENDS Likes, FiniteSetTheorems, TLAPS

Expected(u) == IF u \in likers THEN 1 ELSE 0

\* A lucky user has one request at a time, which is between the calls that move the
\* counter and the set, or has moved neither or both.
Lucky(u) ==
    /\ \A v, w \in Liking(u) : v = w
    /\ Liking(u) = {} => net[u] = Expected(u)
    /\ \A w \in Liking(u) :
          /\ like[w].pc = "score" => net[u] = Expected(u)
          /\ like[w].pc = "plus" => u \notin likers /\ net[u] = 0
          /\ like[w].pc = "minus" => u \in likers /\ net[u] = 1
          /\ like[w].pc = "add" => u \notin likers /\ net[u] = 1
          /\ like[w].pc = "remove" => u \in likers /\ net[u] = 0

Request == [pc : {"idle", "score", "plus", "minus", "add", "remove"}, user : Users \cup {"none"}]

\* The type invariant without the bounds on the counters.
LikeShape ==
    /\ liked \in Nat
    /\ likers \in SUBSET Users
    /\ like \in [Servers -> Request]
    /\ \A w \in Servers : like[w].pc # "idle" => like[w].user \in Users
    /\ net \in [Users -> Int]
    /\ unlucky \in SUBSET Users

LikeInv ==
    /\ LikeShape
    /\ \A u \in Users \ unlucky : Lucky(u)

LEMMA LikeInitInv == LikeInit => LikeInv
  BY DEF LikeInit, LikeInv, LikeShape, Request, Lucky, Expected, Liking, NoLike

\* A step of thread w, on which only its own user's count and membership depend,
\* leaves the other users as they are.
LEMMA OtherUsers ==
  ASSUME LikeInv, NEW w \in Servers, NEW u \in Users, Lucky(u),
         \A v \in Servers \ {w} : like'[v] = like[v],
         w \notin Liking(u), w \notin Liking(u)',
         net'[u] = net[u], u \in likers' <=> u \in likers
  PROVE  Lucky(u)'
<1>1. Liking(u)' = Liking(u)
  BY DEF Liking
<1>2. Expected(u)' = Expected(u)
  BY DEF Expected
<1>3. \A v \in Liking(u) : like'[v] = like[v]
  BY DEF Liking
<1>4. QED
  BY <1>1, <1>2, <1>3 DEF Lucky

LEMMA ClickArrives ==
  ASSUME LikeInv, NEW w \in Servers, NEW u \in Users, Click(w, u)
  PROVE  LikeInv'
<1> USE DEF LikeInv, LikeShape, Click
<1>1. LikeShape'
  BY DEF Request
<1>2. ASSUME NEW x \in Users, x \notin unlucky' PROVE Lucky(x)'
  <2>1. CASE x = u
    <3>1. Liking(u) = {} /\ Liking(u)' = {w}
      BY <1>2, <2>1 DEF Liking, Request
    <3>2. QED
      BY <1>2, <2>1, <3>1 DEF Lucky, Expected, Request
  <2>2. CASE x # u
    BY <1>2, <2>2, OtherUsers DEF Liking, Request
  <2>3. QED
    BY <2>1, <2>2
<1>3. QED
  BY <1>1, <1>2

\* A thread goes on to its next call.
LEMMA LikeProceeds ==
  ASSUME LikeInv, NEW w \in Servers, ReadScore(w) \/ CountUp(w) \/ CountDown(w)
  PROVE  LikeInv'
<1> DEFINE u == like[w].user
<1> USE DEF LikeInv, LikeShape, ReadScore, CountUp, CountDown, Count
<1>0. u \in Users /\ like'[w].user = u /\ like'[w].pc # "idle"
  BY DEF Request
<1>1. LikeShape'
  <2>1. liked' \in Nat
    OBVIOUS
  <2>2. net' \in [Users -> Int]
    BY <1>0
  <2>3. like' \in [Servers -> Request]
    BY DEF Request
  <2>4. QED
    BY <2>1, <2>2, <2>3, <1>0
<1>2. ASSUME NEW x \in Users, x \notin unlucky' PROVE Lucky(x)'
  <2>0. Lucky(x)
    BY <1>2
  <2>1. CASE x = u
    <3>1. Liking(x) = {w} /\ Liking(x)' = {w}
      BY <1>0, <2>0, <2>1 DEF Liking, Lucky
    <3>2. QED
      BY <1>0, <2>0, <2>1, <3>1 DEF Lucky, Expected, Request
  <2>2. CASE x # u
    BY <1>0, <2>0, <2>2, OtherUsers DEF Liking, Request
  <2>3. QED
    BY <2>1, <2>2
<1>3. QED
  BY <1>1, <1>2

\* The last call of a request, or a refused decrement, ends it.
LEMMA LikeEnds ==
  ASSUME LikeInv, NEW w \in Servers, MarkUser(w) \/ CountDownRefused(w)
  PROVE  LikeInv'
<1> DEFINE u == like[w].user
<1> USE DEF LikeInv, LikeShape, MarkUser, CountDownRefused, Mark
<1>0. u \in Users /\ like'[w] = NoLike
  BY DEF Request
<1>1. LikeShape'
  BY <1>0 DEF Request, NoLike
<1>2. ASSUME NEW x \in Users, x \notin unlucky' PROVE Lucky(x)'
  <2>0. Lucky(x)
    BY <1>2
  <2>1. CASE x = u
    <3>1. w \in Liking(x) /\ \A v \in Liking(x) : v = w
      BY <1>0, <2>0, <2>1 DEF Liking, Lucky
    <3>2. Liking(x)' = {}
      <4>1. \A v \in Servers \ {w} : like'[v] = like[v]
        OBVIOUS
      <4>2. QED
        BY <1>0, <3>1, <4>1 DEF Liking, NoLike
    <3>3. net'[x] = Expected(x)'
      <4>1. CASE CountDownRefused(w)
        BY <1>0, <2>0, <2>1, <3>1, <4>1 DEF Lucky, Expected
      <4>2. CASE MarkUser(w)
        BY <1>0, <2>0, <2>1, <3>1, <4>2 DEF Lucky, Expected
      <4>3. QED
        BY <4>1, <4>2
    <3>4. QED
      BY <2>1, <3>2, <3>3 DEF Lucky
  <2>2. CASE x # u
    BY <1>0, <2>0, <2>2, OtherUsers DEF Liking, NoLike
  <2>3. QED
    BY <2>1, <2>2
<1>3. QED
  BY <1>1, <1>2

\* A request that fails leaves its user unlucky, and the others as they are.
LEMMA LikeFailed ==
  ASSUME LikeInv, NEW w \in Servers, LikeFails(w)
  PROVE  LikeInv'
<1> DEFINE u == like[w].user
<1> USE DEF LikeInv, LikeShape, LikeFails, Mark, Count
<1>0. u \in Users /\ like'[w] = NoLike
  BY DEF Request
<1>1. LikeShape'
  <2>1. liked' \in Nat /\ net' \in [Users -> Int]
    BY <1>0
  <2>2. QED
    BY <1>0, <2>1 DEF Request, NoLike
<1>2. ASSUME NEW x \in Users, x \notin unlucky' PROVE Lucky(x)'
  <2>1. x # u /\ Lucky(x)
    BY <1>2
  <2>2. QED
    BY <1>0, <2>1, OtherUsers DEF Liking, NoLike
<1>3. QED
  BY <1>1, <1>2

LEMMA LikeStepInv == LikeInv /\ [LikeNext]_likeVars => LikeInv'
<1> SUFFICES ASSUME LikeInv, [LikeNext]_likeVars PROVE LikeInv'
  OBVIOUS
<1>1. CASE LikeNext
  BY <1>1, ClickArrives, LikeProceeds, LikeEnds, LikeFailed DEF LikeNext
<1>2. CASE UNCHANGED likeVars
  BY <1>2 DEF likeVars, LikeInv, LikeShape, Lucky, Expected, Liking
<1>3. QED
  BY <1>1, <1>2

LikeBounds == clicks \in 0..MaxClicks /\ likeFaults \in 0..MaxFaults

LEMMA LikeBoundsKept ==
  /\ LikeInit => LikeBounds
  /\ LikeBounds /\ [LikeNext]_likeVars => LikeBounds'
  BY LikeConstants DEF LikeBounds, LikeInit, LikeNext, Click, ReadScore, CountUp, CountDown,
     CountDownRefused, MarkUser, LikeFails, likeVars

LEMMA LikeTypeKept == LikeInv /\ LikeBounds => LikeType
  BY DEF LikeInv, LikeShape, LikeBounds, LikeType, Request

-----------------------------------------------------------------------------
(* Why a like can be taken back: while nobody was unlucky, the counter is  *)
(* the number of users whose share of it is one.                           *)

Sharers == {u \in Users : net[u] = 1}

CounterIsSharers == unlucky = {} => liked = Cardinality(Sharers)

\* Somebody with a share of one makes the counter positive.
LEMMA SharerCounts ==
  ASSUME NEW u \in Sharers
  PROVE  Cardinality(Sharers) \in Nat \ {0}
<1>1. IsFiniteSet(Sharers) /\ Sharers # {}
  BY FS_Subset, LikeConstants DEF Sharers
<1>2. QED
  BY <1>1, FS_CardinalityType, FS_EmptySet

\* Counting up gives a user without a share one.
LEMMA CountUpCounts ==
  ASSUME LikeInv, CounterIsSharers, NEW w \in Servers, CountUp(w)
  PROVE  CounterIsSharers'
<1> SUFFICES ASSUME unlucky' = {} PROVE liked' = Cardinality(Sharers')
  BY DEF CounterIsSharers
<1> DEFINE u == like[w].user
<1>1. u \in Users /\ w \in Liking(u) /\ unlucky = {}
  BY DEF LikeInv, LikeShape, CountUp, Liking
<1>2. net[u] = 0
  BY <1>1 DEF LikeInv, Lucky, CountUp
<1>3. Sharers' = Sharers \cup {u} /\ u \notin Sharers
  BY <1>1, <1>2 DEF Sharers, CountUp, Count, LikeInv, LikeShape
<1>4. IsFiniteSet(Sharers)
  BY FS_Subset, LikeConstants DEF Sharers
<1>5. Cardinality(Sharers') = Cardinality(Sharers) + 1
  BY <1>3, <1>4, FS_AddElement
<1>6. QED
  BY <1>1, <1>5 DEF CounterIsSharers, CountUp, Count

\* Counting down takes the share of a user who has one.
LEMMA CountDownCounts ==
  ASSUME LikeInv, CounterIsSharers, NEW w \in Servers, CountDown(w)
  PROVE  CounterIsSharers'
<1> SUFFICES ASSUME unlucky' = {} PROVE liked' = Cardinality(Sharers')
  BY DEF CounterIsSharers
<1> DEFINE u == like[w].user
<1>1. u \in Users /\ w \in Liking(u) /\ unlucky = {}
  BY DEF LikeInv, LikeShape, CountDown, Liking
<1>2. net[u] = 1
  BY <1>1 DEF LikeInv, Lucky, CountDown
<1>3. Sharers' = Sharers \ {u} /\ u \in Sharers
  BY <1>1, <1>2 DEF Sharers, CountDown, Count, LikeInv, LikeShape
<1>4. IsFiniteSet(Sharers) /\ Cardinality(Sharers) \in Nat
  BY FS_Subset, FS_CardinalityType, LikeConstants DEF Sharers
<1>5. Cardinality(Sharers') = Cardinality(Sharers) - 1
  BY <1>3, <1>4, FS_RemoveElement
<1>6. QED
  BY <1>1, <1>4, <1>5 DEF CounterIsSharers, CountDown, Count

\* A failing call makes its user unlucky; every other step leaves the counter alone.
LEMMA LikeStepCounts ==
  ASSUME LikeInv, CounterIsSharers, [LikeNext]_likeVars
  PROVE  CounterIsSharers'
<1>1. ASSUME UNCHANGED <<liked, net>>, unlucky' = {} => unlucky = {} PROVE CounterIsSharers'
  BY <1>1 DEF CounterIsSharers, Sharers
<1>2. ASSUME NEW w \in Servers, NEW u \in Users, Click(w, u) PROVE CounterIsSharers'
  BY <1>1, <1>2 DEF Click
<1>3. ASSUME NEW w \in Servers, ReadScore(w) \/ CountDownRefused(w) \/ MarkUser(w)
      PROVE  CounterIsSharers'
  BY <1>1, <1>3 DEF ReadScore, CountDownRefused, MarkUser
<1>4. ASSUME NEW w \in Servers, LikeFails(w) PROVE CounterIsSharers'
  BY <1>4 DEF LikeFails, CounterIsSharers
<1>5. CASE UNCHANGED likeVars
  BY <1>1, <1>5 DEF likeVars
<1>6. QED
  BY <1>2, <1>3, <1>4, <1>5, CountUpCounts, CountDownCounts DEF LikeNext

LEMMA SharersAtFirst == LikeInit => CounterIsSharers
<1> SUFFICES ASSUME LikeInit PROVE CounterIsSharers
  OBVIOUS
<1>1. Sharers = {} /\ liked = 0
  BY DEF LikeInit, Sharers
<1>2. QED
  BY <1>1, FS_EmptySet DEF CounterIsSharers

LEMMA CancellersShare == LikeInv /\ CounterIsSharers => LikeCanBeCancelled
<1> SUFFICES ASSUME LikeInv, CounterIsSharers, unlucky = {}, NEW w \in Servers, like[w].pc = "minus"
             PROVE  liked > 0
  BY DEF LikeCanBeCancelled
<1>1. like[w].user \in Users /\ w \in Liking(like[w].user)
  BY DEF LikeInv, LikeShape, Liking
<1>2. like[w].user \in Sharers
  BY <1>1 DEF LikeInv, Lucky, Sharers
<1>3. QED
  BY <1>2, SharerCounts DEF CounterIsSharers

LikesInv == LikeInv /\ LikeBounds /\ CounterIsSharers

LEMMA LikesInvHolds ==
  /\ LikeInit => LikesInv
  /\ LikesInv /\ [LikeNext]_likeVars => LikesInv'
  /\ LikesInv => LikeType /\ CounterAgreesWithSet /\ LikeCanBeCancelled
<1>1. LikeInv => CounterAgreesWithSet
  BY DEF LikeInv, CounterAgreesWithSet, Lucky, Expected
<1>2. LikeInv /\ CounterIsSharers /\ [LikeNext]_likeVars => CounterIsSharers'
  BY LikeStepCounts
<1>3. QED
  BY <1>1, <1>2, LikeInitInv, LikeStepInv, LikeBoundsKept, LikeTypeKept, SharersAtFirst,
     CancellersShare DEF LikesInv

\* BlogServiceImpl.likeBlog: the counter of a blog contains exactly one for a user in
\* its Redis set and nothing for any other, except for users of whom two requests
\* overlapped or one failed.
THEOREM CounterAgrees == LikeSpec => [](LikeType /\ CounterAgreesWithSet)
BY LikesInvHolds, PTL DEF LikeSpec

\* BlogServiceImpl.likeBlog on an unsigned column: while no user was unlucky, nobody
\* who takes a like back meets a counter of zero, however many like and cancel.
THEOREM LikesCanBeCancelled == LikeSpec => []LikeCanBeCancelled
BY LikesInvHolds, PTL DEF LikeSpec
=============================================================================
