--------------------------- MODULE CommunityProofs ---------------------------
(***************************************************************************)
(* Likes, follows, posts and the scrolling reader together: the runs'      *)
(* specification keeps what each part promises, and a reader sees posts in *)
(* their order and misses none, however they arrive while it scrolls.      *)
(***************************************************************************)
EXTENDS Community, LikeProofs, FeedProofs, SequenceTheorems

-----------------------------------------------------------------------------
(* The inbox of the reader.                                                *)

\* A post that a thread still has to push to the reader is not in the inbox yet.
PushedOnce ==
    /\ \A b \in Received : b \in Posted
    /\ \A v, w \in Publishers :
          push[v].pc # "idle" /\ push[v].post = push[w].post => v = w
    /\ \A w \in Publishers :
          /\ push[w].pc = "list" => Time(push[w].post) = 0
          /\ push[w].left[Reader] > 0 =>
                push[w].pc # "idle" /\ push[w].left[Reader] = 1 /\ Time(push[w].post) = 0

InboxInv == part = "scroll" => (OneRowEach => PushedOnce)

-----------------------------------------------------------------------------
(* The list on show and the answers under way.                             *)

\* A page that starts at p does not leave b out.
NotPast(b, p) == Time(b) <= p.minTime /\ Rank(b, p.minTime) >= p.offset

\* What was in the inbox when the list was opened is in the list, or is to come.
Covers(list, p) == \A b \in wanted : b \in ToSet(list) \/ NotPast(b, p)

\* A page that starts at p follows on the end of the list.
Continues(list, p) ==
    list # <<>> =>
        LET last == Time(list[Len(list)]) IN
        p.minTime < last \/ (p.minTime = last /\ p.offset > 0)

\* Newest first, if times tell the posts apart.
Sorted(list) == DistinctTimes => \A i, j \in DOMAIN list : i < j => Time(list[i]) > Time(list[j])

PageFits(q) ==
    /\ q.list <= refreshes
    /\ ToSet(q.page) \subseteq Received
    /\ Sorted(q.page)
    /\ q.page # <<>> => /\ Continues(q.page, q.next)
                        /\ q.list > 0 /\ q.list = refreshes => Covers(q.page, q.next)

\* The one answer under way, if no two overlapped: a page of a new list, or one that
\* goes on where the list on show ends; an empty one means that nothing is to come.
AnswerFits(q) ==
    IF q.list > 0
    THEN /\ q.list = refreshes
         /\ q.page = <<>> => wanted = {} /\ Continues(shown, params)
    ELSE /\ ~stale => Continues(shown, params)
         /\ IF q.page = <<>> THEN wanted \subseteq ToSet(shown)
            ELSE Covers(shown \o q.page, q.next) /\ (~stale => Sorted(shown \o q.page))

\* The order of the list holds until an opening fails that finds another list on
\* show; what is to come is always to come.
ListFits ==
    /\ Len(queries) <= 1
    /\ Covers(shown, params)
    /\ ~stale => Sorted(shown)
    /\ queries = <<>> => (~stale => Continues(shown, params))
    /\ \A i \in DOMAIN queries : AnswerFits(queries[i])
    /\ ended => wanted \subseteq ToSet(shown)

ListInv ==
    /\ ToSet(shown) \subseteq Received
    /\ wanted \subseteq Received
    /\ refreshes = 0 => queries = <<>> /\ params = NoParams
    /\ \A i \in DOMAIN queries : PageFits(queries[i])
    /\ ~overlapped => ListFits

\* Nobody reads in the other parts.
NobodyReads == shown = <<>> /\ queries = <<>> /\ params = NoParams /\ wanted = {} /\ ~ended

ScrollInv == IF part = "scroll" THEN OneRowEach => ListInv ELSE NobodyReads

-----------------------------------------------------------------------------
(* ZREVRANGEBYSCORE: the posts up to a time in their order.                *)

LEMMA InboxValues ==
  ASSUME FeedType
  PROVE  /\ Received \subseteq Posts /\ Posts \subseteq Nat /\ MaxPosts \in Nat
         /\ \A b \in Posts : Time(b) \in 0..MaxTime /\ Time(b) \in Nat
         /\ \A max : UpTo(max) \subseteq Received
  BY ScrollConstants, FeedConstants DEF Received, Posts, Time, FeedType, UpTo

LEMMA UpToFinite ==
  ASSUME FeedType, NEW max
  PROVE  /\ IsFiniteSet(UpTo(max)) /\ Cardinality(UpTo(max)) \in Nat
         /\ \A b : IsFiniteSet({c \in UpTo(max) : Before(c, b)}) /\ Rank(b, max) \in Nat
<1>1. IsFiniteSet(1..MaxPosts)
  BY FS_Interval, FeedConstants
<1>2. UpTo(max) \in SUBSET (1..MaxPosts)
  BY InboxValues DEF Posts
<1>3. IsFiniteSet(UpTo(max)) /\ Cardinality(UpTo(max)) \in Nat
  BY <1>1, <1>2, FS_Subset, FS_CardinalityType
<1>4. ASSUME NEW b PROVE IsFiniteSet({c \in UpTo(max) : Before(c, b)}) /\ Rank(b, max) \in Nat
  BY <1>3, FS_Subset, FS_CardinalityType DEF Rank
<1>5. QED
  BY <1>3, <1>4

\* Before is a strict order of the posts, and a total one.
LEMMA BeforeOrders ==
  ASSUME FeedType, NEW b \in Received, NEW c \in Received
  PROVE  /\ ~Before(b, b)
         /\ Before(b, c) \/ Before(c, b) \/ b = c
         /\ \A d \in Received : Before(d, b) /\ Before(b, c) => Before(d, c)
<1>1. \A d \in Received : d \in Nat /\ Time(d) \in Nat
  BY InboxValues
<1> HIDE DEF Time
<1>2. QED
  BY <1>1 DEF Before

\* A post has the posts before it ahead of it, and so a greater rank than these.
LEMMA RankOrders ==
  ASSUME FeedType, NEW max, NEW b \in UpTo(max), NEW c \in UpTo(max), Before(b, c)
  PROVE  Rank(b, max) < Rank(c, max)
<1> DEFINE B == {d \in UpTo(max) : Before(d, b)}
           C == {d \in UpTo(max) : Before(d, c)}
<1>1. IsFiniteSet(B) /\ IsFiniteSet(C) /\ Cardinality(B) \in Nat /\ Cardinality(C) \in Nat
  BY UpToFinite, FS_CardinalityType
<1>2. b \notin B /\ B \cup {b} \subseteq C
  BY BeforeOrders, InboxValues
<1> HIDE DEF B, C
<1>3. IsFiniteSet(B \cup {b}) /\ Cardinality(B \cup {b}) = Cardinality(B) + 1
  BY <1>1, <1>2, FS_AddElement
<1>4. Cardinality(B) + 1 <= Cardinality(C)
  BY <1>1, <1>2, <1>3, FS_Subset
<1>5. Rank(b, max) = Cardinality(B) /\ Rank(c, max) = Cardinality(C)
  BY DEF Rank, B, C
<1>6. QED
  BY <1>1, <1>4, <1>5

LEMMA RankInjective ==
  ASSUME FeedType, NEW max, NEW b \in UpTo(max), NEW c \in UpTo(max)
  PROVE  /\ Rank(b, max) = Rank(c, max) => b = c
         /\ Rank(b, max) < Rank(c, max) => Before(b, c)
<1>1. Rank(b, max) \in Nat /\ Rank(c, max) \in Nat
  BY UpToFinite
<1>2. Before(b, c) \/ Before(c, b) \/ b = c
  BY BeforeOrders, InboxValues
<1>3. Before(b, c) => Rank(b, max) < Rank(c, max)
  BY RankOrders
<1>4. Before(c, b) => Rank(c, max) < Rank(b, max)
  BY RankOrders
<1>5. QED
  BY <1>1, <1>2, <1>3, <1>4

\* The ranks are the numbers below the number of posts, each of one post.
LEMMA RanksReached ==
  ASSUME FeedType, NEW max
  PROVE  LET n == Cardinality(UpTo(max)) IN
         /\ \A b \in UpTo(max) : Rank(b, max) \in 0..(n - 1)
         /\ \A r \in 0..(n - 1) : \E b \in UpTo(max) : Rank(b, max) = r
<1> DEFINE S == UpTo(max)
           n == Cardinality(S)
           f == [b \in S |-> Rank(b, max)]
<1>1. IsFiniteSet(S) /\ n \in Nat
  BY UpToFinite
<1>2. ASSUME NEW b \in S PROVE Rank(b, max) \in 0..(n - 1)
  <2> DEFINE B == {d \in S : Before(d, b)}
  <2>1. IsFiniteSet(B) /\ Cardinality(B) = Rank(b, max) /\ Rank(b, max) \in Nat
    BY UpToFinite DEF Rank
  <2>2. B \in SUBSET S /\ B # S
    BY BeforeOrders, InboxValues
  <2> HIDE DEF B
  <2>3. Cardinality(B) <= n /\ Cardinality(B) # n
    BY <1>1, <2>2, FS_Subset
  <2>4. QED
    BY <1>1, <2>1, <2>3
<1>3. f \in [S -> 0..(n - 1)]
  BY <1>2
<1>4. f \in Injection(S, 0..(n - 1))
  BY <1>3, RankInjective DEF Injection, IsInjective
<1>5. IsFiniteSet(0..(n - 1)) /\ Cardinality(0..(n - 1)) = n
  BY <1>1, FS_Interval
<1> HIDE DEF f
<1>6. f \in Surjection(S, 0..(n - 1))
  BY <1>4, <1>5, FS_Injection
<1>7. \A r \in 0..(n - 1) : \E b \in S : f[b] = r
  BY <1>6 DEF Surjection
<1>8. QED
  BY <1>2, <1>7 DEF f

-----------------------------------------------------------------------------
(* A page, and what the parameters that go with it leave for the next one. *)

LastPost(page) == page[Len(page)]
After(page) == [minTime |-> Time(LastPost(page)), offset |-> LastTies(page)]

\* A page holds the posts of two successive ranks, or as many as are left.
LEMMA PageRanks ==
  ASSUME FeedType, NEW max, NEW offset \in Nat
  PROVE  LET page == RevRange(max, offset) IN
         /\ page \in Seq(UpTo(max)) /\ page \in Seq(Posts) /\ Len(page) \in 0..2
         /\ \A i \in 1..Len(page) : page[i] \in UpTo(max) /\ Rank(page[i], max) = offset + i - 1
         /\ \A b \in UpTo(max) : Rank(b, max) >= offset =>
               \/ \E i \in 1..Len(page) : page[i] = b
               \/ page # <<>> /\ Rank(b, max) >= offset + Len(page)
<1> DEFINE n == Cardinality(UpTo(max))
           k == IF n >= offset + 2 THEN 2 ELSE IF n = offset + 1 THEN 1 ELSE 0
           page == RevRange(max, offset)
<1>0. n \in Nat /\ \A b \in UpTo(max) : Rank(b, max) \in Nat
  BY UpToFinite
<1> HIDE DEF n
<1>1. n \in Nat /\ k \in 0..2 /\ \A b \in UpTo(max) : Rank(b, max) \in Nat
  BY <1>0
<1>2. {j \in 1..PageSize : offset + j <= n} = 1..k
  BY <1>1 DEF PageSize
<1>3. page = [i \in 1..k |-> CHOOSE b \in UpTo(max) : Rank(b, max) = offset + i - 1]
  BY <1>2 DEF RevRange, n
<1>4. ASSUME NEW i \in 1..k PROVE page[i] \in UpTo(max) /\ Rank(page[i], max) = offset + i - 1
  <2>1. offset + i - 1 \in 0..(n - 1)
    BY <1>1
  <2>2. \E b \in UpTo(max) : Rank(b, max) = offset + i - 1
    BY <2>1, RanksReached DEF n
  <2> HIDE DEF k
  <2>3. page[i] = CHOOSE b \in UpTo(max) : Rank(b, max) = offset + i - 1
    BY <1>3
  <2>4. QED
    BY <2>2, <2>3
<1> HIDE DEF page, k
<1>5. page \in [1..k -> UpTo(max)] /\ k \in Nat
  BY <1>1, <1>3, <1>4
<1>6. page \in Seq(UpTo(max)) /\ Len(page) = k
  BY <1>5
<1>7. page \in Seq(Posts)
  BY <1>6, InboxValues, SeqMonotonic
<1>8. ASSUME NEW b \in UpTo(max), Rank(b, max) >= offset
      PROVE  \/ \E i \in 1..k : page[i] = b
             \/ page # <<>> /\ Rank(b, max) >= offset + k
  <2>1. Rank(b, max) \in 0..(n - 1)
    BY RanksReached DEF n
  <2>2. CASE Rank(b, max) < offset + k
    <3> DEFINE i == Rank(b, max) - offset + 1
    <3>1. i \in 1..k /\ Rank(b, max) = offset + i - 1
      BY <1>1, <1>8, <2>1, <2>2
    <3>2. page[i] \in UpTo(max) /\ Rank(page[i], max) = Rank(b, max)
      BY <1>4, <3>1
    <3>3. QED
      BY <3>1, <3>2, RankInjective
  <2>3. CASE Rank(b, max) >= offset + k
    <3>1. k # 0
      BY <1>1, <2>1, <1>8 DEF k
    <3>2. QED
      BY <1>6, <2>3, <3>1
  <2>4. QED
    BY <1>1, <2>1, <2>2, <2>3
<1>9. /\ page \in Seq(UpTo(max)) /\ page \in Seq(Posts) /\ Len(page) \in 0..2
      /\ \A i \in 1..Len(page) : page[i] \in UpTo(max) /\ Rank(page[i], max) = offset + i - 1
      /\ \A b \in UpTo(max) : Rank(b, max) >= offset =>
            \/ \E i \in 1..Len(page) : page[i] = b
            \/ page # <<>> /\ Rank(b, max) >= offset + Len(page)
  BY <1>1, <1>4, <1>6, <1>7, <1>8
<1>10. QED
  BY <1>9 DEF page

LEMMA PageOrder ==
  ASSUME FeedType, NEW max, NEW offset \in Nat
  PROVE  LET page == RevRange(max, offset) IN
         \A i, j \in 1..Len(page) : i < j => Before(page[i], page[j]) /\ page[i] # page[j]
<1> DEFINE page == RevRange(max, offset)
<1>1. /\ Len(page) \in Nat
      /\ \A i \in 1..Len(page) : page[i] \in UpTo(max) /\ Rank(page[i], max) = offset + i - 1
  BY PageRanks
<1> HIDE DEF page
<1>2. \A i, j \in 1..Len(page) : i < j => Rank(page[i], max) < Rank(page[j], max)
  BY <1>1
<1>3. \A i, j \in 1..Len(page) : i < j => Before(page[i], page[j]) /\ page[i] # page[j]
  BY <1>1, <1>2, RankInjective
<1>4. QED
  BY <1>3 DEF page

\* As many posts of the last time as the page ends with come before the posts that
\* are left: the offset leaves out none of these.
LEMMA NothingLeftOut ==
  ASSUME FeedType, NEW max, NEW offset \in Nat, RevRange(max, offset) # <<>>
  PROVE  LET page == RevRange(max, offset) IN
         /\ LastTies(page) \in Nat /\ LastTies(page) > 0
         /\ \A b \in UpTo(max) : Rank(b, max) >= offset =>
               (\E i \in 1..Len(page) : page[i] = b) \/ NotPast(b, After(page))
<1> DEFINE page == RevRange(max, offset)
           k == Len(page)
           last == page[k]
           J == {i \in 1..k : Time(page[i]) = Time(last)}
<1>1. /\ page \in Seq(Posts) /\ k \in 1..2
      /\ \A i \in 1..k : page[i] \in UpTo(max) /\ Rank(page[i], max) = offset + i - 1
      /\ \A b \in UpTo(max) : Rank(b, max) >= offset =>
            (\E i \in 1..k : page[i] = b) \/ Rank(b, max) >= offset + k
      /\ \A i, j \in 1..k : i < j => Before(page[i], page[j]) /\ page[i] # page[j]
  BY PageRanks, PageOrder, EmptySeq
<1>2. DOMAIN page = 1..k
  BY <1>1
<1>3. After(page) = [minTime |-> Time(last), offset |-> Cardinality(J)] /\ LastTies(page) = Cardinality(J)
  BY <1>2 DEF After, LastTies, LastPost
<1> HIDE DEF page, k
<1>4. IsFiniteSet(J) /\ Cardinality(J) \in Nat /\ Cardinality(J) > 0
  <2>1. IsFiniteSet(1..k)
    BY <1>1, FS_Interval
  <2>2. J \in SUBSET (1..k) /\ k \in J
    BY <1>1
  <2> HIDE DEF J
  <2>3. IsFiniteSet(J) /\ Cardinality(J) \in Nat /\ Cardinality(J) # 0
    BY <2>1, <2>2, FS_Subset, FS_CardinalityType, FS_EmptySet
  <2>4. QED
    BY <2>3
<1>5. ASSUME NEW b \in UpTo(max), Rank(b, max) >= offset + k
      PROVE  Time(b) <= Time(last) /\ Rank(b, Time(last)) >= Cardinality(J)
  <2>0. Rank(b, max) \in Nat
    BY UpToFinite
  <2>1. \A i \in 1..k : Rank(page[i], max) < Rank(b, max)
    BY <1>1, <1>5, <2>0
  <2>2. \A i \in 1..k : Before(page[i], b)
    BY <1>1, <2>1, RankInjective
  <2>3. /\ \A i \in 1..k : page[i] \in Received /\ Time(page[i]) \in Nat
        /\ b \in Received /\ Time(b) \in Nat
    BY <1>1, InboxValues
  <2>4. Time(b) <= Time(last)
    BY <1>1, <2>2, <2>3 DEF Before
  <2> DEFINE B == {c \in UpTo(Time(last)) : Before(c, b)}
             f == [i \in J |-> page[i]]
  <2>5. \A i \in J : page[i] \in B
    BY <1>1, <2>2, <2>3 DEF UpTo
  <2>6. \A i, j \in J : page[i] = page[j] => i = j
    BY <1>1
  <2>7. f \in Injection(J, B)
    BY <2>5, <2>6 DEF Injection, IsInjective
  <2>8. IsFiniteSet(B) /\ Cardinality(B) = Rank(b, Time(last))
    BY UpToFinite DEF Rank
  <2> HIDE DEF f, B, J
  <2>9. Cardinality(J) <= Cardinality(B)
    BY <2>7, <2>8, FS_Injection
  <2>10. Rank(b, Time(last)) \in Nat
    BY UpToFinite
  <2>11. QED
    BY <1>4, <2>4, <2>8, <2>9, <2>10
<1> HIDE DEF J
<1>6. ASSUME NEW b \in UpTo(max), Rank(b, max) >= offset
      PROVE  (\E i \in 1..k : page[i] = b) \/ NotPast(b, After(page))
  BY <1>1, <1>3, <1>5, <1>6 DEF NotPast
<1>7. QED
  BY <1>3, <1>4, <1>6 DEF page, k

-----------------------------------------------------------------------------
(* Lists.                                                                  *)

LEMMA ListJoined ==
  ASSUME NEW s \in Seq(Posts), NEW t \in Seq(Posts)
  PROVE  /\ s \o t \in Seq(Posts) /\ Len(s) \in Nat /\ Len(t) \in Nat
         /\ Len(s \o t) = Len(s) + Len(t)
         /\ DOMAIN s = 1..Len(s) /\ DOMAIN t = 1..Len(t) /\ DOMAIN (s \o t) = 1..Len(s \o t)
         /\ \A i \in 1..Len(s) : (s \o t)[i] = s[i]
         /\ \A i \in 1..Len(t) : (s \o t)[Len(s) + i] = t[i]
         /\ \A i \in 1..Len(s \o t) : i \in 1..Len(s) \/ \E j \in 1..Len(t) : i = Len(s) + j
         /\ ToSet(s \o t) = ToSet(s) \cup ToSet(t)
<1>1. /\ s \o t \in Seq(Posts) /\ Len(s) \in Nat /\ Len(t) \in Nat
      /\ Len(s \o t) = Len(s) + Len(t)
      /\ \A i \in 1..Len(s) + Len(t) : (s \o t)[i] = IF i <= Len(s) THEN s[i] ELSE t[i - Len(s)]
  BY ConcatProperties
<1>2. DOMAIN s = 1..Len(s) /\ DOMAIN t = 1..Len(t) /\ DOMAIN (s \o t) = 1..Len(s \o t)
  BY <1>1
<1>3. \A i \in 1..Len(s) : (s \o t)[i] = s[i] /\ i \in 1..Len(s \o t)
  BY <1>1
<1>4. \A i \in 1..Len(t) : (s \o t)[Len(s) + i] = t[i] /\ Len(s) + i \in 1..Len(s \o t)
  <2> TAKE i \in 1..Len(t)
  <2>1. Len(s) + i \in 1..Len(s) + Len(t) /\ ~(Len(s) + i <= Len(s)) /\ Len(s) + i - Len(s) = i
    BY <1>1
  <2>2. QED
    BY <1>1, <2>1
<1>5. \A i \in 1..Len(s \o t) : i \in 1..Len(s) \/ \E j \in 1..Len(t) : i = Len(s) + j
  <2> TAKE i \in 1..Len(s \o t)
  <2>1. CASE i <= Len(s)
    BY <1>1, <2>1
  <2>2. CASE ~(i <= Len(s))
    <3>1. i - Len(s) \in 1..Len(t) /\ i = Len(s) + (i - Len(s))
      BY <1>1, <2>2
    <3>2. QED
      BY <3>1
  <2>3. QED
    BY <2>1, <2>2
<1>6. ToSet(s \o t) = ToSet(s) \cup ToSet(t)
  BY <1>2, <1>3, <1>4, <1>5 DEF ToSet
<1>7. QED
  BY <1>1, <1>2, <1>3, <1>4, <1>5, <1>6

\* A page takes the list on from where it ends to where the page ends.
LEMMA PageAdvances ==
  ASSUME FeedType, NEW list \in Seq(Posts), NEW max, NEW offset \in Nat,
         wanted \subseteq Received, Covers(list, [minTime |-> max, offset |-> offset])
  PROVE  LET page == RevRange(max, offset) IN
         /\ page = <<>> => wanted \subseteq ToSet(list)
         /\ page # <<>> => Covers(list \o page, After(page))
<1> DEFINE page == RevRange(max, offset)
<1>1. /\ page \in Seq(Posts) /\ DOMAIN page = 1..Len(page)
      /\ \A b \in UpTo(max) : Rank(b, max) >= offset =>
            (\E i \in 1..Len(page) : page[i] = b) \/ page # <<>>
  BY PageRanks
<1>2. page # <<>> =>
         \A b \in UpTo(max) : Rank(b, max) >= offset =>
            (\E i \in 1..Len(page) : page[i] = b) \/ NotPast(b, After(page))
  BY NothingLeftOut
<1>3. \A b \in wanted : b \in ToSet(list) \/ (b \in UpTo(max) /\ Rank(b, max) >= offset)
  BY DEF Covers, NotPast, UpTo
<1> HIDE DEF page
<1>4. page = <<>> => wanted \subseteq ToSet(list)
  <2>1. page = <<>> => Len(page) = 0 /\ ~\E i \in 1..Len(page) : TRUE
    BY EmptySeq
  <2>2. QED
    BY <1>1, <1>3, <2>1
<1>5. page # <<>> => Covers(list \o page, After(page))
  <2>1. ToSet(list \o page) = ToSet(list) \cup ToSet(page)
    BY <1>1, ListJoined
  <2>2. \A i \in 1..Len(page) : page[i] \in ToSet(page)
    BY <1>1 DEF ToSet
  <2>3. QED
    BY <1>2, <1>3, <2>1, <2>2 DEF Covers
<1>6. QED
  BY <1>4, <1>5 DEF page

\* A page has the newest first, and follows on a list at whose end it starts.
LEMMA PageSorted ==
  ASSUME FeedType, NEW max, NEW offset \in Nat
  PROVE  LET page == RevRange(max, offset) IN
         /\ Sorted(page) /\ ToSet(page) \subseteq Received
         /\ page # <<>> => Continues(page, After(page))
<1> DEFINE page == RevRange(max, offset)
<1>1. /\ page \in Seq(Posts) /\ Len(page) \in Nat /\ DOMAIN page = 1..Len(page)
      /\ \A i \in 1..Len(page) : page[i] \in UpTo(max)
      /\ \A i, j \in 1..Len(page) : i < j => Before(page[i], page[j]) /\ page[i] # page[j]
      /\ page # <<>> => LastTies(page) > 0
  BY PageRanks, PageOrder, NothingLeftOut
<1> HIDE DEF page
<1>2. Sorted(page)
  BY <1>1, InboxValues DEF Sorted, DistinctTimes, Before
<1>3. ToSet(page) \subseteq Received
  BY <1>1, InboxValues DEF ToSet
<1>4. page # <<>> => Continues(page, After(page))
  BY <1>1 DEF Continues, After, LastPost
<1>5. QED
  BY <1>2, <1>3, <1>4 DEF page

LEMMA JoinSorted ==
  ASSUME FeedType, NEW list \in Seq(Posts), ToSet(list) \subseteq Received, Sorted(list),
         NEW max \in Nat, NEW offset \in Nat, Continues(list, [minTime |-> max, offset |-> offset])
  PROVE  Sorted(list \o RevRange(max, offset))
<1> DEFINE page == RevRange(max, offset)
<1>1. /\ page \in Seq(Posts) /\ Sorted(page)
      /\ \A i \in 1..Len(page) : page[i] \in UpTo(max) /\ Rank(page[i], max) = offset + i - 1
  BY PageRanks, PageSorted
<1> HIDE DEF page
<1>2. SUFFICES ASSUME DistinctTimes
               PROVE  \A i, j \in DOMAIN (list \o page) :
                         i < j => Time((list \o page)[i]) > Time((list \o page)[j])
  BY DEF Sorted, page
<1>3. /\ Len(list) \in Nat /\ Len(page) \in Nat
      /\ DOMAIN list = 1..Len(list) /\ DOMAIN page = 1..Len(page)
      /\ DOMAIN (list \o page) = 1..Len(list \o page)
      /\ \A i \in 1..Len(list) : (list \o page)[i] = list[i] /\ list[i] \in Received
      /\ \A i \in 1..Len(page) : (list \o page)[Len(list) + i] = page[i]
      /\ \A i \in 1..Len(list \o page) :
            i \in 1..Len(list) \/ \E j \in 1..Len(page) : i = Len(list) + j
  <2>1. \A i \in DOMAIN list : list[i] \in Received
    BY DEF ToSet
  <2>2. QED
    BY <1>1, <2>1, ListJoined
<1>4. ASSUME NEW i \in 1..Len(list), NEW j \in 1..Len(page) PROVE Time(list[i]) > Time(page[j])
  <2> DEFINE last == list[Len(list)]
  <2>1. list # <<>> /\ Len(list) \in 1..Len(list)
    BY <1>3
  <2>2. last \in Received /\ (max < Time(last) \/ (max = Time(last) /\ offset > 0))
    BY <1>3, <2>1 DEF Continues
  <2>3. /\ page[j] \in UpTo(max) /\ page[j] \in Received /\ Time(page[j]) <= max
        /\ Rank(page[j], max) = offset + j - 1
    BY <1>1, <1>3, InboxValues DEF UpTo
  <2>4. max = Time(last) /\ offset > 0 => Time(page[j]) # Time(last)
    <3>1. SUFFICES ASSUME max = Time(last), offset > 0, Time(page[j]) = Time(last) PROVE FALSE
      OBVIOUS
    <3>2. page[j] = last
      BY <1>2, <2>2, <2>3, <3>1 DEF DistinctTimes
    <3>3. ASSUME NEW c \in UpTo(max), Before(c, last) PROVE FALSE
      <4>1. c \in Received /\ Time(c) \in Nat /\ Time(last) \in Nat /\ Time(c) <= Time(last)
        BY <2>2, <3>1, InboxValues DEF UpTo
      <4>2. Time(c) = Time(last)
        BY <3>3, <4>1 DEF Before
      <4>3. c = last
        BY <1>2, <2>2, <4>1, <4>2 DEF DistinctTimes
      <4>4. QED
        BY <2>2, <3>3, <4>3, BeforeOrders
    <3>4. Rank(last, max) = 0
      <4>1. {c \in UpTo(max) : Before(c, last)} = {}
        BY <3>3
      <4>2. QED
        BY <4>1, FS_EmptySet DEF Rank
    <3>5. QED
      BY <1>3, <2>3, <3>1, <3>2, <3>4
  <2>5. Time(page[j]) < Time(last) /\ Time(page[j]) \in Nat /\ Time(last) \in Nat
    <3>1. Time(page[j]) \in Nat /\ Time(last) \in Nat /\ max \in Int
      BY <2>2, <2>3, InboxValues
    <3> HIDE DEF last
    <3>2. QED
      BY <2>2, <2>3, <2>4, <3>1
  <2>6. i # Len(list) => Time(list[i]) > Time(last)
    <3> DEFINE n == Len(list)
    <3>1. i \in 1..n /\ n \in Nat /\ DOMAIN list = 1..n
      BY <1>3, <1>4
    <3> HIDE DEF n, last
    <3>2. n \in 1..n /\ (i # n => i < n)
      BY <3>1
    <3>3. \A g, h \in DOMAIN list : g < h => Time(list[g]) > Time(list[h])
      BY <1>2 DEF Sorted
    <3>4. QED
      BY <3>1, <3>2, <3>3 DEF last, n
  <2>7. Time(list[i]) \in Nat
    BY <1>3, InboxValues
  <2> HIDE DEF last
  <2>8. i = Len(list) => list[i] = last
    BY DEF last
  <2>9. QED
    BY <2>5, <2>6, <2>7, <2>8
<1>5. ASSUME NEW i \in DOMAIN (list \o page), NEW j \in DOMAIN (list \o page), i < j
      PROVE  Time((list \o page)[i]) > Time((list \o page)[j])
  <2>1. CASE i \in 1..Len(list) /\ j \in 1..Len(list)
    BY <1>2, <1>3, <1>5, <2>1 DEF Sorted
  <2>2. CASE i \in 1..Len(list) /\ \E k \in 1..Len(page) : j = Len(list) + k
    BY <1>3, <1>4, <2>2
  <2>3. CASE (\E h \in 1..Len(page) : i = Len(list) + h) /\ \E k \in 1..Len(page) : j = Len(list) + k
    <3>1. PICK h \in 1..Len(page), k \in 1..Len(page) : i = Len(list) + h /\ j = Len(list) + k
      BY <2>3
    <3>2. h < k
      BY <1>3, <1>5, <3>1
    <3>3. Time(page[h]) > Time(page[k])
      BY <1>1, <1>2, <1>3, <3>2 DEF Sorted
    <3>4. QED
      BY <1>3, <3>1, <3>3
  <2>4. CASE (\E h \in 1..Len(page) : i = Len(list) + h) /\ j \in 1..Len(list)
    BY <1>3, <1>5, <2>4
  <2>5. QED
    BY <1>3, <2>1, <2>2, <2>3, <2>4
<1>6. QED
  BY <1>5

-----------------------------------------------------------------------------
(* The reader's steps.                                                     *)

Query == [list : 0..MaxRefreshes, page : Seq(Posts), next : Params]

\* A request adds its answer to those under way.
LEMMA Asked ==
  ASSUME FeedType, ScrollType, NEW list \in 0..MaxRefreshes, NEW max, NEW offset \in Nat,
         Ask(list, max, offset)
  PROVE  \E q \in Query :
            /\ q.list = list /\ q.page = RevRange(max, offset)
            /\ q.page # <<>> => q.next = After(q.page)
            /\ queries' \in Seq(Query) /\ queries' # <<>> /\ Len(queries') <= 2
            /\ \A i \in DOMAIN queries' :
                  queries'[i] = q \/ \E k \in DOMAIN queries : queries'[i] = queries[k]
            /\ queries = <<>> => Len(queries') = 1
<1> DEFINE page == RevRange(max, offset)
           next == IF page = <<>> THEN NoParams ELSE After(page)
           q == [list |-> list, page |-> page, next |-> next]
<1>1. queries \in Seq(Query) /\ Len(queries) < 2
  BY DEF ScrollType, Query, Ask
<1>2. queries' = Append(queries, q)
  BY DEF Ask, After, LastPost
<1>3. page \in Seq(Posts) /\ \A i \in 1..Len(page) : page[i] \in Posts
  BY PageRanks
<1>4. NoParams \in Params
  BY FeedConstants DEF NoParams, Params
<1>5. page # <<>> => After(page) \in Params
  <2> SUFFICES ASSUME page # <<>> PROVE After(page) \in Params
    OBVIOUS
  <2>1. LastTies(page) \in Nat
    BY NothingLeftOut
  <2> HIDE DEF page
  <2>2. Len(page) \in 1..Len(page)
    BY <1>3, EmptySeq
  <2>3. Time(LastPost(page)) \in 0..MaxTime
    BY <1>3, <2>2, InboxValues DEF LastPost
  <2>4. QED
    BY <2>1, <2>3, FeedConstants DEF After, Params
<1> HIDE DEF page
<1>6. q \in Query
  BY <1>3, <1>4, <1>5 DEF Query
<1>7. q.list = list /\ q.page = page /\ (page # <<>> => q.next = After(page))
  OBVIOUS
<1> HIDE DEF q
<1>8. /\ queries' \in Seq(Query) /\ Len(queries') = Len(queries) + 1 /\ queries' # <<>>
      /\ \A i \in 1..Len(queries) : queries'[i] = queries[i]
      /\ queries'[Len(queries) + 1] = q
  BY <1>1, <1>2, <1>6, AppendProperties
<1>9. /\ DOMAIN queries' = 1..Len(queries') /\ DOMAIN queries = 1..Len(queries)
      /\ Len(queries) \in Nat /\ Len(queries) < 2
  BY <1>1, <1>8, LenProperties
<1>10. \A m, n : n \in Nat /\ n < 2 /\ m = n + 1 =>
           m <= 2 /\ (n = 0 => m = 1) /\ \A i \in 1..m : i \in 1..n \/ i = n + 1
  OBVIOUS
<1>11. /\ Len(queries') <= 2 /\ (queries = <<>> => Len(queries') = 1)
       /\ \A i \in DOMAIN queries' : i \in 1..Len(queries) \/ i = Len(queries) + 1
  BY <1>8, <1>9, <1>10, EmptySeq
<1>12. \A i \in DOMAIN queries' :
          queries'[i] = q \/ \E k \in DOMAIN queries : queries'[i] = queries[k]
  BY <1>8, <1>9, <1>11
<1>13. QED
  BY <1>6, <1>7, <1>8, <1>11, <1>12 DEF page

\* An answer is taken out of those under way.
LEMMA AnswerTaken ==
  ASSUME ScrollType, NEW i \in DOMAIN queries, queries' = RemoveAt(queries, i)
  PROVE  /\ queries' \in Seq(Query) /\ Len(queries') = Len(queries) - 1 /\ Len(queries) \in 1..2
         /\ Len(queries') <= 2
         /\ DOMAIN queries' = 1..Len(queries') /\ DOMAIN queries = 1..Len(queries)
         /\ \A j \in DOMAIN queries' : \E k \in DOMAIN queries : queries'[j] = queries[k]
         /\ queries[i] \in Query
<1> DEFINE n == Len(queries)
           s == SubSeq(queries, 1, i - 1)
           t == SubSeq(queries, i + 1, n)
<1>0. queries \in Seq(Query) /\ n <= 2
  BY DEF ScrollType, Query
<1>1. queries \in Seq(Query) /\ n \in 1..2 /\ i \in 1..n /\ DOMAIN queries = 1..n
      /\ \A j \in 1..n : queries[j] \in Query
  <2>1. n \in Nat /\ DOMAIN queries = 1..n /\ queries \in [1..n -> Query]
    BY <1>0, LenProperties
  <2> HIDE DEF n
  <2>2. QED
    BY <1>0, <2>1
<1>2. queries' = s \o t
  BY DEF RemoveAt
<1>3. /\ s \in Seq(Query) /\ Len(s) = i - 1
      /\ \A j \in 1..(i - 1) : s[j] = queries[j]
  <2>1. 1 \in Int /\ i - 1 \in Int /\ \A j \in 1..(i - 1) : queries[j] \in Query
    BY <1>1
  <2> HIDE DEF n
  <2>2. QED
    BY <1>1, <2>1, SubSeqProperties
<1>4. /\ t \in Seq(Query) /\ Len(t) = n - i
      /\ \A j \in 1..(n - i) : t[j] = queries[i + j]
  <2>1. i + 1 \in Int /\ n \in Int /\ \A j \in (i + 1)..n : queries[j] \in Query
    BY <1>1
  <2> HIDE DEF n
  <2>2. QED
    BY <1>1, <2>1, SubSeqProperties
<1> HIDE DEF s, t, n
<1>5. /\ queries' \in Seq(Query) /\ Len(queries') = n - 1
      /\ \A j \in 1..(n - 1) : queries'[j] = IF j <= i - 1 THEN s[j] ELSE t[j - (i - 1)]
  <2>1. Len(s) + Len(t) = n - 1
    BY <1>1, <1>3, <1>4
  <2>2. /\ queries' \in Seq(Query) /\ Len(queries') = Len(s) + Len(t)
        /\ \A j \in 1..Len(s) + Len(t) :
              queries'[j] = IF j <= Len(s) THEN s[j] ELSE t[j - Len(s)]
    BY <1>2, <1>3, <1>4, ConcatProperties
  <2>3. QED
    BY <1>3, <2>1, <2>2
<1>6. ASSUME NEW j \in 1..(n - 1) PROVE \E k \in 1..n : queries'[j] = queries[k]
  <2>1. CASE j <= i - 1
    BY <1>1, <1>3, <1>5, <2>1
  <2>2. CASE ~(j <= i - 1)
    <3>1. j - (i - 1) \in 1..(n - i) /\ i + (j - (i - 1)) = j + 1 /\ j + 1 \in 1..n
      BY <1>1, <2>2
    <3>2. t[j - (i - 1)] = queries[j + 1]
      BY <1>4, <3>1
    <3>3. QED
      BY <1>5, <2>2, <3>1, <3>2
  <2>3. QED
    BY <2>1, <2>2
<1>7. DOMAIN queries' = 1..Len(queries')
  BY <1>5
<1>8. n - 1 <= 2
  BY <1>1
<1>9. QED
  BY <1>1, <1>5, <1>6, <1>7, <1>8 DEF n

LEMMA ReadType ==
  ASSUME FeedType, ScrollType, ReadStep
  PROVE  ScrollType'
<1>0. queries' \in Seq(Query) <=>
        queries' \in Seq([list : 0..MaxRefreshes, page : Seq(Posts), next : Params])
  BY DEF Query
<1>1. ASSUME Refresh PROVE ScrollType'
  <2>1. PICK max \in 0..MaxTime + 1 :
          /\ Ask(refreshes + 1, max, 0) /\ params' = [minTime |-> max, offset |-> 0]
          /\ wanted' = UpTo(max)
    BY <1>1, FeedConstants, ScrollConstants DEF Refresh
  <2>2. refreshes + 1 \in 0..MaxRefreshes /\ 0 \in Nat
    BY <1>1, ScrollConstants DEF Refresh, ScrollType
  <2>3. queries' \in Seq(Query) /\ Len(queries') <= 2
    BY <2>1, <2>2, Asked
  <2>4. params' \in Params /\ wanted' \in SUBSET Posts
    BY <2>1, InboxValues DEF Params
  <2>5. overlapped' \in BOOLEAN /\ ended' \in BOOLEAN /\ stale' \in BOOLEAN
    BY <1>1 DEF Refresh, ScrollType
  <2>6. shown' \in Seq(Posts) /\ refreshes' \in 0..MaxRefreshes /\ queryFaults' \in 0..MaxQueryFaults
    BY <1>1, <2>2 DEF Refresh, ScrollType
  <2>7. QED
    BY <1>0, <2>3, <2>4, <2>5, <2>6 DEF ScrollType
<1>2. ASSUME NextPage PROVE ScrollType'
  <2>1. params.offset \in Nat /\ 0 \in 0..MaxRefreshes
    BY ScrollConstants DEF ScrollType, Params
  <2>2. queries' \in Seq(Query) /\ Len(queries') <= 2
    <3>1. Ask(0, params.minTime, params.offset)
      BY <1>2 DEF NextPage
    <3>2. QED
      BY <2>1, <3>1, Asked
  <2>3. /\ overlapped' \in BOOLEAN
        /\ UNCHANGED <<shown, params, wanted, stale, ended, refreshes, queryFaults>>
    BY <1>2 DEF NextPage
  <2>4. QED
    BY <1>0, <2>2, <2>3 DEF ScrollType
<1>3. ASSUME NEW i \in DOMAIN queries, ReceivePage(i) PROVE ScrollType'
  <2> DEFINE q == queries[i]
  <2>1. queries' \in Seq(Query) /\ Len(queries') <= 2 /\ q \in Query
    <3>1. queries' = RemoveAt(queries, i)
      BY <1>3 DEF ReceivePage
    <3>2. QED
      BY <3>1, AnswerTaken
  <2>2. q.page \in Seq(Posts) /\ q.next \in Params /\ shown \in Seq(Posts) /\ params \in Params
    BY <2>1 DEF ScrollType, Query
  <2>3. shown \o q.page \in Seq(Posts)
    BY <2>2, ListJoined
  <2>4. shown' \in Seq(Posts) /\ params' \in Params
    BY <1>3, <2>2, <2>3 DEF ReceivePage
  <2>5. ended' \in BOOLEAN /\ overlapped' \in BOOLEAN /\ stale' \in BOOLEAN
    BY <1>3 DEF ReceivePage
  <2>6. /\ wanted' \in SUBSET Posts /\ refreshes' \in 0..MaxRefreshes
        /\ queryFaults' \in 0..MaxQueryFaults
    BY <1>3 DEF ReceivePage, ScrollType
  <2>7. QED
    BY <1>0, <2>1, <2>4, <2>5, <2>6 DEF ScrollType
<1>4. ASSUME NEW i \in DOMAIN queries, QueryFails(i) PROVE ScrollType'
  <2>1. queries' \in Seq(Query) /\ Len(queries') <= 2
    <3>1. queries' = RemoveAt(queries, i)
      BY <1>4 DEF QueryFails
    <3>2. QED
      BY <3>1, AnswerTaken
  <2>2. stale' \in BOOLEAN
    <3>1. stale' = (stale \/ (queries[i].list > 0 /\ shown # <<>>))
      BY <1>4 DEF QueryFails
    <3>2. QED
      BY <3>1
  <2>3. queryFaults' \in 0..MaxQueryFaults
    BY <1>4, ScrollConstants DEF QueryFails, ScrollType
  <2>4. UNCHANGED <<shown, params, wanted, overlapped, ended, refreshes>>
    BY <1>4 DEF QueryFails
  <2>5. QED
    BY <1>0, <2>1, <2>2, <2>3, <2>4 DEF ScrollType
<1>5. QED
  BY <1>1, <1>2, <1>3, <1>4 DEF ReadStep

\* While posts arrive, and those that are there keep their times, no rank falls, and
\* so nothing that is to come is passed over.
LEMMA ArrivalsKeep ==
  ASSUME FeedType, FeedType', \A b \in Posts : Time(b) > 0 => Time(b)' = Time(b)
  PROVE  /\ Received \subseteq Received'
         /\ \A b \in Received, p \in [minTime : Nat, offset : Nat] : NotPast(b, p) => NotPast(b, p)'
         /\ \A list : ToSet(list) \subseteq Received /\ Sorted(list) => Sorted(list)'
         /\ \A p : \A list \in Seq(Posts) : ToSet(list) \subseteq Received /\ Continues(list, p)
                => Continues(list, p)'
<1>1. \A b \in Received : b \in Received' /\ Time(b)' = Time(b) /\ Time(b) \in Nat
  <2>1. \A b \in Received : b \in Posts /\ Time(b) > 0 /\ Time(b) \in Nat
    BY InboxValues DEF Received
  <2>2. \A b \in Posts : Time(b)' > 0 => b \in Received'
    BY DEF Received
  <2>3. QED
    BY <2>1, <2>2
<1>2. ASSUME NEW b \in Received, NEW p \in [minTime : Nat, offset : Nat], NotPast(b, p)
      PROVE  NotPast(b, p)'
  <2> DEFINE max == p.minTime
             B == {c \in UpTo(max) : Before(c, b)}
             C == {c \in UpTo(max)' : Before(c, b)'}
  <2>1. B \subseteq C
    BY <1>1 DEF UpTo, Before
  <2>2. IsFiniteSet(B) /\ Cardinality(B) = Rank(b, max) /\ Rank(b, max) \in Nat
    BY UpToFinite DEF Rank
  <2>3. IsFiniteSet(C) /\ Cardinality(C) = Rank(b, max)' /\ Rank(b, max)' \in Nat
    <3>1. IsFiniteSet(UpTo(max)')
      <4>1. IsFiniteSet(1..MaxPosts)
        BY FS_Interval, FeedConstants
      <4>2. UpTo(max)' \in SUBSET (1..MaxPosts)
        BY DEF UpTo, Received, Posts
      <4>3. QED
        BY <4>1, <4>2, FS_Subset
    <3>2. IsFiniteSet(C) /\ Cardinality(C) \in Nat
      BY <3>1, FS_Subset, FS_CardinalityType
    <3>3. QED
      BY <3>2 DEF Rank
  <2> HIDE DEF B, C
  <2>4. Rank(b, max) <= Rank(b, max)'
    BY <2>1, <2>2, <2>3, FS_Subset
  <2>5. Time(b)' <= max /\ Rank(b, max) >= p.offset /\ p.offset \in Nat
    BY <1>1, <1>2 DEF NotPast
  <2>6. QED
    BY <2>2, <2>3, <2>4, <2>5 DEF NotPast
<1>3. DistinctTimes' => DistinctTimes
  BY <1>1 DEF DistinctTimes
<1>4. ASSUME NEW list, ToSet(list) \subseteq Received, Sorted(list) PROVE Sorted(list)'
  <2>1. \A i \in DOMAIN list : list[i] \in Received
    BY <1>4 DEF ToSet
  <2>2. QED
    BY <1>1, <1>3, <1>4, <2>1 DEF Sorted
<1>5. ASSUME NEW list \in Seq(Posts), NEW p, ToSet(list) \subseteq Received, Continues(list, p)
      PROVE  Continues(list, p)'
  <2>1. list # <<>> => Len(list) \in DOMAIN list
    BY LenProperties, EmptySeq
  <2>2. list # <<>> => list[Len(list)] \in Received
    BY <1>5, <2>1 DEF ToSet
  <2>3. QED
    BY <1>1, <1>5, <2>2 DEF Continues
<1>6. QED
  BY <1>1, <1>2, <1>4, <1>5

TimesKept == \A b \in Posts : Time(b) > 0 => Time(b)' = Time(b)

LEMMA CoversKept ==
  ASSUME FeedType, FeedType', TimesKept, NEW list, NEW p \in Params,
         wanted \subseteq Received, wanted' = wanted, Covers(list, p)
  PROVE  Covers(list, p)'
<1>1. p \in [minTime : Nat, offset : Nat]
  BY FeedConstants DEF Params
<1>2. \A b \in Received : NotPast(b, p) => NotPast(b, p)'
  BY <1>1, ArrivalsKeep DEF TimesKept
<1>3. QED
  BY <1>2 DEF Covers

\* A page stays what it was while posts arrive.
LEMMA PageKept ==
  ASSUME FeedType, FeedType', TimesKept, NEW q \in Query, PageFits(q),
         wanted \subseteq Received, wanted' = wanted, refreshes' = refreshes
  PROVE  PageFits(q)'
<1>1. q.page \in Seq(Posts) /\ q.next \in Params
  BY DEF Query
<1>2. ToSet(q.page) \subseteq Received' /\ Sorted(q.page)'
  BY ArrivalsKeep DEF TimesKept, PageFits
<1>3. q.page # <<>> => Continues(q.page, q.next)'
  BY <1>1, ArrivalsKeep DEF TimesKept, PageFits
<1>4. Covers(q.page, q.next) => Covers(q.page, q.next)'
  BY <1>1, CoversKept
<1>5. QED
  BY <1>2, <1>3, <1>4 DEF PageFits

\* Posts arrive; the list and the answers under way do not change.
LEMMA ListStays ==
  ASSUME FeedType, FeedType', ScrollType, TimesKept, ListInv, UNCHANGED scrollVars
  PROVE  ListInv'
<1>1. /\ UNCHANGED <<shown, params, queries, wanted, overlapped, stale, ended, refreshes>>
      /\ shown \in Seq(Posts) /\ params \in Params
      /\ \A i \in DOMAIN queries : queries[i] \in Query
      /\ ToSet(shown) \subseteq Received /\ wanted \subseteq Received
  <2>1. queries \in Seq(Query)
    BY DEF ScrollType, Query
  <2>2. \A i \in DOMAIN queries : queries[i] \in Query
    BY <2>1, LenProperties
  <2>3. QED
    BY <2>2 DEF scrollVars, ScrollType, ListInv
<1>2. Received \subseteq Received'
  BY ArrivalsKeep DEF TimesKept
<1>3. \A i \in DOMAIN queries : PageFits(queries[i])'
  BY <1>1, PageKept DEF ListInv
<1>4. ASSUME ~overlapped PROVE ListFits'
  <2>1. ListFits
    BY <1>4 DEF ListInv
  <2>2. Continues(shown, params) => Continues(shown, params)'
    BY <1>1, ArrivalsKeep DEF TimesKept
  <2>3. Covers(shown, params) => Covers(shown, params)'
    BY <1>1, CoversKept
  <2>4. Sorted(shown) => Sorted(shown)'
    BY <1>1, ArrivalsKeep DEF TimesKept
  <2>5. ASSUME NEW i \in DOMAIN queries PROVE AnswerFits(queries[i])'
    <3> DEFINE q == queries[i]
    <3>1. q \in Query /\ AnswerFits(q) /\ PageFits(q)
      BY <1>1, <2>1, <2>5 DEF ListFits, ListInv
    <3>2. q.page \in Seq(Posts) /\ q.next \in Params /\ ToSet(q.page) \subseteq Received
      BY <3>1 DEF Query, PageFits
    <3>3. ToSet(shown \o q.page) \subseteq Received
      BY <1>1, <3>2, ListJoined
    <3>4. Covers(shown \o q.page, q.next) => Covers(shown \o q.page, q.next)'
      BY <1>1, <3>2, CoversKept
    <3>5. Sorted(shown \o q.page) => Sorted(shown \o q.page)'
      BY <1>1, <3>3, ArrivalsKeep DEF TimesKept
    <3>6. queries' = queries
      BY <1>1
    <3> HIDE DEF q
    <3>7. AnswerFits(q)'
      BY <1>1, <2>2, <2>3, <3>1, <3>4, <3>5, <3>6 DEF AnswerFits, q
    <3>8. QED
      BY <3>7 DEF q
  <2>6. QED
    BY <1>1, <2>1, <2>2, <2>3, <2>4, <2>5 DEF ListFits
<1>5. QED
  BY <1>1, <1>2, <1>3, <1>4 DEF ListInv

LEMMA OldQueries ==
  ASSUME ScrollType
  PROVE  /\ \A i \in DOMAIN queries : queries[i] \in Query
         /\ queries = <<>> => DOMAIN queries = {}
<1>1. queries \in Seq(Query)
  BY DEF ScrollType, Query
<1>2. DOMAIN queries = 1..Len(queries) /\ \A i \in DOMAIN queries : queries[i] \in Query
  BY <1>1, LenProperties
<1>3. QED
  BY <1>2, EmptySeq

\* The list is opened anew: the first page starts before every post up to
\* the time asked for, and the parameters stand there until it comes.
LEMMA RefreshKeeps ==
  ASSUME FeedType, FeedType', ScrollType, TimesKept, ListInv, Refresh
  PROVE  ListInv'
<1>0. PICK max \in Nat :
        /\ Ask(refreshes + 1, max, 0) /\ params' = [minTime |-> max, offset |-> 0]
        /\ wanted' = UpTo(max)
  BY FeedConstants, ScrollConstants DEF Refresh
<1>1. /\ refreshes \in 0..MaxRefreshes /\ refreshes + 1 \in 0..MaxRefreshes
      /\ ended' = FALSE /\ refreshes' = refreshes + 1 /\ shown' = shown /\ stale' = stale
      /\ overlapped' = (overlapped \/ queries # <<>>)
      /\ shown \in Seq(Posts)
  BY ScrollConstants DEF Refresh, ScrollType
<1>2. PICK q \in Query :
        /\ q.list = refreshes + 1 /\ q.page = RevRange(max, 0)
        /\ q.page # <<>> => q.next = After(q.page)
        /\ queries' \in Seq(Query) /\ queries' # <<>> /\ Len(queries') <= 2
        /\ \A i \in DOMAIN queries' :
              queries'[i] = q \/ \E k \in DOMAIN queries : queries'[i] = queries[k]
        /\ queries = <<>> => Len(queries') = 1
  BY <1>0, <1>1, Asked
<1>3. /\ UpTo(max) \subseteq Received
      /\ \A b \in UpTo(max) : Time(b) <= max /\ Rank(b, max) \in Nat /\ Rank(b, max) >= 0
  <2>1. \A b \in UpTo(max) : Rank(b, max) \in Nat
    BY UpToFinite
  <2>2. \A n \in Nat : n >= 0
    OBVIOUS
  <2>3. UpTo(max) \subseteq Received
    BY InboxValues
  <2>4. \A b \in UpTo(max) : Time(b) <= max
    BY DEF UpTo
  <2>5. QED
    BY <2>1, <2>2, <2>3, <2>4
<1>4. q.page \in Seq(Posts) /\ q.next \in Params /\ q.next \in [minTime : Nat, offset : Nat]
  BY FeedConstants DEF Query, Params
<1>5. Received \subseteq Received' /\ ToSet(shown) \subseteq Received'
  BY ArrivalsKeep DEF TimesKept, ListInv
<1>6. PageFits(q)'
  <2>1. ToSet(q.page) \subseteq Received /\ Sorted(q.page)
    BY <1>2, PageSorted
  <2>2. Sorted(q.page)'
    BY <2>1, ArrivalsKeep DEF TimesKept
  <2>3. ASSUME q.page # <<>> PROVE Continues(q.page, q.next)'
    <3>1. Continues(q.page, q.next)
      BY <1>2, <2>3, PageSorted
    <3>2. QED
      BY <1>4, <2>1, <3>1, ArrivalsKeep DEF TimesKept
  <2>4. ASSUME q.page # <<>> PROVE Covers(q.page, q.next)'
    <3>1. \A b \in UpTo(max) : (\E i \in 1..Len(q.page) : q.page[i] = b) \/ NotPast(b, q.next)
      BY <1>2, <1>3, <2>4, NothingLeftOut
    <3>2. \A i \in 1..Len(q.page) : q.page[i] \in ToSet(q.page)
      BY <1>4, LenProperties DEF ToSet
    <3>3. \A b \in Received : NotPast(b, q.next) => NotPast(b, q.next)'
      BY <1>4, ArrivalsKeep DEF TimesKept
    <3>4. QED
      BY <1>0, <1>3, <3>1, <3>2, <3>3 DEF Covers
  <2>5. QED
    BY <1>1, <1>2, <1>5, <2>1, <2>2, <2>3, <2>4 DEF PageFits
<1>7. ASSUME NEW r \in Query, PageFits(r) PROVE PageFits(r)'
  <2>1. r.page \in Seq(Posts) /\ r.list \in 0..MaxRefreshes
    BY DEF Query
  <2>2. ToSet(r.page) \subseteq Received' /\ Sorted(r.page)'
    BY <1>7, ArrivalsKeep DEF TimesKept, PageFits
  <2>3. r.page # <<>> => Continues(r.page, r.next)'
    BY <1>7, <2>1, ArrivalsKeep DEF TimesKept, PageFits
  <2>4. r.list <= refreshes' /\ r.list # refreshes'
    BY <1>1, <1>7, <2>1 DEF PageFits
  <2>5. QED
    BY <2>2, <2>3, <2>4 DEF PageFits
<1>8. \A i \in DOMAIN queries' : PageFits(queries[i])'
  <2>1. \A k \in DOMAIN queries : queries[k] \in Query /\ PageFits(queries[k])
    BY OldQueries DEF ListInv
  <2>2. QED
    BY <1>2, <1>6, <1>7, <2>1
<1>9. ASSUME ~overlapped' PROVE ListFits'
  <2>1. queries = <<>> /\ ~overlapped /\ ListFits
    BY <1>1, <1>9 DEF ListInv
  <2>2. Len(queries') = 1 /\ \A i \in DOMAIN queries' : queries'[i] = q
    BY <1>2, <2>1, OldQueries
  <2>3. Sorted(shown) => Sorted(shown)'
    BY <1>1, ArrivalsKeep DEF TimesKept, ListInv
  <2>4. Covers(shown, params)'
    <3>1. \A b \in UpTo(max) : NotPast(b, [minTime |-> max, offset |-> 0])
      BY <1>3 DEF NotPast
    <3>2. \A b \in UpTo(max) : NotPast(b, [minTime |-> max, offset |-> 0])'
      BY <1>3, <3>1, ArrivalsKeep DEF TimesKept
    <3>3. QED
      BY <1>0, <3>2 DEF Covers
  <2>5. ASSUME q.page = <<>> PROVE wanted' = {} /\ Continues(shown, params)'
    <3>1. UpTo(max) = {}
      <4>1. ~\E i \in 1..Len(q.page) : TRUE
        BY <2>5, EmptySeq
      <4>2. QED
        BY <1>2, <1>3, <2>5, <4>1, PageRanks
    <3>2. \A b \in Received : max < Time(b)
      BY <3>1, InboxValues DEF UpTo
    <3>3. shown # <<>> => shown[Len(shown)] \in ToSet(shown)
      BY <1>1, EmptySeq, LenProperties DEF ToSet
    <3>4. Continues(shown, [minTime |-> max, offset |-> 0])
      BY <3>2, <3>3 DEF Continues, ListInv
    <3>5. Continues(shown, [minTime |-> max, offset |-> 0])'
      BY <1>1, <3>4, ArrivalsKeep DEF TimesKept, ListInv
    <3>6. QED
      BY <1>0, <1>1, <3>1, <3>5
  <2>6. AnswerFits(q)'
    <3>1. q.list > 0 /\ q.list = refreshes'
      BY <1>1, <1>2
    <3>2. QED
      BY <2>5, <3>1 DEF AnswerFits
  <2>7. QED
    BY <1>1, <1>2, <2>1, <2>2, <2>3, <2>4, <2>6 DEF ListFits
<1>10. refreshes' # 0
  BY <1>1
<1>11. wanted' \subseteq Received'
  BY <1>0, <1>3, <1>5
<1>12. QED
  BY <1>1, <1>5, <1>8, <1>9, <1>10, <1>11 DEF ListInv

\* The next page is asked for: it starts where the parameters say.
LEMMA NextPageKeeps ==
  ASSUME FeedType, FeedType', ScrollType, TimesKept, ListInv, NextPage
  PROVE  ListInv'
<1> DEFINE max == params.minTime
           offset == params.offset
<1>1. /\ params \in Params /\ offset \in Nat /\ params = [minTime |-> max, offset |-> offset]
      /\ 0 \in 0..MaxRefreshes /\ Ask(0, max, offset) /\ max > 0
      /\ overlapped' = (overlapped \/ queries # <<>>)
      /\ UNCHANGED <<shown, params, wanted, stale, ended, refreshes>>
      /\ max \in Nat /\ shown \in Seq(Posts) /\ wanted \subseteq Received /\ ToSet(shown) \subseteq Received
  BY ScrollConstants, FeedConstants DEF NextPage, ScrollType, Params, ListInv
<1> HIDE DEF max, offset
<1>2. PICK q \in Query :
        /\ q.list = 0 /\ q.page = RevRange(max, offset)
        /\ q.page # <<>> => q.next = After(q.page)
        /\ queries' \in Seq(Query) /\ queries' # <<>> /\ Len(queries') <= 2
        /\ \A i \in DOMAIN queries' :
              queries'[i] = q \/ \E k \in DOMAIN queries : queries'[i] = queries[k]
        /\ queries = <<>> => Len(queries') = 1
  BY <1>1, Asked
<1>3. q.page \in Seq(Posts) /\ q.next \in Params
  BY DEF Query
<1>4. Received \subseteq Received'
  BY ArrivalsKeep DEF TimesKept
<1>5. PageFits(q)'
  <2>1. ToSet(q.page) \subseteq Received /\ Sorted(q.page)
    BY <1>1, <1>2, PageSorted
  <2>2. Sorted(q.page)'
    BY <2>1, ArrivalsKeep DEF TimesKept
  <2>3. ASSUME q.page # <<>> PROVE Continues(q.page, q.next)'
    <3>1. Continues(q.page, q.next)
      BY <1>1, <1>2, <2>3, PageSorted
    <3>2. QED
      BY <1>3, <2>1, <3>1, ArrivalsKeep DEF TimesKept
  <2>4. 0 <= refreshes'
    BY <1>1 DEF ScrollType
  <2>5. QED
    BY <1>2, <1>4, <2>1, <2>2, <2>3, <2>4 DEF PageFits
<1>6. \A i \in DOMAIN queries' : PageFits(queries[i])'
  <2>1. \A k \in DOMAIN queries : queries[k] \in Query /\ PageFits(queries[k])
    BY OldQueries DEF ListInv
  <2>2. \A r \in Query : PageFits(r) => PageFits(r)'
    BY <1>1, PageKept
  <2>3. QED
    BY <1>2, <1>5, <2>1, <2>2
<1>7. ASSUME ~overlapped' PROVE ListFits'
  <2>1. queries = <<>> /\ ~overlapped /\ ListFits
    BY <1>1, <1>7 DEF ListInv
  <2>2. Len(queries') = 1 /\ \A i \in DOMAIN queries' : queries'[i] = q
    BY <1>2, <2>1, OldQueries
  <2>3. Covers(shown, params) /\ (~stale => Continues(shown, params) /\ Sorted(shown))
    BY <2>1 DEF ListFits
  <2>4. ~stale => Continues(shown, params)' /\ Sorted(shown)'
    BY <1>1, <2>3, ArrivalsKeep DEF TimesKept
  <2>5. Covers(shown, params)'
    BY <1>1, <2>3, CoversKept
  <2>6. q.page = <<>> => wanted \subseteq ToSet(shown)
    BY <1>1, <1>2, <2>3, PageAdvances
  <2>7. ASSUME q.page # <<>> PROVE Covers(shown \o q.page, q.next)'
    <3>1. Covers(shown \o q.page, q.next)
      BY <1>1, <1>2, <2>3, <2>7, PageAdvances
    <3>2. QED
      BY <1>1, <1>3, <3>1, CoversKept
  <2>8. ASSUME ~stale PROVE Sorted(shown \o q.page)'
    <3>1. Sorted(shown \o q.page)
      BY <1>1, <1>2, <2>3, <2>8, JoinSorted
    <3>2. ToSet(shown \o q.page) \subseteq Received
      BY <1>1, <1>2, <1>3, PageSorted, ListJoined
    <3>3. QED
      BY <1>1, <3>1, <3>2, ArrivalsKeep DEF TimesKept
  <2>9. AnswerFits(q)'
    BY <1>1, <1>2, <2>4, <2>6, <2>7, <2>8 DEF AnswerFits
  <2>10. QED
    BY <1>1, <1>2, <2>1, <2>2, <2>4, <2>5, <2>9 DEF ListFits
<1>8. refreshes # 0
  <2>1. NoParams.minTime = 0
    BY DEF NoParams
  <2>2. QED
    BY <1>1, <2>1 DEF ListInv, max
<1>9. QED
  BY <1>1, <1>4, <1>6, <1>7, <1>8 DEF ListInv

\* An answer comes: a first page starts the list, another one continues it, an
\* empty one ends it.
LEMMA AnswerKeeps ==
  ASSUME FeedType, FeedType', ScrollType, TimesKept, ListInv,
         NEW i \in DOMAIN queries, ReceivePage(i)
  PROVE  ListInv'
<1>1. PICK q \in Query, old \in Seq(Posts) : q = queries[i] /\ old = shown
  BY OldQueries DEF ScrollType
<1>2. /\ queries' = RemoveAt(queries, i)
      /\ shown' = IF q.page = <<>> THEN old ELSE IF q.list > 0 THEN q.page ELSE old \o q.page
      /\ params' = IF q.page = <<>> THEN params ELSE q.next
      /\ ended' = (q.page = <<>>)
      /\ overlapped' = (overlapped /\ ~StartsAfresh(q)) /\ stale' = (stale /\ ~StartsAfresh(q))
      /\ UNCHANGED <<wanted, refreshes>>
  BY <1>1 DEF ReceivePage
<1>3. /\ queries' \in Seq(Query) /\ Len(queries') = Len(queries) - 1 /\ Len(queries) \in 1..2
      /\ \A j \in DOMAIN queries' : \E k \in DOMAIN queries : queries'[j] = queries[k]
      /\ queries # <<>>
  BY <1>2, AnswerTaken, OldQueries
<1>4. /\ q.page \in Seq(Posts) /\ q.next \in Params /\ q.list \in 0..MaxRefreshes
      /\ params \in Params /\ refreshes \in 0..MaxRefreshes
      /\ PageFits(q) /\ ToSet(q.page) \subseteq Received
      /\ wanted \subseteq Received /\ ToSet(old) \subseteq Received
      /\ refreshes # 0
  BY <1>1, <1>3 DEF Query, ScrollType, ListInv, PageFits
<1>5. ToSet(old \o q.page) \subseteq Received
  BY <1>4, ListJoined
<1>6. Received \subseteq Received'
  BY ArrivalsKeep DEF TimesKept
<1>7. ToSet(shown') \subseteq Received' /\ wanted' \subseteq Received'
  BY <1>2, <1>4, <1>5, <1>6
<1>8. \A j \in DOMAIN queries' : PageFits(queries[j])'
  <2>1. \A k \in DOMAIN queries : queries[k] \in Query /\ PageFits(queries[k])
    BY OldQueries DEF ListInv
  <2>2. \A r \in Query : PageFits(r) => PageFits(r)'
    BY <1>2, <1>4, PageKept
  <2>3. QED
    BY <1>3, <2>1, <2>2
<1>9. ASSUME Len(queries) = 1, Covers(shown, params)',
             ~stale' => Continues(shown, params)' /\ Sorted(shown)',
             q.page = <<>> => wanted' \subseteq ToSet(shown')
      PROVE  ListFits'
  <2>1. Len(queries') = 0
    BY <1>3, <1>9
  <2>2. queries' = <<>> /\ DOMAIN queries' = {}
    BY <1>3, <2>1, EmptySeq
  <2>3. Len(queries') <= 1
    BY <2>1
  <2>4. ended' => wanted' \subseteq ToSet(shown')
    BY <1>2, <1>9
  <2>5. QED
    BY <1>9, <2>2, <2>3, <2>4 DEF ListFits
<1>10. ASSUME Len(queries) = 1, q.list = refreshes, q.page # <<>> PROVE ListFits'
  <2>1. shown' = q.page /\ params' = q.next
    BY <1>2, <1>4, <1>10
  <2>2. Continues(q.page, q.next) /\ Covers(q.page, q.next) /\ Sorted(q.page)
    BY <1>4, <1>10 DEF PageFits
  <2>3. Continues(q.page, q.next)' /\ Sorted(q.page)'
    BY <1>4, <2>2, ArrivalsKeep DEF TimesKept
  <2>4. Covers(q.page, q.next)'
    BY <1>2, <1>4, <2>2, CoversKept
  <2>5. QED
    BY <1>9, <1>10, <2>1, <2>3, <2>4
<1>11. ASSUME ~overlapped PROVE ListFits'
  <2>1. ListFits /\ AnswerFits(q) /\ Len(queries) = 1
    BY <1>1, <1>3, <1>11 DEF ListInv, ListFits
  <2>2. Covers(shown, params) /\ (~stale => Sorted(old)')
    BY <1>1, <1>2, <1>4, <2>1, ArrivalsKeep DEF TimesKept, ListFits
  <2>3. CASE q.list > 0 /\ q.page # <<>>
    BY <1>10, <2>1, <2>3 DEF AnswerFits
  <2>4. CASE q.page = <<>>
    <3>0. ~StartsAfresh(q)
      BY <2>4 DEF StartsAfresh
    <3>1. shown' = old /\ params' = params /\ (stale' <=> stale)
      BY <1>2, <2>4, <3>0
    <3>2. wanted \subseteq ToSet(shown) /\ (~stale => Continues(shown, params))
      BY <2>1, <2>4 DEF AnswerFits
    <3>3. ~stale => Continues(shown, params)'
      BY <1>1, <1>4, <3>1, <3>2, ArrivalsKeep DEF TimesKept
    <3>4. Covers(shown, params)'
      BY <1>1, <1>2, <1>4, <2>2, <3>1, CoversKept
    <3>5. QED
      BY <1>1, <1>2, <1>9, <2>1, <2>2, <3>1, <3>2, <3>3, <3>4
  <2>5. CASE ~(q.list > 0) /\ q.page # <<>>
    <3>0. ~StartsAfresh(q)
      BY <1>4, <2>5 DEF StartsAfresh
    <3>1. shown' = old \o q.page /\ params' = q.next /\ (stale' <=> stale)
      BY <1>2, <2>5, <3>0
    <3>2. Covers(old \o q.page, q.next) /\ (~stale => Sorted(old \o q.page))
      BY <1>1, <2>1, <2>5 DEF AnswerFits
    <3>3. Covers(old \o q.page, q.next)' /\ (~stale => Sorted(old \o q.page)')
      BY <1>2, <1>4, <1>5, <3>2, ArrivalsKeep, CoversKept DEF TimesKept
    <3>4. Continues(old \o q.page, q.next)'
      <4>1. Continues(q.page, q.next)
        BY <1>4, <2>5 DEF PageFits
      <4>2. Continues(q.page, q.next)'
        BY <1>4, <4>1, ArrivalsKeep DEF TimesKept
      <4>3. (old \o q.page)[Len(old \o q.page)] = q.page[Len(q.page)]
        <5>1. /\ Len(old \o q.page) = Len(old) + Len(q.page) /\ Len(q.page) \in 1..Len(q.page)
          BY <1>4, <2>5, ListJoined, EmptySeq
        <5>2. QED
          BY <1>4, <5>1, ListJoined
      <4>4. QED
        BY <2>5, <4>2, <4>3 DEF Continues
    <3>5. QED
      BY <1>9, <2>1, <2>5, <3>1, <3>3, <3>4
  <2>6. QED
    BY <2>3, <2>4, <2>5
<1>12. ~overlapped' => ListFits'
  BY <1>2, <1>10, <1>11 DEF StartsAfresh
<1>13. QED
  BY <1>2, <1>4, <1>7, <1>8, <1>12 DEF ListInv

\* A query fails: the list stays.  If it was to be opened anew, its order is given up,
\* unless nothing is on show; the parameters leave out nothing either way.
LEMMA FailureKeeps ==
  ASSUME FeedType, FeedType', ScrollType, TimesKept, ListInv,
         NEW i \in DOMAIN queries, QueryFails(i)
  PROVE  ListInv'
<1>1. PICK q \in Query : q = queries[i]
  BY OldQueries
<1>2. /\ queries' = RemoveAt(queries, i)
      /\ stale' = (stale \/ (q.list > 0 /\ shown # <<>>))
      /\ UNCHANGED <<shown, params, wanted, overlapped, ended, refreshes>>
  BY <1>1 DEF QueryFails
<1>3. /\ queries' \in Seq(Query) /\ Len(queries') = Len(queries) - 1 /\ Len(queries) \in 1..2
      /\ \A j \in DOMAIN queries' : \E k \in DOMAIN queries : queries'[j] = queries[k]
      /\ queries # <<>>
  BY <1>2, AnswerTaken, OldQueries
<1>4. /\ shown \in Seq(Posts) /\ params \in Params /\ refreshes # 0
      /\ wanted \subseteq Received /\ ToSet(shown) \subseteq Received
  BY <1>3 DEF ScrollType, ListInv
<1>5. Received \subseteq Received'
  BY ArrivalsKeep DEF TimesKept
<1>6. \A j \in DOMAIN queries' : PageFits(queries[j])'
  <2>1. \A k \in DOMAIN queries : queries[k] \in Query /\ PageFits(queries[k])
    BY OldQueries DEF ListInv
  <2>2. \A r \in Query : PageFits(r) => PageFits(r)'
    BY <1>2, <1>4, PageKept
  <2>3. QED
    BY <1>3, <2>1, <2>2
<1>7. ASSUME ~overlapped PROVE ListFits'
  <2>1. ListFits /\ AnswerFits(q) /\ Len(queries) = 1
    BY <1>1, <1>3, <1>7 DEF ListInv, ListFits
  <2>2. Len(queries') <= 1 /\ queries' = <<>> /\ DOMAIN queries' = {}
    BY <1>3, <2>1, EmptySeq
  <2>3. Covers(shown, params)'
    BY <1>2, <1>4, <2>1, CoversKept DEF ListFits
  <2>4. ASSUME ~stale' PROVE Sorted(shown)' /\ Continues(shown, params)'
    <3>1. Sorted(shown)
      BY <1>2, <2>1, <2>4 DEF ListFits
    <3>2. Continues(shown, params)
      <4>1. CASE q.list > 0
        BY <1>2, <2>4, <4>1 DEF Continues
      <4>2. CASE ~(q.list > 0)
        BY <1>2, <2>1, <2>4, <4>2 DEF AnswerFits
      <4>3. QED
        BY <4>1, <4>2
    <3>3. QED
      BY <1>2, <1>4, <3>1, <3>2, ArrivalsKeep DEF TimesKept
  <2>5. ended' => wanted' \subseteq ToSet(shown')
    BY <1>2, <2>1 DEF ListFits
  <2>6. QED
    BY <2>2, <2>3, <2>4, <2>5 DEF ListFits
<1>8. QED
  BY <1>2, <1>4, <1>5, <1>6, <1>7 DEF ListInv

-----------------------------------------------------------------------------
(* Posts arrive in the reader's inbox.                                     *)

\* The thread of a post goes on: it may push the post to the reader, nothing else.
LEMMA MovedOnce ==
  ASSUME FeedInv, FeedInv', PushedOnce, UNCHANGED author,
         NEW w \in Publishers, NEW q \in Push, push' = [push EXCEPT ![w] = q],
         push[w].pc # "idle",
         q.pc # "idle" => q.post = push[w].post,
         q.pc # "list",
         q.left[Reader] > 0 => q.pc # "idle" /\ q.left[Reader] = 1 /\ Time(q.post)' = 0,
         \A b \in Posts : b # push[w].post => Time(b)' = Time(b)
  PROVE  PushedOnce'
<1>1. /\ FeedType /\ push'[w] = q /\ \A v \in Publishers \ {w} : push'[v] = push[v]
      /\ push[w].post \in Posted
      /\ \A v \in Publishers : OnItsWay(v) /\ OnItsWay(v)'
  BY BusyThread DEF FeedInv, FeedType
<1>2. Posted' = Posted /\ Posted \subseteq Posts /\ 0 \notin Posted
  BY <1>1, PostsSaved DEF Posted
<1>3. \A b \in Received' : b \in Posted'
  BY <1>1, <1>2 DEF PushedOnce, Received
<1>4. \A v \in Publishers \ {w} : push[v].post # push[w].post
  BY DEF PushedOnce
<1>5. ASSUME NEW u \in Publishers, NEW v \in Publishers,
             push'[u].pc # "idle", push'[u].post = push'[v].post
      PROVE  u = v
  <2>1. CASE u # w /\ v # w
    BY <1>1, <1>5, <2>1 DEF PushedOnce
  <2>2. CASE u = w /\ v # w
    BY <1>1, <1>4, <1>5, <2>2
  <2>3. CASE u # w /\ v = w
    <3>1. push[u].post \in Posted
      BY <1>1, <1>5, <2>3 DEF OnItsWay
    <3>2. q.pc = "idle" => q.post = 0
      BY <1>1 DEF OnItsWay
    <3>3. QED
      BY <1>1, <1>2, <1>4, <1>5, <2>3, <3>1, <3>2
  <2>4. QED
    BY <2>1, <2>2, <2>3
<1>6. ASSUME NEW v \in Publishers, v # w, push[v].pc # "idle"
      PROVE  Time(push[v].post)' = Time(push[v].post)
  <2>1. push[v].post \in Posts /\ push[v].post # push[w].post /\ push'[v] = push[v]
    BY <1>1, <1>2, <1>4, <1>6 DEF OnItsWay
  <2>2. QED
    BY <2>1
<1>7. ASSUME NEW v \in Publishers
      PROVE  /\ push'[v].pc = "list" => Time(push[v].post)' = 0
             /\ push'[v].left[Reader] > 0 =>
                   push'[v].pc # "idle" /\ push'[v].left[Reader] = 1 /\ Time(push[v].post)' = 0
  <2>1. CASE v = w
    BY <1>1, <2>1
  <2>2. CASE v # w
    BY <1>1, <1>6, <2>2 DEF PushedOnce
  <2>3. QED
    BY <2>1, <2>2
<1>8. QED
  BY <1>3, <1>5, <1>7 DEF PushedOnce

\* Where a thread is after a fan.
LEMMA Settled ==
  ASSUME NEW post \in 0..MaxPosts, NEW left \in [Fans -> 0..MaxRows]
  PROVE  LET q == Settle(post, left) IN
         /\ q \in Push /\ q.time = 0 /\ q.pc \in {"idle", "stamp"}
         /\ q.pc # "idle" => q.post = post
         /\ q.left[Reader] = left[Reader]
         /\ q.left[Reader] > 0 => q.pc # "idle"
<1>1. CASE left = NoFans
  BY <1>1, NoPushIsPush, ScrollConstants DEF Settle, NoPush, NoFans, At
<1>2. CASE left # NoFans
  BY <1>2, AtIsPush, FeedConstants DEF Settle, At
<1>3. QED
  BY <1>1, <1>2

ArrivalsInv == OneRowEach => PushedOnce

LEMMA SaveKeeps ==
  ASSUME FeedInv, FeedInv', ArrivalsInv, NEW w \in Publishers, NEW a \in Authors, SavePost(w, a),
         UNCHANGED followVars
  PROVE  ArrivalsInv' /\ TimesKept
<1>0. PICK k : k = Len(author) + 1
  OBVIOUS
<1> DEFINE n == Len(author)
           q == At("list", k, NoFans, 0)
<1>1. /\ push[w].pc = "idle" /\ n < MaxPosts /\ UNCHANGED inbox
      /\ push' = [push EXCEPT ![w] = q] /\ author' = Append(author, a)
      /\ FeedType /\ \A v \in Publishers : OnItsWay(v)
  BY <1>0 DEF SavePost, FeedInv
<1>2. /\ n \in Nat /\ Posted = 1..n /\ Posted \subseteq Posts
      /\ Posted \subseteq Posted' /\ k \in Posts /\ k \notin Posted /\ k # 0
  <2>1. n \in Nat /\ Posted = 1..n /\ Posted \subseteq Posts
    BY <1>1, PostsSaved
  <2>2. author \in Seq(Authors)
    BY <1>1, FeedConstants DEF FeedType
  <2>3. Posted' = 1..(n + 1)
    BY <1>1, <2>1, <2>2, AppendProperties, LenProperties DEF Posted
  <2>4. QED
    BY <1>0, <1>1, <2>1, <2>2, <2>3, FeedConstants DEF Posts
<1>3. /\ push'[w] = q /\ \A v \in Publishers \ {w} : push'[v] = push[v]
      /\ q.pc = "list" /\ q.post = k /\ q.time = 0 /\ q.left[Reader] = 0
  BY <1>1, ScrollConstants DEF FeedType, At, NoFans
<1>4. TimesKept /\ \A b \in Posts : Time(b)' = Time(b)
  BY <1>1 DEF TimesKept, Time
<1> HIDE DEF q
<1>5. ASSUME PushedOnce PROVE PushedOnce'
  <2>1. Received' = Received /\ Received \subseteq Posted
    BY <1>4, <1>5 DEF PushedOnce, Received
  <2>2. Time(k)' = 0
    <3>1. k \notin Posted
      BY <1>2
    <3>2. k \notin Received
      BY <2>1, <3>1
    <3>3. ~(Time(k) > 0)
      BY <1>2, <3>2 DEF Received
    <3>4. Time(k) \in Nat
      BY <1>1, <1>2, InboxValues
    <3>5. Time(k) = 0
      BY <3>3, <3>4
    <3>6. QED
      BY <1>2, <1>4, <3>5
  <2>3. \A v \in Publishers \ {w} : push[v].post # k /\ (push[v].pc # "idle" => push[v].post \in Posts)
    <3>1. \A v \in Publishers : push[v].post = 0 \/ push[v].post \in Posted
      BY <1>1 DEF OnItsWay
    <3>2. k \notin Posted /\ k # 0
      BY <1>2
    <3>3. \A v \in Publishers : push[v].pc # "idle" => push[v].post \in Posts
      BY <1>1, <1>2 DEF OnItsWay
    <3>4. QED
      BY <3>1, <3>2, <3>3
  <2>4. ASSUME NEW u \in Publishers, NEW v \in Publishers,
               push'[u].pc # "idle", push'[u].post = push'[v].post
        PROVE  u = v
    BY <1>3, <1>5, <2>3, <2>4 DEF PushedOnce
  <2>5. ASSUME NEW v \in Publishers
        PROVE  /\ push'[v].pc = "list" => Time(push[v].post)' = 0
               /\ push'[v].left[Reader] > 0 =>
                     push'[v].pc # "idle" /\ push'[v].left[Reader] = 1 /\ Time(push[v].post)' = 0
    <3>1. CASE v = w
      <4>1. push'[v].post = k /\ ~(push'[v].left[Reader] > 0)
        BY <1>3, <3>1
      <4>2. Time(push[v].post)' = 0
        BY <2>2, <4>1
      <4>3. QED
        BY <4>1, <4>2
    <3>2. CASE v # w
      <4>1. push'[v] = push[v]
        BY <1>3, <3>2
      <4>2. push[v].pc # "idle" => Time(push[v].post)' = Time(push[v].post)
        BY <1>4, <2>3, <3>2, <4>1
      <4>3. QED
        BY <1>5, <4>1, <4>2 DEF PushedOnce
    <3>3. QED
      BY <3>1, <3>2
  <2>6. QED
    BY <1>2, <2>1, <2>4, <2>5 DEF PushedOnce
<1>6. QED
  BY <1>4, <1>5 DEF ArrivalsInv, OneRowEach, followVars

LEMMA ListKeeps ==
  ASSUME FeedInv, FeedInv', ArrivalsInv, NEW w \in Publishers, ListFans(w), UNCHANGED followVars
  PROVE  ArrivalsInv' /\ TimesKept
<1>1. PICK post \in 0..MaxPosts, left \in [Fans -> 0..MaxRows] :
        /\ push[w].pc = "list" /\ post = push[w].post /\ post \in Posted
        /\ left[Reader] = rows[<<Reader, author[post]>>] /\ author[post] \in Authors
        /\ push' = [push EXCEPT ![w] = Settle(post, left)]
        /\ UNCHANGED <<author, inbox>>
  <2> DEFINE b == push[w].post
             left == FansInTable(author[b])
  <2>1. /\ push[w].pc = "list" /\ push' = [push EXCEPT ![w] = Settle(b, left)]
        /\ UNCHANGED <<author, inbox>>
    BY DEF ListFans
  <2>2. b \in Posted /\ b \in 0..MaxPosts /\ author[b] \in Authors
    BY <2>1, BusyThread
  <2>3. left \in [Fans -> 0..MaxRows] /\ left[Reader] = rows[<<Reader, author[b]>>]
    <3>1. \A f \in Fans : <<f, author[b]>> \in Pairs
      BY <2>2 DEF Pairs
    <3>2. QED
      BY <3>1, ScrollConstants DEF FansInTable, FeedInv, FollowInv, FollowType
  <2> HIDE DEF left
  <2>4. QED
    BY <2>1, <2>2, <2>3
<1>2. PICK q \in Push :
        /\ q = Settle(post, left) /\ q.time = 0 /\ q.pc \in {"idle", "stamp"}
        /\ q.pc # "idle" => q.post = post
        /\ q.left[Reader] = left[Reader] /\ (q.left[Reader] > 0 => q.pc # "idle")
  BY Settled
<1>3. TimesKept /\ \A b \in Posts : Time(b)' = Time(b)
  BY <1>1 DEF TimesKept, Time
<1>4. push'[w] = q /\ \A v \in Publishers \ {w} : push'[v] = push[v]
  BY <1>1, <1>2 DEF FeedInv, FeedType
<1>5. ASSUME OneRowEach, PushedOnce PROVE PushedOnce'
  <2>1. left[Reader] \in 0..MaxRows /\ left[Reader] <= 1
    BY <1>1, <1>5, ScrollConstants DEF OneRowEach
  <2>2. q.left[Reader] > 0 => q.left[Reader] = 1
    BY <1>2, <2>1, FollowConstants
  <2>3. post \in Posts /\ Time(post) = 0
    BY <1>1, <1>5, PostsSaved DEF FeedInv, PushedOnce
  <2>4. q.left[Reader] > 0 => Time(q.post)' = 0
    BY <1>2, <1>3, <2>3
  <2>5. push' = [push EXCEPT ![w] = q] /\ UNCHANGED author
    BY <1>1, <1>2
  <2>6. QED
    BY <1>1, <1>2, <1>3, <1>5, <2>2, <2>4, <2>5, MovedOnce
<1>6. QED
  BY <1>3, <1>5 DEF ArrivalsInv, OneRowEach, followVars

LEMMA StampKeeps ==
  ASSUME FeedInv, FeedInv', ArrivalsInv, NEW w \in Publishers, ReadTime(w), UNCHANGED followVars
  PROVE  ArrivalsInv' /\ TimesKept
<1>1. PICK q \in Push :
        /\ push[w].pc = "stamp" /\ q.pc = "zadd" /\ q.post = push[w].post
        /\ q.left = push[w].left
        /\ push' = [push EXCEPT ![w] = q] /\ UNCHANGED <<author, inbox>>
        /\ q.post \in Posted /\ q.post \in Posts
  <2>0. PICK time \in 1..MaxTime :
          /\ push[w].pc = "stamp"
          /\ push' = [push EXCEPT ![w] = At("zadd", push[w].post, push[w].left, time)]
          /\ UNCHANGED <<author, inbox>>
    BY DEF ReadTime
  <2> DEFINE p == push[w]
             q == At("zadd", p.post, p.left, time)
  <2>1. p.pc = "stamp" /\ push' = [push EXCEPT ![w] = q] /\ UNCHANGED <<author, inbox>>
    BY <2>0
  <2>2. p.post \in Posted /\ p.post \in Posts /\ p.post \in 0..MaxPosts /\ p.left \in [Fans -> 0..MaxRows]
    BY <2>1, BusyThread
  <2>3. time \in 0..MaxTime
    BY FeedConstants
  <2>4. q \in Push /\ q.pc = "zadd" /\ q.post = p.post /\ q.left = p.left
    BY <2>2, <2>3, AtIsPush DEF At
  <2> HIDE DEF q
  <2>5. QED
    BY <2>1, <2>2, <2>4
<1>2. TimesKept /\ \A b \in Posts : Time(b)' = Time(b)
  BY <1>1 DEF TimesKept, Time
<1>3. push'[w] = q /\ \A v \in Publishers \ {w} : push'[v] = push[v]
  BY <1>1 DEF FeedInv, FeedType
<1>4. ASSUME PushedOnce PROVE PushedOnce'
  <2>1. q.left[Reader] > 0 => q.left[Reader] = 1 /\ Time(q.post)' = 0
    BY <1>1, <1>2, <1>4 DEF PushedOnce
  <2>2. QED
    BY <1>1, <1>2, <1>4, <2>1, MovedOnce
<1>5. QED
  BY <1>2, <1>4 DEF ArrivalsInv, OneRowEach, followVars

LEMMA PushKeeps ==
  ASSUME FeedInv, FeedInv', ArrivalsInv, NEW w \in Publishers, PushToFan(w), UNCHANGED followVars
  PROVE  ArrivalsInv' /\ (OneRowEach => TimesKept)
<1>1. PICK f \in Fans, post \in 0..MaxPosts, time \in 0..MaxTime, left \in [Fans -> 0..MaxRows] :
        /\ push[w].pc = "zadd" /\ push[w].left[f] > 0
        /\ post = push[w].post /\ time = push[w].time /\ post \in Posted /\ post \in Posts
        /\ inbox' = [inbox EXCEPT ![f] = [inbox[f] EXCEPT ![post] = time]]
        /\ push[w].left \in [Fans -> 0..MaxRows]
        /\ left = [push[w].left EXCEPT ![f] = @ - 1]
        /\ push' = [push EXCEPT ![w] = Settle(post, left)]
        /\ UNCHANGED author
  <2>1. PICK f \in Fans :
          /\ push[w].pc = "zadd" /\ push[w].left[f] > 0 /\ Deliver(w, f)
          /\ push' = [push EXCEPT ![w] = Settle(push[w].post, [push[w].left EXCEPT ![f] = @ - 1])]
          /\ UNCHANGED author
    BY DEF PushToFan
  <2>2. /\ push[w].post \in Posted /\ push[w].post \in Posts /\ push[w].post \in 0..MaxPosts
        /\ push[w].left \in [Fans -> 0..MaxRows] /\ push[w].time \in 0..MaxTime
    BY <2>1, BusyThread
  <2>3. [push[w].left EXCEPT ![f] = @ - 1] \in [Fans -> 0..MaxRows]
    BY <2>1, <2>2, FollowConstants
  <2>4. QED
    BY <2>1, <2>2, <2>3 DEF Deliver
<1>2. PICK q \in Push :
        /\ q = Settle(post, left) /\ q.time = 0 /\ q.pc \in {"idle", "stamp"}
        /\ q.pc # "idle" => q.post = post
        /\ q.left[Reader] = left[Reader] /\ (q.left[Reader] > 0 => q.pc # "idle")
  BY Settled
<1>3. push'[w] = q /\ \A v \in Publishers \ {w} : push'[v] = push[v]
  BY <1>1, <1>2 DEF FeedInv, FeedType
<1>4. \A b \in Posts : Time(b)' = IF f = Reader /\ b = post THEN time ELSE Time(b)
  BY <1>1, ScrollConstants, FeedConstants DEF Time, FeedInv, FeedType
<1>5. ASSUME PushedOnce PROVE PushedOnce' /\ TimesKept
  <2>1. /\ q.left[Reader] \in 0..MaxRows
        /\ q.left[Reader] = IF f = Reader THEN push[w].left[Reader] - 1 ELSE push[w].left[Reader]
    BY <1>1, <1>2, ScrollConstants
  <2>2. push[w].left[Reader] > 0 => push[w].left[Reader] = 1 /\ Time(post) = 0
    BY <1>1, <1>5 DEF PushedOnce
  <2>3. q.left[Reader] > 0 => f # Reader /\ q.left[Reader] = 1 /\ Time(post) = 0
    BY <1>1, <2>1, <2>2
  <2>4. q.left[Reader] > 0 => q.pc # "idle" /\ q.left[Reader] = 1 /\ Time(q.post)' = 0
    BY <1>1, <1>2, <1>4, <2>3
  <2>5. push' = [push EXCEPT ![w] = q] /\ UNCHANGED author /\ q.pc # "list"
    BY <1>1, <1>2
  <2>6. \A b \in Posts : b # push[w].post => Time(b)' = Time(b)
    BY <1>1, <1>4
  <2>7. PushedOnce'
    BY <1>1, <1>2, <1>5, <2>4, <2>5, <2>6, MovedOnce
  <2>8. TimesKept
    BY <1>1, <1>4, <2>2 DEF TimesKept
  <2>9. QED
    BY <2>7, <2>8
<1>6. QED
  BY <1>5 DEF ArrivalsInv, OneRowEach, followVars

-----------------------------------------------------------------------------
(* The parts together.                                                     *)

CommunityInv ==
    /\ part \in {"likes", "follows", "scroll"}
    /\ LikesInv
    /\ FeedInv
    /\ ScrollType
    /\ InboxInv
    /\ ScrollInv

LEMMA EmptyList ==
  ASSUME shown = <<>>, wanted = {}, queries = <<>>, ~ended
  PROVE  /\ \A p : Continues(shown, p) /\ Covers(shown, p)
         /\ Sorted(shown) /\ ToSet(shown) = {} /\ ListFits
<1>1. DOMAIN shown = {} /\ DOMAIN queries = {} /\ Len(queries) = 0
  BY EmptySeq
<1>2. \A p : Continues(shown, p) /\ Covers(shown, p)
  BY DEF Continues, Covers
<1>3. Sorted(shown) /\ ToSet(shown) = {}
  BY <1>1 DEF Sorted, ToSet
<1>4. ListFits
  BY <1>1, <1>2, <1>3 DEF ListFits
<1>5. QED
  BY <1>2, <1>3, <1>4

LEMMA CommunityInitInv == Init => CommunityInv
<1> SUFFICES ASSUME Init PROVE CommunityInv
  OBVIOUS
<1>1. part \in {"likes", "follows", "scroll"} /\ LikesInv /\ FeedInv
  BY LikesInvHolds, FeedInitInv DEF Init
<1>2. /\ shown = <<>> /\ params = NoParams /\ queries = <<>> /\ wanted = {}
      /\ overlapped = FALSE /\ stale = FALSE /\ ended = FALSE
      /\ refreshes = 0 /\ queryFaults = 0
  BY DEF Init, ScrollInit
<1>3. NoParams \in Params
  BY FeedConstants DEF NoParams, Params
<1>4. ScrollType
  <2>1. Len(queries) <= 2
    <3>1. Len(queries) = 0
      BY <1>2, EmptySeq
    <3>2. QED
      BY <3>1
  <2>2. shown \in Seq(Posts) /\ queries \in Seq([list : 0..MaxRefreshes, page : Seq(Posts), next : Params])
    BY <1>2, EmptySeq
  <2>3. /\ params \in Params /\ wanted \in SUBSET Posts
        /\ refreshes \in 0..MaxRefreshes /\ queryFaults \in 0..MaxQueryFaults
    BY <1>2, <1>3, ScrollConstants
  <2>4. overlapped \in BOOLEAN /\ stale \in BOOLEAN /\ ended \in BOOLEAN
    BY <1>2
  <2>5. QED
    BY <2>1, <2>2, <2>3, <2>4 DEF ScrollType
<1>5. /\ author = <<>> /\ Received = {} /\ \A b \in Posts : Time(b) = 0
      /\ \A w \in Publishers : push[w] = NoPush
  BY ScrollConstants DEF Init, FeedInit, Received, Time
<1>6. ArrivalsInv
  <2>1. NoPush.time = 0 /\ NoPush.pc = "idle" /\ ~(NoPush.left[Reader] > 0)
    BY ScrollConstants DEF NoPush, At, NoFans
  <2>2. QED
    BY <1>5, <2>1 DEF ArrivalsInv, PushedOnce
<1>7. ListInv
  <2>1. DOMAIN queries = {}
    BY <1>2, EmptySeq
  <2>2. QED
    BY <1>2, <2>1, EmptyList DEF ListInv
<1>8. NobodyReads
  BY <1>2 DEF NobodyReads
<1>9. QED
  BY <1>1, <1>4, <1>6, <1>7, <1>8 DEF CommunityInv, InboxInv, ScrollInv, ArrivalsInv

\* Nothing happens in the inboxes, nor to the reader's list.
LEMMA ReadingUntouched ==
  ASSUME CommunityInv, LikesInv', FeedInv', UNCHANGED <<part, scrollVars>>,
         part = "scroll" => ArrivalsInv' /\ OneRowEach' = OneRowEach /\ (OneRowEach => TimesKept)
  PROVE  CommunityInv'
<1>1. ScrollType'
  BY DEF CommunityInv, ScrollType, scrollVars
<1>2. part = "scroll" => ScrollInv'
  <2>1. FeedType /\ FeedType'
    BY DEF CommunityInv, FeedInv
  <2>2. QED
    BY <2>1, ListStays DEF CommunityInv, ScrollInv
<1>3. part # "scroll" => ScrollInv'
  BY DEF CommunityInv, ScrollInv, NobodyReads, scrollVars
<1>4. InboxInv'
  BY DEF InboxInv, ArrivalsInv
<1>5. QED
  BY <1>1, <1>2, <1>3, <1>4 DEF CommunityInv

LEMMA CommunityStepInv == CommunityInv /\ [Next]_vars => CommunityInv'
<1> SUFFICES ASSUME CommunityInv, [Next]_vars PROVE CommunityInv'
  OBVIOUS
<1>0. LikesInv /\ FeedInv /\ ScrollType /\ FeedType
  BY DEF CommunityInv, FeedInv
<1>1. UNCHANGED likeVars => LikesInv'
  BY <1>0, LikesInvHolds
<1>2. ASSUME UNCHANGED allFeedVars
      PROVE  FeedInv' /\ OneRowEach' = OneRowEach /\ TimesKept /\ (ArrivalsInv => ArrivalsInv')
  <2>1. FeedInv'
    BY <1>0, <1>2, FeedStepInv DEF allFeedVars
  <2>2. QED
    BY <1>2, <2>1 DEF allFeedVars, followVars, feedVars, OneRowEach, TimesKept, Time,
       ArrivalsInv, PushedOnce, Received, Posted
<1>3. ASSUME part = "scroll" PROVE ArrivalsInv
  BY <1>3 DEF CommunityInv, InboxInv, ArrivalsInv
<1>4. CASE LikeStep
  <2>1. LikesInv' /\ UNCHANGED <<part, scrollVars>> /\ part # "scroll"
    BY <1>0, <1>4, LikesInvHolds DEF LikeStep
  <2>2. FeedInv'
    BY <1>2, <1>4 DEF LikeStep
  <2>3. QED
    BY <2>1, <2>2, ReadingUntouched
<1>5. CASE PublishAndFollow
  <2>1. LikesInv' /\ UNCHANGED <<part, scrollVars>> /\ part # "scroll"
    BY <1>1, <1>5 DEF PublishAndFollow
  <2>2. FeedInv'
    BY <1>0, <1>5, FeedStepInv DEF PublishAndFollow
  <2>3. QED
    BY <2>1, <2>2, ReadingUntouched
<1>6. CASE Publish
  <2>1. /\ LikesInv' /\ UNCHANGED <<part, scrollVars>> /\ part = "scroll"
        /\ PublishStep
        /\ UNCHANGED followVars
    BY <1>1, <1>6 DEF Publish
  <2>2. FeedInv'
    BY <1>0, <2>1, FeedStepInv DEF FeedNext
  <2>3. OneRowEach' = OneRowEach
    BY <2>1 DEF OneRowEach, followVars
  <2>4. ArrivalsInv' /\ (OneRowEach => TimesKept)
    BY <1>0, <1>3, <2>1, <2>2, SaveKeeps, ListKeeps, StampKeeps, PushKeeps DEF PublishStep
  <2>5. QED
    BY <2>1, <2>2, <2>3, <2>4, ReadingUntouched
<1>7. CASE Read
  <2>1. /\ part = "scroll" /\ UNCHANGED <<part, likeVars, allFeedVars>> /\ ReadStep
    BY <1>7 DEF Read, Reading
  <2>2. LikesInv' /\ FeedInv' /\ OneRowEach' = OneRowEach /\ TimesKept /\ ArrivalsInv' /\ ArrivalsInv
    BY <1>1, <1>2, <1>3, <2>1
  <2>3. FeedType' /\ ScrollType'
    BY <1>0, <2>1, <2>2, ReadType DEF FeedInv
  <2>4. ASSUME ListInv PROVE ListInv'
    BY <1>0, <2>1, <2>2, <2>3, <2>4, RefreshKeeps, NextPageKeeps, AnswerKeeps,
       FailureKeeps
       DEF ReadStep, ArrivalsInv
  <2>5. QED
    BY <2>1, <2>2, <2>3, <2>4 DEF CommunityInv, ScrollInv, InboxInv, ArrivalsInv
<1>8. CASE UNCHANGED vars
  <2>1. UNCHANGED <<part, scrollVars>> /\ UNCHANGED likeVars /\ UNCHANGED allFeedVars
    BY <1>8 DEF vars
  <2>2. QED
    BY <1>1, <1>2, <1>3, <2>1, ReadingUntouched
<1>9. QED
  BY <1>4, <1>5, <1>6, <1>7, <1>8 DEF Next

\* BlogServiceImpl.queryBlogOfFollow and the list of info.html: the reader sees the
\* newest posts first and none twice, whatever times arriving posts have, whatever the
\* browser's clock shows and whichever pages fail or time out, unless posts share a
\* time, the author has two rows for it, its queries overlap, or the list on show is
\* one whose renewal failed.
THEOREM ScrollInOrder == Spec => []ShownInOrder
<1>1. CommunityInv => ShownInOrder
  <2>1. CommunityInv /\ part # "scroll" => DOMAIN shown = {}
    BY EmptySeq DEF CommunityInv, ScrollInv, NobodyReads
  <2>2. QED
    BY <2>1 DEF CommunityInv, ScrollInv, ListInv, ListFits, Sorted, ShownInOrder
<1>2. QED
  BY <1>1, CommunityInitInv, CommunityStepInv, PTL DEF Spec

\* BlogServiceImpl.queryBlogOfFollow with its offset: a scroll that has come to its
\* end has shown every post that was in the inbox when the list was opened and whose
\* time the browser asked for (its own clock's, and earlier ones), posts with equal
\* times too, also after queries that failed, an opening among them, unless two of the
\* reader's queries overlapped.
THEOREM ScrollIsComplete == Spec => []NothingSkipped
<1>1. CommunityInv => NothingSkipped
  BY DEF CommunityInv, ScrollInv, NobodyReads, ListInv, ListFits, NothingSkipped
<1>2. QED
  BY <1>1, CommunityInitInv, CommunityStepInv, PTL DEF Spec

\* Likes, follows and the feed keep in the runs' specification what they promise on
\* their own, and the state has its type.
THEOREM CommunityKeepsPromises ==
  Spec => [](TypeOK /\ CounterAgreesWithSet /\ LikeCanBeCancelled /\ TableAgreesWithSet
             /\ PublishedReachesFollowers)
<1>1. CommunityInv => TypeOK /\ CounterAgreesWithSet /\ LikeCanBeCancelled /\ PublishedReachesFollowers
  BY LikesInvHolds DEF CommunityInv, FeedInv, FollowInv, TypeOK
<1>2. CommunityInv => TableAgreesWithSet
  BY DEF CommunityInv, FeedInv, FollowInv, TableAgreesWithSet, AgreeUntilWritten
<1>3. QED
  BY <1>1, <1>2, CommunityInitInv, CommunityStepInv, PTL DEF Spec
=============================================================================
