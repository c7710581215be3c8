------------------------------- MODULE Scroll -------------------------------
(***************************************************************************)
(* The inbox as its owner reads it: queryBlogOfFollow on the server, which *)
(* answers two posts from the greatest time asked for on, and the tab of   *)
(* info.html, which asks again from the last time it has seen, leaving out *)
(* as many posts of that time as the answer told it to.  Posts arrive;     *)
(* answers may come late, or never; and the browser's clock, from which a  *)
(* list starts, is not the clock of the instances that timed the posts.    *)
(***************************************************************************)
EXTENDS Feed, SequencesExt

CONSTANTS
    Reader,        \* the fan who reads
    Clocks,        \* times the browser's clock may show
    MaxRefreshes,  \* bound on how often the list is opened anew
    MaxShown,      \* bound on the posts in the list and to come
    MaxQueryFaults \* bound on failing queries

ASSUME ScrollConstants ==
    /\ Reader \in Fans /\ Clocks \subseteq 0..MaxTime
    /\ MaxRefreshes \in Nat /\ MaxShown \in Nat /\ MaxQueryFaults \in Nat

VARIABLES
    shown,       \* blogs2: the posts in the list
    params,      \* params.minTime and params.offset
    queries,     \* answers under way, with the parameters they bring
    wanted,      \* posts in the inbox when the list was last opened, up to the time asked for (history)
    overlapped,  \* have two queries been under way at once since the list began? (history)
    stale,       \* is the list on show from before an opening that failed? (history)
    ended,       \* has the last answer been empty?
    refreshes,
    queryFaults

scrollVars ==
    <<shown, params, queries, wanted, overlapped, stale, ended, refreshes, queryFaults>>

PageSize == 2
NoParams == [minTime |-> 0, offset |-> 0]

ScrollInit ==
    /\ shown = <<>>
    /\ params = NoParams
    /\ queries = <<>>
    /\ wanted = {}
    /\ overlapped = FALSE
    /\ stale = FALSE
    /\ ended = FALSE
    /\ refreshes = 0
    /\ queryFaults = 0

Time(b) == inbox[Reader][b]
Received == {b \in Posts : Time(b) > 0}

\* Mutant: nothing is left out of the next page.
NoTies(page) == 0

\* Mutant: the offset is the length of the page.
PageLength(page) == Len(page)

\* How many posts at the end of the page have the time of its last one.
LastTies(page) == Cardinality({i \in DOMAIN page : Time(page[i]) = Time(page[Len(page)])})

\* The order of ZREVRANGEBYSCORE: later times first, and the members of one time in
\* some fixed order, here the greater first.
Before(b, c) == Time(b) > Time(c) \/ (Time(b) = Time(c) /\ b > c)

UpTo(max) == {b \in Received : Time(b) <= max}

\* How many posts come before b in the answer without a LIMIT.
Rank(b, max) == Cardinality({c \in UpTo(max) : Before(c, b)})

\* ZREVRANGEBYSCORE feed:<reader> max 0 LIMIT offset 2
RevRange(max, offset) ==
    [i \in {j \in 1..PageSize : offset + j <= Cardinality(UpTo(max))} |->
        CHOOSE b \in UpTo(max) : Rank(b, max) = offset + i - 1]

\* The request, and the page the server reads for it: a post that arrives between
\* the two might as well have arrived before both.  list is the number of the list
\* to start, or 0 for a page that continues the list on show.
Ask(list, max, offset) ==
    LET page == RevRange(max, offset)
        last == Time(page[Len(page)]) IN
    /\ Len(queries) < 2
    /\ queries' = Append(queries,
          [list |-> list, page |-> page,
           next |-> IF page = <<>> THEN NoParams ELSE [minTime |-> last, offset |-> LastTies(page)]])

\* At the top of the list, or on opening the tab: from the time of the browser's
\* clock on.  The parameters change at once, the list when the answer comes.
Refresh == \E clock \in Clocks :
    /\ refreshes < MaxRefreshes
    /\ Ask(refreshes + 1, clock + 1, 0)
    /\ params' = [minTime |-> clock + 1, offset |-> 0]
    /\ wanted' = UpTo(clock + 1)
    /\ overlapped' = (overlapped \/ queries # <<>>)
    /\ ended' = FALSE
    /\ refreshes' = refreshes + 1
    /\ UNCHANGED <<shown, stale, queryFaults>>

\* Mutant: the flag isReachBottom is cleared by an answer, and not when a query fails.
NextPageUnlessFailed ==
    /\ queryFaults = 0
    /\ params.minTime > 0 /\ Len(shown) + PageSize * Len(queries) < MaxShown
    /\ Ask(0, params.minTime, params.offset)
    /\ overlapped' = (overlapped \/ queries # <<>>)
    /\ UNCHANGED <<shown, params, wanted, stale, ended, refreshes, queryFaults>>

\* At the bottom of the list; the flag isReachBottom does not wait for the answer.
NextPage ==
    /\ params.minTime > 0 /\ Len(shown) + PageSize * Len(queries) < MaxShown
    /\ Ask(0, params.minTime, params.offset)
    /\ overlapped' = (overlapped \/ queries # <<>>)
    /\ UNCHANGED <<shown, params, wanted, stale, ended, refreshes, queryFaults>>

\* The first page of the newest list, with no other answer to come: it ends the
\* effects of an overlap and of a failure.
StartsAfresh(q) == q.list = refreshes /\ q.page # <<>> /\ Len(queries) = 1

\* The answer arrives; an empty one changes nothing in the list.
ReceivePage(i) ==
    LET q == queries[i] IN
    /\ shown' = IF q.page = <<>> THEN shown ELSE IF q.list > 0 THEN q.page ELSE shown \o q.page
    /\ params' = IF q.page = <<>> THEN params ELSE q.next
    /\ ended' = (q.page = <<>>)
    /\ overlapped' = (overlapped /\ ~StartsAfresh(q))
    /\ stale' = (stale /\ ~StartsAfresh(q))
    /\ queries' = RemoveAt(queries, i)
    /\ UNCHANGED <<wanted, refreshes, queryFaults>>

\* The query fails, or has no answer within two seconds: it is logged and no more.
\* The list stays as it is; if it was to be opened anew, the parameters are those of
\* the new list already.
QueryFails(i) ==
    /\ queryFaults < MaxQueryFaults
    /\ stale' = (stale \/ (queries[i].list > 0 /\ shown # <<>>))
    /\ queries' = RemoveAt(queries, i)
    /\ queryFaults' = queryFaults + 1
    /\ UNCHANGED <<shown, params, wanted, overlapped, ended, refreshes>>

Answer(i) == i \in DOMAIN queries /\ ReceivePage(i)

ReadStep ==
    \/ Refresh
    \/ NextPage
    \/ \E i \in DOMAIN queries : ReceivePage(i)
    \/ \E i \in DOMAIN queries : QueryFails(i)

-----------------------------------------------------------------------------
Params == [minTime : 0..MaxTime + 1, offset : Nat]

ScrollType ==
    /\ shown \in Seq(Posts)
    /\ params \in Params
    /\ queries \in Seq([list : 0..MaxRefreshes, page : Seq(Posts), next : Params]) /\ Len(queries) <= 2
    /\ wanted \in SUBSET Posts
    /\ overlapped \in BOOLEAN /\ stale \in BOOLEAN /\ ended \in BOOLEAN
    /\ refreshes \in 0..MaxRefreshes
    /\ queryFaults \in 0..MaxQueryFaults

\* The reader has one row for each author, so no post is pushed to it twice.
OneRowEach == \A a \in Authors : rows[<<Reader, a>>] <= 1

DistinctTimes == \A b, c \in Received : Time(b) = Time(c) => b = c

\* Scrolling shows the newest first and nothing twice, while posts go on arriving
\* with times of any order, pages fail or time out and are asked for again, and the
\* list is opened anew: as long as the posts have times of their own, no two queries
\* of the tab overlapped, and the list is not one whose renewal failed.  (After such a
\* failure the next page is the first of the new list, put at the end of the old.)
ShownInOrder ==
    DistinctTimes /\ OneRowEach /\ ~overlapped /\ ~stale =>
        \A i, j \in DOMAIN shown : i < j => Time(shown[i]) > Time(shown[j])

\* A scroll that has come to its end has shown every post that was in the inbox at
\* its start with a time up to the one asked for, those with equal times too, and
\* whichever queries failed meanwhile.  (Posts with times beyond the browser's clock
\* are not asked for: a browser that is behind does not show the newest posts.)
NothingSkipped ==
    ended /\ OneRowEach /\ ~overlapped => wanted \subseteq ToSet(shown)

\* Scrolling on comes to an end, unless posts have equal times (then the offset,
\* which counts within one page, may lead to the same page for ever), also when some
\* queries fail: the user scrolls on, from the old list or the new.
ScrollEnds ==
    [](params.minTime > 0 => <>(ended \/ overlapped \/ ~OneRowEach \/ ~DistinctTimes))
=============================================================================
