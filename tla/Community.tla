----------------------------- MODULE Community -----------------------------
(***************************************************************************)
(* The social part: likes; follows while posts are published; and posts    *)
(* published while their reader scrolls.  Likes share no state with the    *)
(* rest, and a reader sees no more of follows than the rows with which it  *)
(* starts, so each behaviour exercises one of the three.                   *)
(***************************************************************************)
EXTENDS Likes, Scroll

CONSTANTS
    PostsWhileFollowing,   \* bound on the posts while follows change
    TimesWhileFollowing,   \* bound on their times, which nobody compares then
    RowsWhileScrolling     \* bound on the rows of the reader who scrolls

VARIABLE part   \* what a behaviour is about

allFeedVars == <<followVars, feedVars>>
vars == <<part, likeVars, allFeedVars, scrollVars>>

Init ==
    /\ part \in {"likes", "follows", "scroll"}
    /\ LikeInit /\ FollowInit /\ FeedInit /\ ScrollInit
    /\ part = "likes" => \A p \in Pairs : rows[p] = 0
    /\ part = "scroll" => \A p \in Pairs : rows[p] <= IF p[1] = Reader THEN RowsWhileScrolling ELSE 0

LikeStep ==
    /\ part = "likes"
    /\ LikeNext
    /\ UNCHANGED <<part, allFeedVars, scrollVars>>

PublishAndFollow ==
    /\ part = "follows"
    /\ FeedNext
    /\ Len(author') <= PostsWhileFollowing
    /\ \A w \in Publishers : push'[w].time <= TimesWhileFollowing
    /\ UNCHANGED <<part, likeVars, scrollVars>>

Publish ==
    /\ part = "scroll"
    /\ PublishStep
    /\ UNCHANGED <<part, likeVars, followVars, scrollVars>>

Reading == part = "scroll" /\ UNCHANGED <<part, likeVars, allFeedVars>>

Read == Reading /\ ReadStep

Next == LikeStep \/ PublishAndFollow \/ Publish \/ Read

\* The user scrolls on to the end, and requests are answered (or fail, finitely often).
Fairness ==
    /\ WF_vars(Reading /\ NextPage)
    /\ \A i \in 1..2 : WF_vars(Reading /\ Answer(i))

Spec == Init /\ [][Next]_vars /\ Fairness

\* The shape of the state.
TypeOK == LikeType /\ FollowType /\ FeedType /\ ScrollType
=============================================================================
