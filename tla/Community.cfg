SPECIFICATION Spec
CONSTANTS
    Users = {u1, u2}
    Servers = {s1, s2}
    MaxClicks = 4
    MaxFaults = 1
    Fans = {f1, f2}
    Authors = {a}
    Workers = {w1, w2}
    NoPair = nopair
    MaxRows = 2
    MaxFollows = 3
    MaxFollowFaults = 1
    Publishers = {p1}
    MaxPosts = 3
    MaxTime = 3
    MaxPushFaults = 1
    PostsWhileFollowing = 1
    TimesWhileFollowing = 1
    RowsWhileScrolling = 1
    Reader = f1
    Clocks = {1, 3}
    MaxRefreshes = 2
    MaxShown = 7
    MaxQueryFaults = 1
CHECK_DEADLOCK FALSE
INVARIANTS TypeOK CounterAgreesWithSet LikeCanBeCancelled TableAgreesWithSet
INVARIANTS PublishedReachesFollowers ShownInOrder NothingSkipped
PROPERTIES ScrollEnds
