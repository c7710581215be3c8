SPECIFICATION Spec
CONSTANTS
    c1 = c1
    c2 = c2
    t1 = t1
    t2 = t2
    Clients = {c1, c2}
    Threads = {t1, t2}
    Nobody = nobody
    Scenes <- SmallScenes
    MaxTokens = 4
    MaxFaults = 1
    MaxLapses = 1
    Months = 2
    MonthLength = 3
    Callers = {i1, i2}
    NoCall = nocall
    Prefixes = {order}
    Width = 3
    DayLength = 2
    LastSecond = 2
    MaxDraws = 3
    MaxIds = 2
    Owners = {o1, o2, o3}
    Unlocked = unlocked
    DeadOwner = dead
CHECK_DEADLOCK FALSE
INVARIANTS TypeOK RunsAsItsSession HeldSessionsEnd StreakIsConsecutive
INVARIANTS UniquePerPrefix SortedByCreation OneHolderWithinLease
PROPERTIES SentAwayWithoutSession EndsOnlyOwnHold ClientsGetIn
