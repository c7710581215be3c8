SPECIFICATION FairSpec
CONSTANTS
    Users = {u1, u2}
    Vouchers = {v1, v2}
    Instances = {a}
    Requests = {r1, r2}
    Free = free
    Orphan = orphan
    Nil = nil
    Stock <- OneEach
    MaxFaults = 1
    MaxLostReplies = 1
    MaxLateFaults = 0
    MaxCrashes = 0
    MaxPauses = 0
CHECK_DEADLOCK FALSE
INVARIANTS AckedHasOrder
PROPERTIES AcceptedIsSettled PendingListDrains
