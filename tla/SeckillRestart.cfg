SPECIFICATION FairSpec
CONSTANTS
    Users = {u1, u2}
    Vouchers = {v1}
    Instances = {a}
    Requests = {r1, r2}
    Free = free
    Orphan = orphan
    Nil = nil
    Stock <- TwoEach
    MaxFaults = 0
    MaxLostReplies = 0
    MaxLateFaults = 0
    MaxCrashes = 1
    MaxPauses = 0
CHECK_DEADLOCK FALSE
PROPERTIES AcceptedIsSettled
