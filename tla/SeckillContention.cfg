SPECIFICATION Spec
CONSTANTS
    Users = {u1}
    Vouchers = {v1, v2}
    Instances = {a, b}
    Requests = {r1, r2}
    Free = free
    Orphan = orphan
    Nil = nil
    Stock <- OneEach
    MaxFaults = 0
    MaxLostReplies = 0
    MaxLateFaults = 0
    MaxCrashes = 0
    MaxPauses = 0
CHECK_DEADLOCK FALSE
INVARIANTS AckedHasOrder
