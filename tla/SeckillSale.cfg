SPECIFICATION Spec
CONSTANTS
    Users = {u1, u2}
    Vouchers = {v1}
    Instances = {a, b}
    Requests = {r1, r2}
    Free = free
    Orphan = orphan
    Nil = nil
    Stock <- OneEach
    MaxFaults = 0
    MaxLostReplies = 1
    MaxLateFaults = 1
    MaxCrashes = 1
    MaxPauses = 1
CHECK_DEADLOCK FALSE
SYMMETRY Symmetry
INVARIANTS RedisLedger AnswersStayTrue IdsAreFresh LockExclusion
PROPERTIES ImplementsFlashSale
