SPECIFICATION Spec
CONSTANTS
    Users = {u1, u2}
    Vouchers = {v1}
    Instances = {a, b}
    Requests = {r1, r2}
    Free = free
    Orphan = orphan
    Nil = nil
    Stock <- TwoEach
    MaxFaults = 1
    MaxLostReplies = 0
    MaxLateFaults = 1
    MaxCrashes = 1
    MaxPauses = 0
CHECK_DEADLOCK FALSE
SYMMETRY Symmetry
INVARIANTS TypeOK StreamMatchesPurchases DbLedger OneOrderPerUser OrdersWereDelivered BacklogCovered
PROPERTIES StockMovesWithOrder GivesUpOnlyOnContention
