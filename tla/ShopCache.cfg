SPECIFICATION BusySpec
CONSTANTS
    Readers = {r1, r2}
    Workers = {w1, w2}
    Strategies <- AllStrategies
    Expiring = TRUE
    MaxVersion = 2
    MaxRetries = 1
    MaxTroubles = 1
CHECK_DEADLOCK FALSE
INVARIANTS TypeOK OnlyCommittedIsServed OneRebuildWithinLease
PROPERTIES EntryNeverGoesBack Converges
