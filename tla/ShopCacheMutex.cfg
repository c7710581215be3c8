SPECIFICATION Spec
CONSTANTS
    Readers = {r1, r2, r3}
    Workers = {w1, w2}
    Strategies <- MutexStrategy
    Expiring = FALSE
    MaxVersion = 2
    MaxRetries = 1
    MaxTroubles = 0
CHECK_DEADLOCK FALSE
INVARIANTS OneThreadQueries
