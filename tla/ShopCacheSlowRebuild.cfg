SPECIFICATION Spec
CONSTANTS
    Readers = {r1, r2}
    Workers = {w1, w2}
    Strategies <- LiveStrategy
    Expiring = TRUE
    MaxVersion = 2
    MaxRetries = 1
    MaxTroubles = 1
CHECK_DEADLOCK FALSE
INVARIANTS ExactlyOneRebuilds
