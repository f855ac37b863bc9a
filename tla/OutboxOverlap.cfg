SPECIFICATION Spec
CONSTANTS
    e1 = e1
    e2 = e2
    w1 = w1
    w2 = w2
    None = None
    Ids <- TwoIds
    Events = {e1}
    Workers = {w1, w2}
    Poison <- NoPoison
    BatchSize = 1
    MaxAttempts = 2
    MaxFailures = 1
    MaxReplays = 0
INVARIANTS
    StoredOnce
SYMMETRY Interchangeable
CHECK_DEADLOCK FALSE
