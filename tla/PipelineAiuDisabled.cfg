SPECIFICATION Spec
CONSTANTS
    e1 = e1
    e2 = e2
    id1 = id1
    id2 = id2
    u1 = u1
    u2 = u2
    Events = {e1}
    EventId <- OwnIds
    Lane <- OneLane
    Workers = {w1}
    Tokens = {t1}
    None = None
    Prices = {1, 2}
    AiuEnabled = FALSE
    BatchSize = 1
    MaxAttempts = 2
    MaxFailures = 0
    MaxReplays = 0
INVARIANT
    OptionalStagesAreOptional
CHECK_DEADLOCK FALSE
