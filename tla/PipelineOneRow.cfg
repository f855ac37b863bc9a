SPECIFICATION Spec
CONSTANTS
    e1 = e1
    e2 = e2
    id1 = id1
    id2 = id2
    u1 = u1
    u2 = u2
    Events = {e1}
    EventId <- OwnIds
    Lane <- OneLane
    Workers = {w1, w2}
    Tokens = {t1, t2}
    None = None
    Prices = {1, 2}
    AiuEnabled = TRUE
    BatchSize = 1
    MaxAttempts = 2
    MaxFailures = 2
    MaxReplays = 2
SYMMETRY Interchangeable
INVARIANTS
    CompletedIsProjected
    QueuedReplaysRun
    RegistryFollowsInbox
    PublishedMatchesRating
PROPERTIES
    StagesNeverRegress
CHECK_DEADLOCK FALSE
