SPECIFICATION StoresSpec
CONSTANTS
    e1 = e1
    e2 = e2
    u1 = u1
    u2 = u2
    m1 = m1
    m2 = m2
    v1 = v1
    eur = eur
    usd = usd
    All = All
    w1 = w1
    w2 = w2
    None = None
    Ids <- ThreeIds
    Events = {e1}
    Workers = {w1, w2}
    Poison <- NoPoison
    BatchSize = 2
    MaxAttempts = 2
    MaxFailures = 2
    MaxReplays = 2
INVARIANTS
    OutboxInvariant
    
    
PROPERTIES
    CursorNeverRegresses
SYMMETRY Interchangeable
CHECK_DEADLOCK FALSE
