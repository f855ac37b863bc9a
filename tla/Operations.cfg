SPECIFICATION OperationSpec
CONSTANTS
    Live = {1, 2}
    Rebuilds = {r1, r2}
    None = None
    MaxFaults = 1
    e1 = e1
    w1 = w1
    w2 = w2
    p1 = p1
    p2 = p2
    MaxAttempts = 2
    MaxStalled = 1
    MaxJobFaults = 2
INVARIANTS
    RebuildInvariant
    JobsInvariant
    
    
PROPERTIES
    NoResumeWithoutSchema
    CompletedIsKept
    
CHECK_DEADLOCK FALSE
