SPECIFICATION Spec
CONSTANTS
    Live = {1, 2}
    Rebuilds = {r1}
    None = None
    MaxFaults = 0
INVARIANTS
    FailedCheckStaysPaused
CHECK_DEADLOCK FALSE
