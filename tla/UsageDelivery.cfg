SPECIFICATION FairSpec
CONSTANTS
    Ids = {i1, i2}
    Payloads = {p1, p2, bad}
    Invalid = {bad}
    Senders = {s1, s2}
    Requests = {r1, r2}
    None = None
    BatchSize = 2
    Capacity = 2
    MaxReports = 2
    MaxFaults = 1
INVARIANTS
    DeliveryInvariant
PROPERTIES
    RowsLeaveWithCause
    KeepsIntakePromise
CHECK_DEADLOCK FALSE
