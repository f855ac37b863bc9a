SPECIFICATION ConsoleSpec
CONSTANTS
    None = None
    NoAiu = NoAiu
    u1 = u1
    u2 = u2
    o1 = o1
    o2 = o2
    e1 = e1
    e2 = e2
    Users = {u1}
    Operations = {o1, o2}
    Events = {e1}
    EventUser <- OneUser
    EventOperation <- FirstReserved
    Amounts = {2}
    UserRules <- HardFixed
    SharedRules <- HardCalendar
    Memberships = {{u1}}
    PeriodLength = 2
    FixedEnd = 2
    Ttl = 1
    MaxTime = 3
    MaxAdmin = 2
    People = {p1, p2}
    Slugs = {s1, s2}
    Requests = {r1, r2}
    ServiceKeys = {k1, k2}
    RateLimitMax = 1
    MaxWindows = 2
    MaxChanges = 3
    Workers = {w1, w2}
    Reports = {d1, d2}
INVARIANTS
    SharedUsageIsSound
    
    QuotaInvariant
    
    DirectoryIsSound
    
PROPERTIES
    AdmissionUsesCurrentRule
    ClosedReservationsStayClosed
CHECK_DEADLOCK FALSE
