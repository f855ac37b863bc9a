SPECIFICATION Spec
CONSTANTS
    u1 = u1
    u2 = u2
    o1 = o1
    o2 = o2
    e1 = e1
    e2 = e2
    Users = {u1}
    Operations = {o1, o2}
    Events = {e1}
    EventUser <- OneUser
    EventOperation <- FirstReserved
    None = None
    NoAiu = NoAiu
    Amounts = {2}
    UserRules <- HardFixed
    SharedRules <- HardCalendar
    Memberships = {{u1}}
    PeriodLength = 2
    FixedEnd = 2
    Ttl = 1
    MaxTime = 3
    MaxAdmin = 2
INVARIANTS
    ReservedMatchesOpenReservations
CHECK_DEADLOCK FALSE
