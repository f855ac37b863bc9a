SPECIFICATION FairSpec
CONSTANTS
    e1 = e1
    e2 = e2
    u1 = u1
    o1 = o1
    o2 = o2
    t1 = t1
    t2 = t2
    w1 = w1
    None = None
    NoAiu = NoAiu
PROPERTIES
    EventsSettle
    ReservationsConverge
CHECK_DEADLOCK FALSE
