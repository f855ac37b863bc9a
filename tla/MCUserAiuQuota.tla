--------------------------- MODULE MCUserAiuQuota ---------------------------
(***************************************************************************)
(* Values of the constants of UserAiuQuota for model checking.             *)
(***************************************************************************)
EXTENDS UserAiuQuota

CONSTANTS u1, u2, o1, o2, e1, e2

Rule(limit, hardLimit, period) ==
    [limit |-> limit, hardLimit |-> hardLimit, period |-> period]

(* One event names the reservation of o1, the other names none.            *)
OneUser == [e \in Events |-> u1]
FirstReserved == [e \in Events |-> IF e = e1 THEN o1 ELSE None]

HardFixed == {Rule(2, TRUE, "FIXED_WINDOW")}
HardCalendar == {Rule(2, TRUE, "CALENDAR")}
=============================================================================
