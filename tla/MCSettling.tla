------------------------------ MODULE MCSettling ------------------------------
(***************************************************************************)
(* What must come to rest: the events of the inbox and the reservations    *)
(* of a user.  A behaviour has one row of InboxPipeline, with failures,    *)
(* retries and replays, two rows that share a user's lane, or no row and   *)
(* one user's account in UserAiuQuota.                                     *)
(***************************************************************************)
EXTENDS Integers, FiniteSets

CONSTANTS e1, e2, u1, o1, o2, t1, t2, w1, None, NoAiu

VARIABLES rows, inbox, registry, dead, official, job, failures, replays,
          now, policies, group, account, rating, resetting, bulk, admin

vars == <<inbox, registry, dead, official, job, failures, replays>>
quotaVars == <<now, policies, group, account, rating, resetting, bulk, admin>>

Own == [e \in {e1, e2} |-> e]
SameLane == [e \in {e1, e2} |-> u1]

OneRow == INSTANCE InboxPipeline WITH
    Events <- {e1}, EventId <- Own, Lane <- SameLane, Workers <- {w1}, Tokens <- {t1},
    Prices <- {1}, AiuEnabled <- TRUE, BatchSize <- 1, MaxAttempts <- 2, MaxFailures <- 3,
    MaxReplays <- 2

TwoRows == INSTANCE InboxPipeline WITH
    Events <- {e1, e2}, EventId <- Own, Lane <- SameLane, Workers <- {w1}, Tokens <- {t1, t2},
    Prices <- {1}, AiuEnabled <- TRUE, BatchSize <- 2, MaxAttempts <- 1, MaxFailures <- 0,
    MaxReplays <- 0

(* Two operations of one user under a hard rule of the application or the  *)
(* user's own; the event settles the first.                                *)
Monthly == {[limit |-> 4, hardLimit |-> TRUE, period |-> "CALENDAR"]}

Quota == INSTANCE UserAiuQuota WITH
    Users <- {u1}, Operations <- {o1, o2}, Events <- {e1}, EventUser <- [e \in {e1} |-> u1],
    EventOperation <- [e \in {e1} |-> o1], Amounts <- {2}, UserRules <- Monthly,
    SharedRules <- Monthly, Memberships <- {{u1}}, PeriodLength <- 2, FixedEnd <- 2, Ttl <- 1,
    MaxTime <- 3, MaxAdmin <- 1

(* The part a behaviour leaves alone has one initial state.                *)
Init ==
    /\ rows \in 0..2 /\ Quota!Init
    /\ rows > 0 => ~group.current
    /\ IF rows < 2 THEN OneRow!Init ELSE TwoRows!Init

Next ==
    /\ UNCHANGED rows
    /\ \/ rows = 0 /\ Quota!Next /\ UNCHANGED vars
       \/ rows = 1 /\ OneRow!Next /\ UNCHANGED quotaVars
       \/ rows = 2 /\ TwoRows!Next /\ UNCHANGED quotaVars

(* A step of row e at whichever size is running.                           *)
Either(e, one, two) == \/ rows = 1 /\ e = e1 /\ one
                       \/ rows = 2 /\ two

(* The fairness of InboxPipeline at both sizes, and of UserAiuQuota.       *)
Fairness ==
    /\ \A e \in {e1, e2} :
          /\ WF_vars(Either(e, OneRow!BecomeDue(e), TwoRows!BecomeDue(e)))
          /\ WF_vars(Either(e, OneRow!LeaseExpires(e), TwoRows!LeaseExpires(e)))
          /\ SF_vars(Either(e, OneRow!LeaseOne(e), TwoRows!LeaseOne(e)))
          /\ SF_vars(Either(e, OneRow!BeginOne(e), TwoRows!BeginOne(e)))
          /\ SF_vars(Either(e, OneRow!Progress(e), TwoRows!Progress(e)))
          /\ SF_vars(Either(e, OneRow!RejectOne(e), TwoRows!RejectOne(e)))
    /\ WF_vars(rows = 1 /\ OneRow!LoseLease(t1)) /\ WF_vars(rows = 1 /\ OneRow!Begin(t1))
    /\ \A t \in {t1, t2} : /\ WF_vars(rows = 2 /\ TwoRows!LoseLease(t))
                           /\ WF_vars(rows = 2 /\ TwoRows!Begin(t))
    /\ WF_quotaVars(rows = 0 /\ Quota!Tick)
    /\ \A o \in {o1, o2} : WF_quotaVars(rows = 0 /\ Quota!Expire(u1, o))

FairSpec == Init /\ [][Next]_<<rows, vars, quotaVars>> /\ Fairness

(* EventsSettle of InboxPipeline at both sizes: however a row fails, is    *)
(* leased again, replayed or kept waiting by another row of its lane, it   *)
(* comes to rest completed or dead-lettered.                               *)
EventsSettle ==
    <>[](\/ rows = 0
         \/ rows = 1 /\ OneRow!AtRest
         \/ rows = 2 /\ TwoRows!AtRest)

(* ReservationsConverge of UserAiuQuota: a reservation that nobody settles *)
(* or releases is closed by the clock and the sweeper of the API.          *)
ReservationsConverge == rows = 0 => Quota!ReservationsConverge
=============================================================================
