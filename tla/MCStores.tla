------------------------------ MODULE MCStores ------------------------------
(***************************************************************************)
(* The outbox, what ClickHouse makes of its rows and the comparison of the *)
(* two stores, side by side.  A behaviour is one of                        *)
(*   "outbox":     ClickHouseOutbox;                                       *)
(*   "analytics", "faulty": UsageAnalytics, while rows expire, or with     *)
(*               rows stored twice, views that fail and merges;            *)
(*   "comparison", "losses": Reconciler, while the stores change, or after *)
(*               a row was lost or doubled;                                *)
(* and leaves the other parts as they are.                                 *)
(***************************************************************************)
EXTENDS MCClickHouseOutbox

CONSTANTS u1, u2, m1, m2, v1, eur, usd, All

VARIABLES part,
          usage, pending, raw, lines, ratings, minute, hourly, daily, clock,
          faults, skipped, merges,
          registered, rated, messages, rows, lastSuccess, run, diffs, time,
          losses, since

analyticsVars == <<usage, pending, raw, lines, ratings, minute, hourly, daily, clock,
    faults, skipped, merges>>
comparisonVars == <<registered, rated, messages, rows, lastSuccess, run, diffs, time,
    losses, since>>

-----------------------------------------------------------------------------
(* UsageAnalytics: a failed and an unattributed attempt with ratings in    *)
(* two currencies, or two events that no price covers.                     *)
TwoEvents == {e1, e2}
AllModels == {m1, m2}
AllUsers == {u1, u2}
Currencies == {eur, usd}
Usage(at, user, model, claimed, status, cost, aiu) ==
  [time |-> at, request |-> v1, user |-> user, model |-> model, claimed |-> claimed,
   status |-> status, tokens |-> [input |-> 1, output |-> 2], cost |-> cost, aiu |-> aiu]
Line(micros) == [type |-> "input", micros |-> micros]
TwoLines == [status |-> "official", total |-> 4, lines |-> <<Line(2), Line(2)>>]
Free == [status |-> "official", total |-> 0, lines |-> <<>>]
Unrated == [status |-> "unrated", total |-> None, lines |-> <<Line(None)>>]
Paid(amount, currency) == [amount |-> amount, currency |-> currency]
Usages ==
  {e1 :> Usage(1, u1, m1, m1, "failure", Paid(3, eur), TwoLines)
     @@ e2 :> Usage(0, u1, m1, None, "success", Paid(5, usd), Free),
   e1 :> Usage(1, u2, None, m1, "success", None, Unrated)
     @@ e2 :> Usage(5, u2, m2, m1, "timeout", None, Unrated)}
Report(from, to, model, user) == [from |-> from, to |-> to, model |-> model, user |-> user]
Queries ==
  {Report(0, 8, All, All), Report(0, 8, m1, u1), Report(0, 4, m1, All), Report(0, 2, All, All),
   Report(1, 4, All, All), Report(1, 6, m1, All), Report(2, 6, All, u2), Report(2, 8, m2, All)}

Analytics == INSTANCE UsageAnalytics WITH
  Events <- TwoEvents, Minute <- 2, Hour <- 4, Day <- 8, Retention <- 4, MaxTime <- 4,
  MaxFaults <- 0
Faulty == INSTANCE UsageAnalytics WITH
  Events <- TwoEvents, Minute <- 2, Hour <- 4, Day <- 8, Retention <- 4, MaxTime <- 0,
  MaxFaults <- 2

(* Reconciler: an event with both ratings and one without provider cost.   *)
Rated(at, cost, version) ==
  [time |-> at, model |-> m1, projected |-> m1, mapped |-> TRUE, user |-> u1, tokens |-> 1,
   cost |-> cost, aiu |-> 2, costVersion |-> version, aiuVersion |-> v1]
UsageOf == e1 :> Rated(0, 2, v1) @@ e2 :> Rated(1, None, None)
Plans == {[type |-> "hourly", from |-> 0, to |-> 2, model |-> None, user |-> None]}

Comparison == INSTANCE Reconciler WITH
  Events <- TwoEvents, Hour <- 2, Day <- 4, MaxRange <- 8, CostTolerance <- 1,
  AiuTolerance <- 0, StallAfter <- 1, MaxTime <- 2, MaxFaults <- 0, MaxChanges <- 1,
  outbox <- messages, stored <- rows, clock <- time, faults <- losses
Losses == INSTANCE Reconciler WITH
  Events <- TwoEvents, Hour <- 2, Day <- 4, MaxRange <- 8, CostTolerance <- 1,
  AiuTolerance <- 0, StallAfter <- 1, MaxTime <- 2, MaxFaults <- 1, MaxChanges <- 0,
  outbox <- messages, stored <- rows, clock <- time, faults <- losses

-----------------------------------------------------------------------------
Projected == {"analytics", "faulty"}
Compared == {"comparison", "losses"}

(* UsageAnalytics has one initial state in the others' behaviours.         *)
StoresInit ==
  /\ part \in {"outbox"} \cup Projected \cup Compared
  /\ Init /\ Analytics!Init /\ Comparison!Init
  /\ part \notin Projected => usage[e1].user = u1

StoresNext ==
  /\ UNCHANGED part
  /\ \/ part = "outbox" /\ Next /\ UNCHANGED <<analyticsVars, comparisonVars>>
     \/ part = "analytics" /\ Analytics!Next /\ UNCHANGED <<vars, comparisonVars>>
     \/ part = "faulty" /\ Faulty!Next /\ UNCHANGED <<vars, comparisonVars>>
     \/ part = "comparison" /\ Comparison!Next /\ UNCHANGED <<vars, analyticsVars>>
     \/ part = "losses" /\ Losses!Next /\ UNCHANGED <<vars, analyticsVars>>

StoresSpec == StoresInit /\ [][StoresNext]_<<part, vars, analyticsVars, comparisonVars>>

(* The properties of the modules, stated there.                            *)
ReportsAgree == part \in Projected => Analytics!ReportsAgree
ComparisonIsSound == part \in Compared => Comparison!ComparisonIsSound
=============================================================================
