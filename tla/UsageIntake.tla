----------------------------- MODULE UsageIntake -----------------------------
(***************************************************************************)
(* What a spool promises of a usage event: from the moment the spool took  *)
(* it, the event waits until the control plane registered it or until it   *)
(* was set aside for the operator, and it gets there.                      *)
(***************************************************************************)
CONSTANT Ids

VARIABLE outcome

Outcomes == {"unknown", "spooled", "setAside", "registered"}

TypeOK == outcome \in [Ids -> Outcomes]

Init == outcome = [id \in Ids |-> "unknown"]

Take(id) ==
    /\ outcome[id] = "unknown"
    /\ outcome' = [outcome EXCEPT ![id] = "spooled"]

(* An event may also be registered for another process that reported it.   *)
Register(id) ==
    /\ outcome[id] # "registered"
    /\ outcome' = [outcome EXCEPT ![id] = "registered"]

(* A batch of the spool is set aside in one step.                          *)
SetAside(S) ==
    /\ \A id \in S : outcome[id] = "spooled"
    /\ outcome' = [id \in Ids |-> IF id \in S THEN "setAside" ELSE outcome[id]]

Next ==
    \/ \E id \in Ids : Take(id) \/ Register(id)
    \/ \E S \in SUBSET Ids : SetAside(S)

Spec == Init /\ [][Next]_outcome

Settled == \A id \in Ids : outcome[id] = "spooled" ~> outcome[id] # "spooled"

FairSpec == Spec /\ Settled
=============================================================================
