-------------------------- MODULE ConnectorHeartbeat --------------------------
(***************************************************************************)
(* What the control plane shows of a LiteLLM connector: the connector      *)
(* sends heartbeats by its own clock, never again after a failure, and     *)
(* each may arrive late, twice, out of order or not at all.  The API keeps *)
(* a receipt per heartbeat, the row of the instance and the status of the  *)
(* connection bound to it; the worker marks instances that fell silent.    *)
(***************************************************************************)
EXTENDS Integers, FiniteSets

CONSTANTS
    MaxTime,       \* the control plane's clock
    Skews,         \* how far the connector's clock may be off
    MaxSkew,       \* clock skew the API accepts
    StaleAfter,    \* silence after which the worker marks an instance
    OfflineAfter,  \* silence after which a connection is shown offline
    MaxBeats,      \* heartbeats sent
    MaxSlips,      \* steps of the connector's clock, and repeated deliveries
    None

VARIABLES
    clock, skew,
    beats,       \* heartbeats sent: their ids, times and status
    underway,    \* requests on the way to the API or being handled
    receipts,    \* heartbeats recorded
    instance,    \* the row of the connector, or None
    registered,  \* times the registration was put in the audit log
    connection,  \* a connection that may be bound to the connector, and
                 \* whether it heard of the connector since (heard)
    slips

vars == <<clock, skew, beats, underway, receipts, instance, registered, connection, slips>>

Statuses == {"HEALTHY", "DEGRADED"}

(* Heartbeats are ordered by the time they were sent, then by their ids,   *)
(* which begin with that time and end at random.                           *)
Newer(a, b) == a.sentAt > b.sentAt \/ (a.sentAt = b.sentAt /\ a.random > b.random)

ConnectionStatus == [HEALTHY |-> "AVAILABLE", DEGRADED |-> "DEGRADED"]

Init ==
    /\ clock = 0 /\ skew \in Skews
    /\ beats = {} /\ underway = {} /\ receipts = {}
    /\ instance = None /\ registered = 0
    /\ connection = [bound |-> FALSE, status |-> "UNVERIFIED", lastSeenAt |-> None, heard |-> FALSE]
    /\ slips = 0

-----------------------------------------------------------------------------
(* Time.                                                                   *)

Tick ==
    /\ clock < MaxTime /\ clock' = clock + 1
    /\ UNCHANGED <<skew, beats, underway, receipts, instance, registered, connection, slips>>

ClockStep(s) ==
    /\ s # skew /\ slips < MaxSlips
    /\ skew' = s /\ slips' = slips + 1
    /\ UNCHANGED <<clock, beats, underway, receipts, instance, registered, connection>>

-----------------------------------------------------------------------------
(* The connector.                                                          *)

(* Its status is degraded with a nearly full spool or a rejected event.    *)
SendOnce(status, random) ==
    LET beat == [sentAt |-> clock + skew, random |-> random, status |-> status]
    IN  /\ Cardinality(beats) < MaxBeats
        /\ \A b \in beats : b.random # random
        /\ beats' = beats \cup {beat}
        /\ underway' = underway \cup {[beat |-> beat, receivedAt |-> None]}
        /\ UNCHANGED <<clock, skew, receipts, instance, registered, connection, slips>>

(* A request that failed is given up; the next heartbeat is another one.   *)
Lose(r) ==
    /\ underway' = underway \ {r}
    /\ UNCHANGED <<clock, skew, beats, receipts, instance, registered, connection, slips>>

(* Something between the two repeats a request.                            *)
Repeat(b) ==
    /\ slips < MaxSlips /\ slips' = slips + 1
    /\ underway' = underway \cup {[beat |-> b, receivedAt |-> None]}
    /\ UNCHANGED <<clock, skew, beats, receipts, instance, registered, connection>>

-----------------------------------------------------------------------------
(* The API.                                                                *)

(* record: a heartbeat from too far in the future is refused; the others   *)
(* are stamped before the transaction.                                     *)
Receive(r) ==
    /\ r.receivedAt = None
    /\ underway' = IF r.beat.sentAt > clock + MaxSkew THEN underway \ {r}
                   ELSE (underway \ {r}) \cup {[r EXCEPT !.receivedAt = clock]}
    /\ UNCHANGED <<clock, skew, beats, receipts, instance, registered, connection, slips>>

SnapshotData(r) == [beat |-> r.beat, status |-> r.beat.status, lastHeartbeatAt |-> r.receivedAt]

(* Mutant of Supersedes: the last to arrive wins.                          *)
SupersedesAlways(r) == TRUE

(* The guard of the update: the row shows an older heartbeat.              *)
Supersedes(r) == instance = None \/ Newer(r.beat, instance.beat)

(* The transaction.  A known heartbeat changes nothing; a new one leaves a *)
(* receipt, and the row and the connection change if it is the newest.     *)
Persist(r) ==
    /\ r.receivedAt # None
    /\ underway' = underway \ {r}
    /\ IF r.beat \in receipts THEN UNCHANGED <<receipts, instance, registered, connection>>
       ELSE /\ receipts' = receipts \cup {r.beat}
            /\ registered' = registered + (IF instance = None THEN 1 ELSE 0)
            /\ instance' = IF Supersedes(r) THEN SnapshotData(r) ELSE instance
            /\ connection' = IF Supersedes(r) /\ connection.bound
                             THEN [connection EXCEPT !.status = ConnectionStatus[r.beat.status],
                                                     !.lastSeenAt = r.receivedAt, !.heard = TRUE]
                             ELSE connection
    /\ UNCHANGED <<clock, skew, beats, slips>>

(* Update: an administrator binds the connection to the instance, or to no *)
(* instance; what it last heard stays.                                     *)
Update(bound) ==
    /\ bound # connection.bound /\ (bound => instance # None)
    /\ connection' = [connection EXCEPT !.bound = bound, !.heard = FALSE]
    /\ UNCHANGED <<clock, skew, beats, underway, receipts, instance, registered, slips>>

(* The status a reader is shown.                                           *)
EffectiveStatus ==
    IF connection.lastSeenAt # None /\ clock - connection.lastSeenAt > OfflineAfter
    THEN "OFFLINE" ELSE connection.status

-----------------------------------------------------------------------------
(* The worker.                                                             *)

CheckConnectorHeartbeats ==
    /\ instance # None
    /\ instance.lastHeartbeatAt < clock - StaleAfter /\ instance.status # "STALE"
    /\ instance' = [instance EXCEPT !.status = "STALE"]
    /\ UNCHANGED <<clock, skew, beats, underway, receipts, registered, connection, slips>>

-----------------------------------------------------------------------------
Next ==
    \/ Tick
    \/ \E s \in Skews : ClockStep(s)
    \/ \E status \in Statuses, random \in 1..MaxBeats : SendOnce(status, random)
    \/ \E r \in underway : Lose(r) \/ Receive(r) \/ Persist(r)
    \/ \E b \in beats : Repeat(b)
    \/ \E bound \in BOOLEAN : Update(bound)
    \/ CheckConnectorHeartbeats

Spec == Init /\ [][Next]_vars

-----------------------------------------------------------------------------
(* In whatever order heartbeats arrive, and however often, the row shows   *)
(* the newest that was recorded, by the connector's clock, or that it fell *)
(* silent; the connector was registered once (heartbeat.service.ts,        *)
(* persist).                                                               *)
ShowsNewest ==
    /\ instance = None <=> receipts = {}
    /\ registered = IF receipts = {} THEN 0 ELSE 1
    /\ instance # None =>
          /\ instance.beat \in receipts
          /\ \A b \in receipts : ~Newer(b, instance.beat)
          /\ instance.status \in {instance.beat.status, "STALE"}
          /\ instance.status = "STALE" => clock - instance.lastHeartbeatAt > StaleAfter

(* A connection that heard of its connector agrees with the row, and one   *)
(* then shown as available has a connector whose newest heartbeat was      *)
(* healthy and came in lately (connection.service.ts, effectiveStatus).    *)
ConnectionFollows ==
    connection.heard =>
    /\ connection.lastSeenAt = instance.lastHeartbeatAt
    /\ connection.status = ConnectionStatus[instance.beat.status]
    /\ EffectiveStatus = "AVAILABLE" =>
          instance.beat.status = "HEALTHY" /\ clock - instance.lastHeartbeatAt <= OfflineAfter

HeartbeatsAreTrue == ShowsNewest /\ ConnectionFollows
=============================================================================
