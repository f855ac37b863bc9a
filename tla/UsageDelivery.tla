---------------------------- MODULE UsageDelivery ----------------------------
(***************************************************************************)
(* From a spool beside the caller to the usage_event_registry: the SQLite  *)
(* spool and sender of the LiteLLM connector, or the spool and flush loops *)
(* of an SDK, and the batch endpoint that persists one event after the     *)
(* other.                                                                  *)
(*                                                                         *)
(* A request outlives its caller: when the caller times out or dies, the   *)
(* API goes on with the batch.  Replies are lost, the API fails between    *)
(* two events, callers crash between two statements on their spool.        *)
(*                                                                         *)
(* Which of more rows than a batch holds go first is left open.  Disk      *)
(* space is counted in events.                                             *)
(***************************************************************************)
EXTENDS Integers, FiniteSets

CONSTANTS
    Ids,          \* event ids
    Payloads,     \* canonical payloads, told apart by their hash
    Invalid,      \* payloads that validateEvent refuses
    Senders,      \* flush loops of an SDK client; a connector runs one
    Requests,     \* batches in the hands of the API
    None,
    BatchSize,
    Capacity,     \* the spool's maximum_bytes
    MaxReports,   \* bound: enqueued events
    MaxFaults     \* bound: lost or failed requests, sender errors, crashes

Statuses == {"accepted", "duplicate", "conflict", "rejected"}

ASSUME DeliveryAssumption ==
    /\ None \notin Statuses
    /\ None \notin Payloads /\ None \notin Ids /\ None \notin Senders
    /\ Invalid \subseteq Payloads
    /\ BatchSize \in Nat \ {0} /\ Capacity \in Nat
    /\ MaxReports \in Nat /\ MaxFaults \in Nat
    /\ IsFiniteSet(Ids)

VARIABLES
    kind,      \* "connector" or "sdk"
    spool,     \* spool_events, usage_events
    rejected,  \* spool_rejected, usage_rejected: the payload set aside
    file,      \* the size of the spool's file: SQLite keeps freed pages
    registry,  \* usage_event_registry: the payload registered for an id
    request,   \* the batches the API works on, and who waits for the answer
    reports,
    faults

vars == <<kind, spool, rejected, file, registry, request, reports, faults>>

RowType == [state : {"absent", "pending", "inflight"}, payload : Payloads \cup {None},
            due : BOOLEAN]

(* left: events not persisted yet; insert: the event whose lookup found    *)
(* nothing; open: results the caller has not applied to its spool.         *)
RequestType == [state : {"free", "working", "failed", "refused"}, owner : Senders \cup {None},
                batch : [Ids -> Payloads \cup {None}], left : SUBSET Ids,
                insert : Ids \cup {None}, result : [Ids -> Statuses \cup {None}],
                open : SUBSET Ids]

TypeOK ==
    /\ kind \in {"connector", "sdk"}
    /\ spool \in [Ids -> RowType]
    /\ rejected \in [Ids -> Payloads \cup {None}]
    /\ file \in 0..Capacity
    /\ registry \in [Ids -> Payloads \cup {None}]
    /\ request \in [Requests -> RequestType]
    /\ reports \in 0..MaxReports
    /\ faults \in 0..MaxFaults

Row(state, payload, due) == [state |-> state, payload |-> payload, due |-> due]

NoRow == Row("absent", None, FALSE)

NoRequest == [state |-> "free", owner |-> None, batch |-> [id \in Ids |-> None],
              left |-> {}, insert |-> None, result |-> [id \in Ids |-> None], open |-> {}]

Init ==
    /\ kind \in {"connector", "sdk"}
    /\ spool = [id \in Ids |-> NoRow]
    /\ rejected = [id \in Ids |-> None]
    /\ file = 0
    /\ registry = [id \in Ids |-> None]
    /\ request = [r \in Requests |-> NoRequest]
    /\ reports = 0
    /\ faults = 0

-----------------------------------------------------------------------------
(* The spool.                                                              *)
Spooled(id) == spool[id].state # "absent"

Stored == {id \in Ids : Spooled(id) \/ rejected[id] # None}

Larger(a, b) == IF a > b THEN a ELSE b

(* Rows that are deleted leave free pages: the file never shrinks.         *)
Grown(pages) == Larger(file, pages)

(* A callback of the connector, or a report of the SDK.  A known id is     *)
(* ignored; a file at its limit refuses the event, which is then lost.     *)
Enqueue(id, payload) ==
    /\ reports < MaxReports
    /\ ~Spooled(id) /\ rejected[id] = None
    /\ file + 1 <= Capacity
    /\ spool' = [spool EXCEPT ![id] = Row("pending", payload, TRUE)]
    /\ file' = Grown(Cardinality(Stored) + 1)
    /\ reports' = reports + 1
    /\ UNCHANGED <<kind, rejected, registry, request, faults>>

(* Mutant of Ready: leases that ran out are not recovered.                 *)
ReadyPending(id) == spool[id].state = "pending" /\ spool[id].due

(* Rows a batch may take: due, or leased and the lease ran out.            *)
Ready(id) == Spooled(id) /\ spool[id].due

Leased(S) ==
    [id \in Ids |-> IF id \in S THEN Row("inflight", spool[id].payload, FALSE)
                                ELSE spool[id]]

Retried(S) ==
    [id \in Ids |-> IF id \in S /\ Spooled(id)
                    THEN Row("pending", spool[id].payload, FALSE)
                    ELSE spool[id]]

Deleted(S) == [id \in Ids |-> IF id \in S THEN NoRow ELSE spool[id]]

(* Mutant of Archived: the row is deleted without a copy.                  *)
ArchivedNowhere(S) == rejected

(* A rejected row is copied once; what was set aside first stays.          *)
Archived(S) ==
    [id \in Ids |-> IF id \in S /\ Spooled(id) /\ rejected[id] = None
                    THEN spool[id].payload ELSE rejected[id]]

(* The clock passes available_at or lease_until.                           *)
BecomeDue(id) ==
    /\ Spooled(id) /\ ~spool[id].due
    /\ spool' = [spool EXCEPT ![id] = Row(@.state, @.payload, TRUE)]
    /\ UNCHANGED <<kind, rejected, file, registry, request, reports, faults>>

-----------------------------------------------------------------------------
(* The sender.                                                             *)
Waiting(s) == {r \in Requests : request[r].owner = s}

Idle(s) == Waiting(s) = {}

Batch(S) == [id \in Ids |-> IF id \in S THEN spool[id].payload ELSE None]

Sent(s, S, batch) ==
    [state |-> "working", owner |-> s, batch |-> batch, left |-> S, insert |-> None,
     result |-> [id \in Ids |-> None], open |-> S]

(* The connector leases the rows of a batch; an SDK only reads them, so    *)
(* flush loops that run at the same time send the same rows.               *)
Send(s, r) ==
    /\ IF kind = "connector" THEN \A other \in Senders : Idle(other) ELSE Idle(s)
    /\ request[r].state = "free"
    /\ \E S \in SUBSET {id \in Ids : Ready(id)} :
       /\ S # {} /\ Cardinality(S) <= BatchSize
       /\ Cardinality(S) < BatchSize => \A id \in Ids : Ready(id) => id \in S
       /\ request' = [request EXCEPT ![r] = Sent(s, S, Batch(S))]
       /\ spool' = IF kind = "connector" THEN Leased(S) ELSE spool
    /\ UNCHANGED <<kind, rejected, file, registry, reports, faults>>

(* Another process of the application, with a spool of its own, reports    *)
(* the same event id.                                                      *)
SendElsewhere(r, id, payload) ==
    /\ reports < MaxReports /\ request[r].state = "free"
    /\ request' = [request EXCEPT ![r] =
           Sent(None, {id}, [other \in Ids |-> IF other = id THEN payload ELSE None])]
    /\ reports' = reports + 1
    /\ UNCHANGED <<kind, spool, rejected, file, registry, faults>>

(* A request whose caller is gone ends when the API is done with it.       *)
Abandoned(q) ==
    IF q.state = "working" /\ q.left # {} THEN [q EXCEPT !.owner = None] ELSE NoRequest

Members(q) == {id \in Ids : q.batch[id] # None}

(* What the caller does when a request fails: the connector schedules a    *)
(* retry, flush() of an SDK throws.                                        *)
Failed(r) == IF kind = "connector" THEN Retried(Members(request[r])) ELSE spool

(* The reply is lost or comes too late, or it is not the answer expected.  *)
LoseReply(r) ==
    /\ request[r].owner # None /\ faults < MaxFaults
    /\ request[r].open = Members(request[r])
    /\ request' = [request EXCEPT ![r] = Abandoned(@)]
    /\ spool' = Failed(r)
    /\ faults' = faults + 1
    /\ UNCHANGED <<kind, rejected, file, registry, reports>>

(* HTTP 500: the batch ended between two of its events.                    *)
ReceiveFailure(r) ==
    /\ request[r].owner # None /\ request[r].state = "failed"
    /\ request' = [request EXCEPT ![r] = NoRequest]
    /\ spool' = Failed(r)
    /\ UNCHANGED <<kind, rejected, file, registry, reports, faults>>

(* HTTP 400 or 422: the connector sets the whole batch aside.              *)
ReceiveRefusal(r) ==
    /\ request[r].owner # None /\ request[r].state = "refused"
    /\ request' = [request EXCEPT ![r] = NoRequest]
    /\ IF kind = "connector"
       THEN /\ rejected' = Archived(Members(request[r]))
            /\ spool' = Deleted(Members(request[r]))
       ELSE UNCHANGED <<rejected, spool>>
    /\ UNCHANGED <<kind, file, registry, reports, faults>>

Answered(q) == q.state = "working" /\ q.left = {} /\ q.owner # None

(* response_dispositions: what the answer means for a row.                 *)
Acknowledged(q) == {id \in q.open : q.result[id] \in {"accepted", "duplicate"}}

Refused(q) == q.open \ Acknowledged(q)

(* The call is over when the last result is applied.                       *)
Applied(q, S) == IF q.open \subseteq S THEN NoRequest ELSE [q EXCEPT !.open = @ \ S]

(* Every rejected item is a transaction of its own.                        *)
RejectItem(r, id) ==
    /\ Answered(request[r]) /\ id \in Refused(request[r])
    /\ rejected' = Archived({id})
    /\ spool' = Deleted({id})
    /\ request' = [request EXCEPT ![r] = Applied(@, {id})]
    /\ UNCHANGED <<kind, file, registry, reports, faults>>

(* The connector acknowledges its batch after the rejected items and in    *)
(* one statement; an SDK goes through the items one by one.                *)
Acknowledge(r, S) ==
    /\ Answered(request[r]) /\ S # {}
    /\ IF kind = "connector"
       THEN Refused(request[r]) = {} /\ S = Acknowledged(request[r])
       ELSE S \subseteq Acknowledged(request[r]) /\ Cardinality(S) = 1
    /\ spool' = Deleted(S)
    /\ request' = [request EXCEPT ![r] = Applied(@, S)]
    /\ UNCHANGED <<kind, rejected, file, registry, reports, faults>>

(* A statement on the spool fails: the loop of the connector logs it and   *)
(* leaves the rows to the expiry of their lease.                           *)
SenderFails(r) ==
    /\ request[r].owner # None /\ faults < MaxFaults
    /\ request' = [request EXCEPT ![r] = Abandoned(@)]
    /\ faults' = faults + 1
    /\ UNCHANGED <<kind, spool, rejected, file, registry, reports>>

(* The process ends and starts again; opening the connector's spool        *)
(* reclaims every lease.                                                   *)
Reopened ==
    [id \in Ids |-> IF kind = "connector" /\ spool[id].state = "inflight"
                    THEN Row("pending", spool[id].payload, TRUE)
                    ELSE spool[id]]

Restart ==
    /\ faults < MaxFaults
    /\ request' = [r \in Requests |->
           IF request[r].owner # None THEN Abandoned(request[r]) ELSE request[r]]
    /\ spool' = Reopened
    /\ faults' = faults + 1
    /\ UNCHANGED <<kind, rejected, file, registry, reports>>

-----------------------------------------------------------------------------
(* The batch endpoint.                                                     *)

(* Mutant of StatusForExisting: the hashes are not compared.               *)
StatusForExistingId(existing, payload) == "duplicate"

StatusForExisting(existing, payload) ==
    IF existing = payload THEN "duplicate" ELSE "conflict"

(* A request nobody waits for any more ends with its last event.           *)
Recorded(q, id, status) ==
    IF q.owner = None /\ q.left = {id} THEN NoRequest
    ELSE [q EXCEPT !.left = @ \ {id}, !.insert = None, !.result[id] = status]

(* validateEvent, and the lookup of persistEvent.                          *)
LookUp(r, id) ==
    LET q == request[r]
        payload == q.batch[id]
    IN  /\ q.state = "working" /\ id \in q.left /\ q.insert = None
        /\ request' = [request EXCEPT ![r] =
               IF payload \in Invalid THEN Recorded(q, id, "rejected")
               ELSE IF registry[id] # None
                    THEN Recorded(q, id, StatusForExisting(registry[id], payload))
                    ELSE [q EXCEPT !.insert = id]]
        /\ UNCHANGED <<kind, spool, rejected, file, registry, reports, faults>>

(* The unique index on application and event id: the first writer wins.    *)
Inserted(existing, payload) == IF existing = None THEN payload ELSE existing

(* The registry and inbox rows are created, or the unique index refuses    *)
(* them and the hash is read again.                                        *)
Insert(r) ==
    LET q == request[r]
        id == q.insert
        payload == q.batch[id]
    IN  /\ q.state = "working" /\ id # None
        /\ registry' = [registry EXCEPT ![id] = Inserted(@, payload)]
        /\ request' = [request EXCEPT ![r] =
               Recorded(q, id, IF registry[id] = None THEN "accepted"
                               ELSE StatusForExisting(registry[id], payload))]
        /\ UNCHANGED <<kind, spool, rejected, file, reports, faults>>

(* The API fails between two events, or refuses the body as a whole.       *)
ApiFails(r, outcome) ==
    /\ request[r].state = "working" /\ request[r].left # {} /\ faults < MaxFaults
    /\ outcome = "refused" => request[r].left = Members(request[r]) /\ request[r].insert = None
    /\ request' = [request EXCEPT ![r] =
           IF @.owner = None THEN NoRequest ELSE [@ EXCEPT !.state = outcome]]
    /\ faults' = faults + 1
    /\ UNCHANGED <<kind, spool, rejected, file, registry, reports>>

-----------------------------------------------------------------------------
Reply(r) ==
    \/ ReceiveFailure(r) \/ ReceiveRefusal(r)
    \/ \E id \in Ids : RejectItem(r, id)
    \/ \E S \in SUBSET Ids : Acknowledge(r, S)

Serve(r) == Insert(r) \/ \E id \in Ids : LookUp(r, id)

Fault(r) ==
    \/ LoseReply(r) \/ SenderFails(r)
    \/ \E outcome \in {"failed", "refused"} : ApiFails(r, outcome)

Next ==
    \/ \E id \in Ids, payload \in Payloads : Enqueue(id, payload)
    \/ \E r \in Requests, id \in Ids, payload \in Payloads : SendElsewhere(r, id, payload)
    \/ \E id \in Ids : BecomeDue(id)
    \/ \E s \in Senders, r \in Requests : Send(s, r)
    \/ \E r \in Requests : Serve(r) \/ Reply(r) \/ Fault(r)
    \/ Restart

Spec == Init /\ [][Next]_vars

SendId(id) == Ready(id) /\ \E s \in Senders, r \in Requests : Send(s, r) /\ request'[r].batch[id] # None

(* Clocks advance, the API answers, and the sender thread, or the refresh  *)
(* timer that flushes an SDK's spool, runs again and again.  Rows leave in *)
(* the order they came, so a row is not passed over forever.               *)
Fairness ==
    /\ \A id \in Ids : WF_vars(BecomeDue(id)) /\ SF_vars(SendId(id))
    /\ \A r \in Requests : WF_vars(Serve(r)) /\ WF_vars(Reply(r))

FairSpec == Spec /\ Fairness

-----------------------------------------------------------------------------
(* "Rows are deleted only after a 202 per-event accepted or duplicate      *)
(* result": whatever is lost, fails or crashes, a row leaves the spool     *)
(* only when the registry has the event or the archive its payload.        *)
RowsLeaveWithCause ==
    [][\A id \in Ids : (Spooled(id) /\ spool'[id].state = "absent") =>
           registry[id] # None \/ rejected'[id] # None]_vars

(* "The unique event ID is the concurrency arbitration point": batches     *)
(* that carry the same id at the same time never replace what was          *)
(* registered first.                                                       *)
RegisteredOnce ==
    [][\A id \in Ids : registry[id] # None => registry'[id] = registry[id]]_vars

Truthful(q, known) ==
    \A id \in Ids :
        /\ q.result[id] \in {"accepted", "duplicate"} => known[id] = q.batch[id]
        /\ q.result[id] = "conflict" => known[id] \notin {None, q.batch[id]}
        /\ q.result[id] = "rejected" => q.batch[id] \in Invalid

(* The answer is true when the caller acts on it: accepted and duplicate   *)
(* events are registered with this payload, conflicts with another one.    *)
AnswersAreTrue == \A r \in Requests : Truthful(request[r], registry)

(* The inductive invariant behind the three: a row has a payload, the file *)
(* covers what is stored, and a request names only events of its batch.    *)
RequestConsistent(q) ==
    /\ q.left \subseteq Members(q) /\ q.open \subseteq Members(q)
    /\ q.insert # None => q.insert \in q.left
    /\ \A id \in Ids : q.result[id] # None => id \in Members(q)

DeliveryInvariant ==
    /\ TypeOK
    /\ AnswersAreTrue
    /\ \A id \in Ids : Spooled(id) => spool[id].payload # None
    /\ Cardinality(Stored) <= file
    /\ \A r \in Requests : RequestConsistent(request[r])

(* What became of an event, as UsageIntake sees it.                        *)
Outcome ==
    [id \in Ids |-> IF registry[id] # None THEN "registered"
                    ELSE IF rejected[id] # None THEN "setAside"
                    ELSE IF Spooled(id) THEN "spooled" ELSE "unknown"]

Intake == INSTANCE UsageIntake WITH outcome <- Outcome

(* Spool, sender and endpoint together keep the promise of UsageIntake: no *)
(* event the spool took is lost, registered twice or forgotten.            *)
KeepsIntakePromise == Intake!FairSpec

=============================================================================
