------------------------- MODULE UsageDeliveryProofs -------------------------
(***************************************************************************)
(* Proofs about UsageDelivery: its inductive invariant, what follows from  *)
(* it, and that every step is a step of UsageIntake or leaves the outcomes *)
(* as they are.                                                            *)
(***************************************************************************)
EXTENDS UsageDelivery, FiniteSetTheorems, TLAPS

(* A request as the invariant wants it.                                    *)
GoodRequest(q, known) ==
    q \in RequestType /\ RequestConsistent(q) /\ Truthful(q, known)

(* A row as the invariant wants it.                                        *)
GoodRow(row) == row \in RowType /\ (row.state # "absent" => row.payload # None)

(* DeliveryInvariant, one request and one row at a time.                   *)
LEMMA InvariantByParts ==
    DeliveryInvariant <=>
        /\ kind \in {"connector", "sdk"} /\ file \in 0..Capacity
        /\ rejected \in [Ids -> Payloads \cup {None}]
        /\ registry \in [Ids -> Payloads \cup {None}]
        /\ reports \in 0..MaxReports /\ faults \in 0..MaxFaults
        /\ spool = [id \in Ids |-> spool[id]] /\ \A id \in Ids : GoodRow(spool[id])
        /\ request = [r \in Requests |-> request[r]]
        /\ \A r \in Requests : GoodRequest(request[r], registry)
        /\ Cardinality(Stored) <= file
BY DEF DeliveryInvariant, TypeOK, GoodRequest, GoodRow, AnswersAreTrue, Spooled

(* An empty slot is a good request.                                        *)
LEMMA NoRequestGood == ASSUME NEW known PROVE GoodRequest(NoRequest, known)
BY DeliveryAssumption
   DEF GoodRequest, NoRequest, RequestType, RequestConsistent, Members, Truthful, Statuses

(* A batch just sent is a good request.                                    *)
LEMMA SentGood ==
    ASSUME NEW known, NEW s \in Senders \cup {None}, NEW S \in SUBSET Ids,
           NEW batch \in [Ids -> Payloads \cup {None}], \A id \in S : batch[id] # None
    PROVE  GoodRequest(Sent(s, S, batch), known)
BY DeliveryAssumption
   DEF GoodRequest, Sent, RequestType, RequestConsistent, Members, Truthful, Statuses

(* Losing its caller leaves a request good.                                *)
LEMMA AbandonedGood ==
    ASSUME NEW known, NEW q, GoodRequest(q, known)
    PROVE  GoodRequest(Abandoned(q), known)
<1>1. CASE q.state = "working" /\ q.left # {}
  <2> DEFINE a == [q EXCEPT !.owner = None]
  <2>1. Abandoned(q) = a
    BY <1>1 DEF Abandoned
  <2>2. q \in RequestType
    BY DEF GoodRequest
  <2>3. a \in RequestType
    BY <2>2 DEF RequestType
  <2>4. a.batch = q.batch /\ a.left = q.left /\ a.open = q.open /\ a.insert = q.insert
        /\ a.result = q.result
    BY <2>2 DEF RequestType
  <2> HIDE DEF a
  <2>5. RequestConsistent(a) /\ Truthful(a, known)
    BY <2>4 DEF GoodRequest, RequestConsistent, Members, Truthful
  <2> QED
    BY <2>1, <2>3, <2>5 DEF GoodRequest
<1>2. CASE ~(q.state = "working" /\ q.left # {})
  BY <1>2, NoRequestGood DEF Abandoned
<1> QED
  BY <1>1, <1>2

(* Applying results leaves a request good.                                 *)
LEMMA AppliedGood ==
    ASSUME NEW known, NEW q, GoodRequest(q, known), NEW S
    PROVE  GoodRequest(Applied(q, S), known)
<1>1. CASE ~(q.open \subseteq S)
  <2> DEFINE a == [q EXCEPT !.open = @ \ S]
  <2>1. Applied(q, S) = a
    BY <1>1 DEF Applied
  <2>2. q \in RequestType
    BY DEF GoodRequest
  <2>3. a \in RequestType
    BY <2>2 DEF RequestType
  <2>4. a.batch = q.batch /\ a.left = q.left /\ a.open \subseteq q.open
        /\ a.insert = q.insert /\ a.result = q.result
    BY <2>2 DEF RequestType
  <2> HIDE DEF a
  <2>5. RequestConsistent(a) /\ Truthful(a, known)
    BY <2>4 DEF GoodRequest, RequestConsistent, Members, Truthful
  <2> QED
    BY <2>1, <2>3, <2>5 DEF GoodRequest
<1>2. CASE q.open \subseteq S
  BY <1>2, NoRequestGood DEF Applied
<1> QED
  BY <1>1, <1>2

(* Recording a true answer leaves a request good.                          *)
LEMMA RecordedGood ==
    ASSUME NEW known, NEW q, GoodRequest(q, known), NEW id \in Ids, id \in Members(q),
           NEW status \in Statuses,
           status \in {"accepted", "duplicate"} => known[id] = q.batch[id],
           status = "conflict" => known[id] \notin {None, q.batch[id]},
           status = "rejected" => q.batch[id] \in Invalid
    PROVE  GoodRequest(Recorded(q, id, status), known)
<1>1. CASE ~(q.owner = None /\ q.left = {id})
  <2> DEFINE a == [q EXCEPT !.left = @ \ {id}, !.insert = None, !.result[id] = status]
  <2>1. Recorded(q, id, status) = a
    BY <1>1 DEF Recorded
  <2>2. q \in RequestType
    BY DEF GoodRequest
  <2>3. a \in RequestType
    BY <2>2 DEF RequestType
  <2>4. a.batch = q.batch /\ a.left = q.left \ {id} /\ a.open = q.open
        /\ a.insert = None
    BY <2>2 DEF RequestType
  <2>5. a.result = [q.result EXCEPT ![id] = status] /\ q.result \in [Ids -> Statuses \cup {None}]
    BY <2>2 DEF RequestType
  <2> HIDE DEF a
  <2>6. RequestConsistent(a)
    BY <2>4, <2>5 DEF GoodRequest, RequestConsistent, Members
  <2>7. Truthful(a, known)
    BY <2>4, <2>5 DEF GoodRequest, Truthful
  <2> QED
    BY <2>1, <2>3, <2>6, <2>7 DEF GoodRequest
<1>2. CASE q.owner = None /\ q.left = {id}
  BY <1>2, NoRequestGood DEF Recorded
<1> QED
  BY <1>1, <1>2

(* Marking an event for insertion, or a failure, leaves a request good.    *)
LEMMA MarkedGood ==
    ASSUME NEW known, NEW q, GoodRequest(q, known)
    PROVE  /\ \A id \in q.left : GoodRequest([q EXCEPT !.insert = id], known)
           /\ \A o \in {"failed", "refused"} : GoodRequest([q EXCEPT !.state = o], known)
<1>1. q \in RequestType
  BY DEF GoodRequest
<1>2. ASSUME NEW id \in q.left
      PROVE  GoodRequest([q EXCEPT !.insert = id], known)
  <2> DEFINE a == [q EXCEPT !.insert = id]
  <2>1. a \in RequestType
    BY <1>1 DEF RequestType
  <2>2. a.batch = q.batch /\ a.left = q.left /\ a.open = q.open /\ a.insert = id
        /\ a.result = q.result
    BY <1>1 DEF RequestType
  <2> HIDE DEF a
  <2>3. GoodRequest(a, known)
    BY <2>1, <2>2 DEF GoodRequest, RequestConsistent, Members, Truthful
  <2> QED
    BY <2>3 DEF a
<1>3. ASSUME NEW o \in {"failed", "refused"}
      PROVE  GoodRequest([q EXCEPT !.state = o], known)
  <2> DEFINE a == [q EXCEPT !.state = o]
  <2>1. a \in RequestType
    BY <1>1 DEF RequestType
  <2>2. a.batch = q.batch /\ a.left = q.left /\ a.open = q.open /\ a.insert = q.insert
        /\ a.result = q.result
    BY <1>1 DEF RequestType
  <2> HIDE DEF a
  <2>3. GoodRequest(a, known)
    BY <2>1, <2>2 DEF GoodRequest, RequestConsistent, Members, Truthful
  <2> QED
    BY <2>3 DEF a
<1> QED
  BY <1>2, <1>3

(* Registering an event that had no registration keeps every answer true.  *)
LEMMA RegisteringKeepsGood ==
    ASSUME NEW known \in [Ids -> Payloads \cup {None}], NEW q, GoodRequest(q, known),
           NEW id \in Ids, NEW payload \in Payloads, known[id] = None
    PROVE  GoodRequest(q, [known EXCEPT ![id] = payload])
<1>1. \A other \in Ids : q.result[other] # None => q.batch[other] # None
  BY DEF GoodRequest, RequestConsistent, Members
<1>2. \A other \in Ids : q.result[other] \in {"accepted", "duplicate"} => other # id
  BY <1>1, DeliveryAssumption DEF GoodRequest, Truthful, RequestType, Statuses
<1> QED
  BY <1>2 DEF GoodRequest, Truthful

(* What a step has to keep when it stores no new event.                    *)
LEMMA KeptByParts ==
    ASSUME DeliveryInvariant, UNCHANGED <<kind, file>>,
           reports' \in 0..MaxReports, faults' \in 0..MaxFaults,
           rejected' \in [Ids -> Payloads \cup {None}],
           registry' \in [Ids -> Payloads \cup {None}],
           spool' = [id \in Ids |-> spool'[id]], \A id \in Ids : GoodRow(spool'[id]),
           request' = [r \in Requests |-> request'[r]],
           \A r \in Requests : GoodRequest(request'[r], registry'),
           Stored' \subseteq Stored
    PROVE  DeliveryInvariant'
<1>1. IsFiniteSet(Stored) /\ Cardinality(Stored) \in Nat
  <2>1. Stored \in SUBSET Ids
    BY DEF Stored
  <2>2. IsFiniteSet(Stored)
    BY <2>1, FS_Subset, DeliveryAssumption
  <2> QED
    BY <2>2, FS_CardinalityType
<1>2. IsFiniteSet(Stored') /\ Cardinality(Stored') <= Cardinality(Stored)
  <2>1. Stored' \in SUBSET Stored
    OBVIOUS
  <2> QED
    BY <1>1, <2>1, FS_Subset
<1>3. Cardinality(Stored') \in Nat
  BY <1>2, FS_CardinalityType
<1>4. Cardinality(Stored)' <= file'
  <2>1. Cardinality(Stored) <= file /\ file \in Int
    BY DEF DeliveryInvariant, TypeOK
  <2> QED
    BY <1>1, <1>2, <1>3, <2>1
<1>5. TypeOK'
  BY DEF DeliveryInvariant, TypeOK, GoodRow, GoodRequest
<1>6. AnswersAreTrue'
  BY DEF AnswersAreTrue, GoodRequest
<1>7. (\A id \in Ids : Spooled(id) => spool[id].payload # None)'
  BY DEF GoodRow, Spooled
<1>8. (\A r \in Requests : RequestConsistent(request[r]))'
  BY DEF GoodRequest
<1> QED
  BY <1>4, <1>5, <1>6, <1>7, <1>8 DEF DeliveryInvariant

(* A row that changes hands keeps its payload.                             *)
LEMMA RowForms ==
    ASSUME NEW state \in {"absent", "pending", "inflight"}, NEW payload \in Payloads \cup {None},
           NEW due \in BOOLEAN
    PROVE  /\ Row(state, payload, due) \in RowType
           /\ Row(state, payload, due).payload = payload
           /\ Row(state, payload, due).state = state
BY DEF Row, RowType

(* A row with a payload is a good row.                                     *)
LEMMA GoodRowMade ==
    ASSUME NEW state \in {"absent", "pending", "inflight"}, NEW payload \in Payloads,
           NEW due \in BOOLEAN
    PROVE  GoodRow(Row(state, payload, due)) /\ Row(state, payload, due).state = state
<1>1. payload \in Payloads \cup {None} /\ payload # None
  BY DeliveryAssumption
<1>2. /\ Row(state, payload, due) \in RowType /\ Row(state, payload, due).payload = payload
      /\ Row(state, payload, due).state = state
  BY <1>1, RowForms
<1> QED
  BY <1>1, <1>2 DEF GoodRow

(* Leasing, retrying, reopening and deleting keep rows good and store      *)
(* nothing new.                                                            *)
LEMMA RowsStayGood ==
    ASSUME DeliveryInvariant, NEW S
    PROVE  /\ \A id \in Ids : /\ GoodRow(spool[id])
                              /\ spool[id].state # "absent" \/ id \notin S => GoodRow(Leased(S)[id])
                              /\ GoodRow(Retried(S)[id]) /\ GoodRow(Deleted(S)[id])
                              /\ GoodRow(Reopened[id])
           /\ \A id \in Ids : spool[id].state = "absent" =>
                  /\ id \notin S => Leased(S)[id].state = "absent"
                  /\ Retried(S)[id].state = "absent" /\ Deleted(S)[id].state = "absent"
                  /\ Reopened[id].state = "absent"
           /\ \A id \in Ids : spool[id].state # "absent" =>
                  /\ Leased(S)[id].state # "absent" /\ Retried(S)[id].state # "absent"
                  /\ id \notin S => Deleted(S)[id].state # "absent"
                  /\ Reopened[id].state # "absent"
           /\ \A id \in S : id \in Ids => Deleted(S)[id].state = "absent"
<1> SUFFICES ASSUME NEW id \in Ids
             PROVE  /\ GoodRow(spool[id])
                    /\ spool[id].state # "absent" \/ id \notin S => GoodRow(Leased(S)[id])
                    /\ GoodRow(Retried(S)[id]) /\ GoodRow(Deleted(S)[id])
                    /\ GoodRow(Reopened[id])
                    /\ spool[id].state = "absent" =>
                       /\ id \notin S => Leased(S)[id].state = "absent"
                       /\ Retried(S)[id].state = "absent" /\ Deleted(S)[id].state = "absent"
                       /\ Reopened[id].state = "absent"
                    /\ spool[id].state # "absent" =>
                       /\ Leased(S)[id].state # "absent" /\ Retried(S)[id].state # "absent"
                       /\ id \notin S => Deleted(S)[id].state # "absent"
                       /\ Reopened[id].state # "absent"
                    /\ id \in S => Deleted(S)[id].state = "absent"
  OBVIOUS
<1> DEFINE row == spool[id]
           leased == Row("inflight", row.payload, FALSE)
           retried == Row("pending", row.payload, FALSE)
           reopened == Row("pending", row.payload, TRUE)
<1>1. row \in RowType /\ (row.state # "absent" => row.payload # None)
  BY DEF DeliveryInvariant, TypeOK, Spooled
<1>2. /\ leased \in RowType /\ leased.payload = row.payload /\ leased.state # "absent"
      /\ retried \in RowType /\ retried.payload = row.payload /\ retried.state # "absent"
      /\ reopened \in RowType /\ reopened.payload = row.payload /\ reopened.state # "absent"
  <2> HIDE DEF row
  <2>1. row.payload \in Payloads \cup {None}
    BY <1>1 DEF RowType
  <2> QED
    BY <2>1, RowForms
<1>3. GoodRow(NoRow) /\ NoRow.state = "absent"
  BY RowForms DEF GoodRow, NoRow
<1>4. /\ Leased(S)[id] = IF id \in S THEN leased ELSE row
      /\ Retried(S)[id] = IF id \in S /\ row.state # "absent" THEN retried ELSE row
      /\ Deleted(S)[id] = IF id \in S THEN NoRow ELSE row
      /\ Reopened[id] = IF kind = "connector" /\ row.state = "inflight" THEN reopened ELSE row
  BY DEF Leased, Retried, Deleted, Reopened, Spooled
<1>5. row = spool[id]
  OBVIOUS
<1>6. /\ GoodRow(row)
      /\ row.state # "absent" => GoodRow(leased) /\ GoodRow(retried) /\ GoodRow(reopened)
  <2> HIDE DEF leased, retried, reopened
  <2>1. GoodRow(row)
    BY <1>1 DEF GoodRow
  <2> HIDE DEF row
  <2>2. row.state # "absent" => row.payload # None
    BY <1>1
  <2> QED
    BY <1>2, <2>1, <2>2 DEF GoodRow
<1> HIDE DEF row, leased, retried, reopened
<1> QED
  BY <1>2, <1>3, <1>4, <1>5, <1>6

(* One request changes into a good one.                                    *)
LEMMA OneRequest ==
    ASSUME DeliveryInvariant, NEW r \in Requests, NEW q, GoodRequest(q, registry),
           registry' = registry, request' = [request EXCEPT ![r] = q]
    PROVE  /\ request' = [x \in Requests |-> request'[x]]
           /\ \A x \in Requests : GoodRequest(request'[x], registry')
<1>1. request \in [Requests -> RequestType]
  BY DEF DeliveryInvariant, TypeOK
<1>2. \A x \in Requests : GoodRequest(request[x], registry)
  BY <1>1 DEF DeliveryInvariant, GoodRequest, AnswersAreTrue
<1> QED
  BY <1>1, <1>2

(* The types a step relies on.                                             *)
LEMMA Types ==
    ASSUME DeliveryInvariant
    PROVE  /\ spool = [id \in Ids |-> spool[id]] /\ \A id \in Ids : GoodRow(spool[id])
           /\ request = [r \in Requests |-> request[r]]
           /\ \A r \in Requests : GoodRequest(request[r], registry)
           /\ rejected \in [Ids -> Payloads \cup {None}]
           /\ registry \in [Ids -> Payloads \cup {None}]
           /\ reports \in 0..MaxReports /\ faults \in 0..MaxFaults
           /\ faults < MaxFaults => faults + 1 \in 0..MaxFaults
           /\ reports < MaxReports => reports + 1 \in 0..MaxReports
<1>1. reports \in 0..MaxReports /\ faults \in 0..MaxFaults
  BY DEF DeliveryInvariant, TypeOK
<1>2. /\ faults < MaxFaults => faults + 1 \in 0..MaxFaults
      /\ reports < MaxReports => reports + 1 \in 0..MaxReports
  BY <1>1, DeliveryAssumption
<1> QED
  BY <1>1, <1>2, InvariantByParts

(* Archiving keeps what is set aside, and only for rows of the spool.      *)
LEMMA ArchivedType ==
    ASSUME DeliveryInvariant, NEW S
    PROVE  /\ Archived(S) \in [Ids -> Payloads \cup {None}]
           /\ \A id \in Ids : Archived(S)[id] # None => Spooled(id) \/ rejected[id] # None
           /\ \A id \in Ids : rejected[id] # None => Archived(S)[id] = rejected[id]
           /\ \A id \in S : id \in Ids /\ Spooled(id) => Archived(S)[id] # None
           /\ \A id \in Ids : id \notin S \/ ~Spooled(id) => Archived(S)[id] = rejected[id]
<1>1. \A id \in Ids : spool[id].payload \in Payloads \cup {None}
                     /\ (Spooled(id) => spool[id].payload # None)
  BY DEF DeliveryInvariant, TypeOK, RowType
<1>2. rejected \in [Ids -> Payloads \cup {None}]
  BY DEF DeliveryInvariant, TypeOK
<1> QED
  BY <1>1, <1>2 DEF Archived

(* Steps of the sender and of the clock.                                   *)
LEMMA SenderSteps ==
    ASSUME DeliveryInvariant, NEW r \in Requests,
           \/ \E s \in Senders : Send(s, r)
           \/ \E id \in Ids, payload \in Payloads : SendElsewhere(r, id, payload)
           \/ LoseReply(r) \/ SenderFails(r)
           \/ Reply(r)
    PROVE  DeliveryInvariant'
<1> USE Types
<1>1. ASSUME NEW s \in Senders, Send(s, r)
      PROVE  DeliveryInvariant'
  <2>1. PICK S \in SUBSET {id \in Ids : Ready(id)} :
          /\ request' = [request EXCEPT ![r] = Sent(s, S, Batch(S))]
          /\ spool' = IF kind = "connector" THEN Leased(S) ELSE spool
    BY <1>1 DEF Send
  <2>2. S \in SUBSET Ids /\ \A id \in S : spool[id].state # "absent" /\ spool[id].payload # None
    BY DEF Ready, Spooled, GoodRow
  <2>3. Batch(S) \in [Ids -> Payloads \cup {None}] /\ \A id \in S : Batch(S)[id] # None
    BY <2>2 DEF Batch, GoodRow, RowType
  <2>4. GoodRequest(Sent(s, S, Batch(S)), registry)
    BY <2>2, <2>3, SentGood
  <2>5. /\ spool' = [x \in Ids |-> spool'[x]] /\ \A x \in Ids : GoodRow(spool'[x])
        /\ \A x \in Ids : spool[x].state = "absent" => spool'[x].state = "absent"
    <3>1. Leased(S) = [x \in Ids |-> Leased(S)[x]]
      BY DEF Leased
    <3> QED
      BY <2>1, <2>2, <3>1, RowsStayGood
  <2>6. UNCHANGED <<kind, rejected, file, registry, reports, faults>>
    BY <1>1 DEF Send
  <2>7. Stored' \subseteq Stored
    BY <2>5, <2>6 DEF Stored, Spooled
  <2>8. /\ request' = [x \in Requests |-> request'[x]]
        /\ \A x \in Requests : GoodRequest(request'[x], registry')
    BY <2>1, <2>4, <2>6, OneRequest
  <2> QED
    BY <2>5, <2>6, <2>7, <2>8, KeptByParts
<1>2. ASSUME NEW id \in Ids, NEW payload \in Payloads, SendElsewhere(r, id, payload)
      PROVE  DeliveryInvariant'
  <2> DEFINE batch == [other \in Ids |-> IF other = id THEN payload ELSE None]
  <2>1. batch \in [Ids -> Payloads \cup {None}] /\ \A x \in {id} : batch[x] # None
    BY DeliveryAssumption
  <2>2. request' = [request EXCEPT ![r] = Sent(None, {id}, batch)]
    BY <1>2 DEF SendElsewhere
  <2> HIDE DEF batch
  <2>3. GoodRequest(Sent(None, {id}, batch), registry)
    BY <2>1, SentGood
  <2>4. UNCHANGED <<kind, spool, rejected, file, registry, faults>>
        /\ reports' \in 0..MaxReports
    BY <1>2 DEF SendElsewhere
  <2>5. /\ request' = [x \in Requests |-> request'[x]]
        /\ \A x \in Requests : GoodRequest(request'[x], registry')
    BY <2>2, <2>3, <2>4, OneRequest
  <2>6. Stored' \subseteq Stored
    BY <2>4 DEF Stored, Spooled
  <2> QED
    BY <2>4, <2>5, <2>6, KeptByParts
<1>3. ASSUME LoseReply(r) \/ SenderFails(r)
      PROVE  DeliveryInvariant'
  <2>1. UNCHANGED <<kind, rejected, file, registry, reports>> /\ faults' \in 0..MaxFaults
        /\ request' = [request EXCEPT ![r] = Abandoned(request[r])]
    BY <1>3 DEF LoseReply, SenderFails
  <2>2. /\ request' = [x \in Requests |-> request'[x]]
        /\ \A x \in Requests : GoodRequest(request'[x], registry')
    BY <2>1, AbandonedGood, OneRequest
  <2>3. spool' = Retried(Members(request[r])) \/ spool' = spool
    BY <1>3 DEF LoseReply, SenderFails, Failed
  <2>4. /\ spool' = [x \in Ids |-> spool'[x]] /\ \A x \in Ids : GoodRow(spool'[x])
        /\ \A x \in Ids : spool[x].state = "absent" => spool'[x].state = "absent"
    <3>1. Retried(Members(request[r])) = [x \in Ids |-> Retried(Members(request[r]))[x]]
      BY DEF Retried
    <3> QED
      BY <2>3, <3>1, RowsStayGood
  <2>5. Stored' \subseteq Stored
    BY <2>1, <2>4 DEF Stored, Spooled
  <2> QED
    BY <2>1, <2>2, <2>4, <2>5, KeptByParts
<1>4. ASSUME Reply(r)
      PROVE  DeliveryInvariant'
  <2>1. UNCHANGED <<kind, file, registry, reports, faults>>
    BY <1>4 DEF Reply, ReceiveFailure, ReceiveRefusal, RejectItem, Acknowledge
  <2>2. /\ request' = [x \in Requests |-> request'[x]]
        /\ \A x \in Requests : GoodRequest(request'[x], registry')
    <3>1. \/ request' = [request EXCEPT ![r] = NoRequest]
          \/ \E S : request' = [request EXCEPT ![r] = Applied(request[r], S)]
      BY <1>4 DEF Reply, ReceiveFailure, ReceiveRefusal, RejectItem, Acknowledge
    <3> QED
      BY <2>1, <3>1, NoRequestGood, AppliedGood, OneRequest
  <2>3. \E S : \/ spool' = spool /\ rejected' = rejected
               \/ spool' = Retried(S) /\ rejected' = rejected
               \/ spool' = Deleted(S) /\ rejected' = rejected
               \/ spool' = Deleted(S) /\ rejected' = Archived(S)
    BY <1>4 DEF Reply, ReceiveFailure, ReceiveRefusal, RejectItem, Acknowledge, Failed
  <2>4. PICK S : \/ spool' = spool /\ rejected' = rejected
                 \/ spool' = Retried(S) /\ rejected' = rejected
                 \/ spool' = Deleted(S) /\ rejected' = rejected
                 \/ spool' = Deleted(S) /\ rejected' = Archived(S)
    BY <2>3
  <2>5. /\ spool' = [x \in Ids |-> spool'[x]] /\ \A x \in Ids : GoodRow(spool'[x])
        /\ \A x \in Ids : spool[x].state = "absent" => spool'[x].state = "absent"
    <3>1. Retried(S) = [x \in Ids |-> Retried(S)[x]] /\ Deleted(S) = [x \in Ids |-> Deleted(S)[x]]
      BY DEF Retried, Deleted
    <3> QED
      BY <2>4, <3>1, RowsStayGood
  <2>6. /\ rejected' \in [Ids -> Payloads \cup {None}]
        /\ \A x \in Ids : rejected'[x] # None => Spooled(x) \/ rejected[x] # None
    BY <2>4, ArchivedType
  <2>7. Stored' \subseteq Stored
    BY <2>5, <2>6 DEF Stored, Spooled
  <2> QED
    BY <2>1, <2>2, <2>5, <2>6, <2>7, KeptByParts
<1> QED
  BY <1>1, <1>2, <1>3, <1>4

(* The clock and a restart.                                                *)
LEMMA OtherSteps ==
    ASSUME DeliveryInvariant, Restart \/ \E id \in Ids : BecomeDue(id)
    PROVE  DeliveryInvariant'
<1> USE Types
<1>1. ASSUME NEW id \in Ids, BecomeDue(id)
      PROVE  DeliveryInvariant'
  <2>1. GoodRow(Row(spool[id].state, spool[id].payload, TRUE))
        /\ Row(spool[id].state, spool[id].payload, TRUE).state = spool[id].state
    <3>1. GoodRow(spool[id])
      OBVIOUS
    <3>2. spool[id].state \in {"absent", "pending", "inflight"}
          /\ spool[id].payload \in Payloads
      BY <1>1, <3>1 DEF GoodRow, RowType, BecomeDue, Spooled
    <3> QED
      BY <3>2, GoodRowMade
  <2>2. /\ spool' = [x \in Ids |-> spool'[x]] /\ \A x \in Ids : GoodRow(spool'[x])
        /\ \A x \in Ids : spool'[x].state = spool[x].state
    BY <1>1, <2>1 DEF BecomeDue
  <2>3. Stored' \subseteq Stored
    BY <1>1, <2>2 DEF BecomeDue, Stored, Spooled
  <2> QED
    BY <1>1, <2>2, <2>3, KeptByParts DEF BecomeDue
<1>2. ASSUME Restart
      PROVE  DeliveryInvariant'
  <2>1. UNCHANGED <<kind, rejected, file, registry, reports>> /\ faults' \in 0..MaxFaults
        /\ spool' = Reopened
    BY <1>2 DEF Restart
  <2>2. /\ request' = [x \in Requests |-> request'[x]]
        /\ \A x \in Requests : GoodRequest(request'[x], registry')
    BY <1>2, <2>1, AbandonedGood DEF Restart
  <2>3. /\ spool' = [x \in Ids |-> spool'[x]] /\ \A x \in Ids : GoodRow(spool'[x])
        /\ \A x \in Ids : spool[x].state = "absent" => spool'[x].state = "absent"
    <3>1. Reopened = [x \in Ids |-> Reopened[x]]
      BY DEF Reopened
    <3> QED
      BY <2>1, <3>1, RowsStayGood
  <2>4. Stored' \subseteq Stored
    BY <2>1, <2>3 DEF Stored, Spooled
  <2> QED
    BY <2>1, <2>2, <2>3, <2>4, KeptByParts
<1> QED
  BY <1>1, <1>2

(* Steps of the batch endpoint.                                            *)
LEMMA EndpointSteps ==
    ASSUME DeliveryInvariant, NEW r \in Requests,
           Serve(r) \/ \E o \in {"failed", "refused"} : ApiFails(r, o)
    PROVE  DeliveryInvariant'
<1> USE Types
<1> DEFINE q == request[r]
<1>1. GoodRequest(q, registry) /\ q.left \subseteq Members(q)
      /\ (q.insert # None => q.insert \in q.left)
  BY DEF GoodRequest, RequestConsistent
<1>2. Members(q) \subseteq Ids
  BY DEF Members
<1> HIDE DEF q
<1>3. ASSUME NEW o \in {"failed", "refused"}, ApiFails(r, o)
      PROVE  DeliveryInvariant'
  <2>1. UNCHANGED <<kind, spool, rejected, file, registry, reports>> /\ faults' \in 0..MaxFaults
    BY <1>3 DEF ApiFails
  <2>2. \/ request' = [request EXCEPT ![r] = NoRequest]
        \/ request' = [request EXCEPT ![r] = [q EXCEPT !.state = o]]
    BY <1>3 DEF ApiFails, q
  <2>3. GoodRequest([q EXCEPT !.state = o], registry)
    BY <1>1, MarkedGood
  <2>4. /\ request' = [x \in Requests |-> request'[x]]
        /\ \A x \in Requests : GoodRequest(request'[x], registry')
    BY <2>1, <2>2, <2>3, NoRequestGood, OneRequest
  <2>5. Stored' \subseteq Stored
    BY <2>1 DEF Stored, Spooled
  <2> QED
    BY <2>1, <2>4, <2>5, KeptByParts
<1>4. ASSUME NEW id \in Ids, LookUp(r, id)
      PROVE  DeliveryInvariant'
  <2>1. UNCHANGED <<kind, spool, rejected, file, registry, reports, faults>> /\ id \in q.left
    BY <1>4 DEF LookUp, q
  <2>2. id \in Members(q)
    BY <1>1, <2>1
  <2> DEFINE status == StatusForExisting(registry[id], q.batch[id])
             next == IF q.batch[id] \in Invalid THEN Recorded(q, id, "rejected")
                     ELSE IF registry[id] # None THEN Recorded(q, id, status)
                     ELSE [q EXCEPT !.insert = id]
  <2>3. request' = [request EXCEPT ![r] = next]
    BY <1>4 DEF LookUp, q
  <2>4. q.batch[id] \in Invalid => GoodRequest(Recorded(q, id, "rejected"), registry)
    BY <1>1, <2>2, RecordedGood DEF Statuses
  <2>5. registry[id] # None => GoodRequest(Recorded(q, id, status), registry)
    <3>1. /\ status \in Statuses /\ status # "rejected"
          /\ status \in {"accepted", "duplicate"} => registry[id] = q.batch[id]
          /\ status = "conflict" => registry[id] # q.batch[id]
      BY DEF StatusForExisting, Statuses
    <3> HIDE DEF status
    <3> QED
      BY <1>1, <2>2, <3>1, RecordedGood
  <2>6. GoodRequest([q EXCEPT !.insert = id], registry)
    BY <1>1, <2>1, MarkedGood
  <2>7. GoodRequest(next, registry)
    BY <2>4, <2>5, <2>6
  <2> HIDE DEF next
  <2>8. /\ request' = [x \in Requests |-> request'[x]]
        /\ \A x \in Requests : GoodRequest(request'[x], registry')
    BY <2>1, <2>3, <2>7, OneRequest
  <2>9. Stored' \subseteq Stored
    BY <2>1 DEF Stored, Spooled
  <2> QED
    BY <2>1, <2>8, <2>9, KeptByParts
<1>5. ASSUME Insert(r)
      PROVE  DeliveryInvariant'
  <2> DEFINE id == q.insert
             payload == q.batch[id]
             status == IF registry[id] = None THEN "accepted"
                       ELSE StatusForExisting(registry[id], payload)
             known == [registry EXCEPT ![id] = Inserted(@, payload)]
  <2>1. UNCHANGED <<kind, spool, rejected, file, reports, faults>> /\ registry' = known
        /\ request' = [request EXCEPT ![r] = Recorded(q, id, status)] /\ id # None
    BY <1>5 DEF Insert, q
  <2>2. id \in Ids /\ id \in Members(q)
    BY <1>1, <1>2, <2>1
  <2>3. payload \in Payloads
    BY <1>1, <2>2 DEF GoodRequest, RequestType, Members
  <2>4. known = IF registry[id] = None THEN [registry EXCEPT ![id] = payload] ELSE registry
    BY <2>2 DEF Inserted
  <2>5. known \in [Ids -> Payloads \cup {None}]
    BY <2>2, <2>3 DEF Inserted
  <2>6. /\ status \in Statuses /\ status # "rejected"
        /\ status \in {"accepted", "duplicate"} => known[id] = payload
        /\ status = "conflict" => known[id] \notin {None, payload}
    BY <2>2, <2>3 DEF StatusForExisting, Statuses, Inserted
  <2> HIDE DEF id, payload, status, known
  <2>7. \A x \in Requests : GoodRequest(request[x], known)
    BY <2>2, <2>3, <2>4, RegisteringKeepsGood
  <2>8. GoodRequest(Recorded(q, id, status), known)
    <3>1. GoodRequest(q, known)
      BY <2>7 DEF q
    <3>2. payload = q.batch[id]
      BY DEF payload
    <3> QED
      BY <2>2, <2>6, <3>1, <3>2, RecordedGood
  <2>9. /\ request' = [x \in Requests |-> request'[x]]
        /\ \A x \in Requests : GoodRequest(request'[x], registry')
    BY <2>1, <2>7, <2>8
  <2>10. Stored' \subseteq Stored
    BY <2>1 DEF Stored, Spooled
  <2> QED
    BY <2>1, <2>5, <2>9, <2>10, KeptByParts
<1> QED
  BY <1>3, <1>4, <1>5 DEF Serve

(* A new row: the capacity check bounds the file.                          *)
LEMMA EnqueueStep ==
    ASSUME DeliveryInvariant, NEW id \in Ids, NEW payload \in Payloads, Enqueue(id, payload)
    PROVE  DeliveryInvariant'
<1> USE Types
<1>1. /\ UNCHANGED <<kind, rejected, registry, request, faults>> /\ reports' \in 0..MaxReports
      /\ spool' = [spool EXCEPT ![id] = Row("pending", payload, TRUE)]
      /\ file' = Larger(file, Cardinality(Stored) + 1) /\ file + 1 <= Capacity
      /\ ~Spooled(id) /\ rejected[id] = None
  BY DEF Enqueue, Grown
<1>2. GoodRow(Row("pending", payload, TRUE))
      /\ Row("pending", payload, TRUE).state # "absent"
  BY GoodRowMade
<1>3. spool' = [x \in Ids |-> spool'[x]] /\ \A x \in Ids : GoodRow(spool'[x])
  BY <1>1, <1>2
<1>4. Stored' = Stored \cup {id} /\ id \notin Stored
  BY <1>1, <1>2 DEF Stored, Spooled
<1>5. IsFiniteSet(Stored)
  <2>1. Stored \in SUBSET Ids
    BY DEF Stored
  <2> QED
    BY <2>1, FS_Subset, DeliveryAssumption
<1>6. Cardinality(Stored) \in Nat
  BY <1>5, FS_CardinalityType
<1>7. Cardinality(Stored') = Cardinality(Stored) + 1
  BY <1>4, <1>5, FS_AddElement
<1>8. Cardinality(Stored) <= file /\ file \in 0..Capacity
  BY DEF DeliveryInvariant, TypeOK
<1>9. file' \in 0..Capacity /\ Cardinality(Stored') <= file'
  BY <1>1, <1>6, <1>7, <1>8, DeliveryAssumption DEF Larger
<1>10. TypeOK'
  BY <1>1, <1>3, <1>9 DEF DeliveryInvariant, TypeOK, GoodRow
<1>11. AnswersAreTrue' /\ (\A r \in Requests : RequestConsistent(request[r]))'
  BY <1>1 DEF DeliveryInvariant, AnswersAreTrue
<1>12. (\A x \in Ids : Spooled(x) => spool[x].payload # None)'
  BY <1>3 DEF GoodRow, Spooled
<1> QED
  BY <1>9, <1>10, <1>11, <1>12 DEF DeliveryInvariant

(* Every step keeps the invariant.                                         *)
LEMMA DeliveryStep ==
    DeliveryInvariant /\ [Next]_vars => DeliveryInvariant'
<1> SUFFICES ASSUME DeliveryInvariant, [Next]_vars PROVE DeliveryInvariant'
  OBVIOUS
<1>1. CASE UNCHANGED vars
  BY <1>1 DEF vars, DeliveryInvariant, TypeOK, AnswersAreTrue, Spooled, Stored
<1> QED
  BY <1>1, SenderSteps, OtherSteps, EndpointSteps, EnqueueStep DEF Next, Fault

(* The initial states satisfy the invariant.                               *)
LEMMA DeliveryInit == Init => DeliveryInvariant
<1> SUFFICES ASSUME Init PROVE DeliveryInvariant
  OBVIOUS
<1>1. Stored = {}
  BY DEF Init, Stored, Spooled, NoRow, Row
<1>2. Cardinality(Stored) = 0
  BY <1>1, FS_EmptySet
<1>3. GoodRow(NoRow)
  BY RowForms DEF GoodRow, NoRow
<1>4. \A r \in Requests : GoodRequest(request[r], registry)
  BY NoRequestGood DEF Init
<1>5. /\ kind \in {"connector", "sdk"} /\ file \in 0..Capacity
      /\ rejected \in [Ids -> Payloads \cup {None}]
      /\ registry \in [Ids -> Payloads \cup {None}]
      /\ reports \in 0..MaxReports /\ faults \in 0..MaxFaults
  BY DeliveryAssumption DEF Init
<1>6. /\ spool = [id \in Ids |-> spool[id]] /\ \A id \in Ids : GoodRow(spool[id])
      /\ request = [r \in Requests |-> request[r]]
  BY <1>3 DEF Init
<1>7. Cardinality(Stored) <= file
  BY <1>2 DEF Init
<1> QED
  BY <1>4, <1>5, <1>6, <1>7, InvariantByParts

(* For any number of events, senders, requests and faults: what the API    *)
(* answers is true, and the file of the spool stays within its limit.      *)
THEOREM DeliveryIsSound == Spec => []DeliveryInvariant
BY DeliveryInit, DeliveryStep, PTL DEF Spec

(* A row is deleted by sender.py, runtime-usage-reporter.ts and their kin  *)
(* only when the event is registered or set aside.                         *)
LEMMA LeaveWithCauseStep ==
    ASSUME DeliveryInvariant, [Next]_vars, NEW id \in Ids,
           Spooled(id), spool'[id].state = "absent"
    PROVE  registry[id] # None \/ rejected'[id] # None
<1> USE Types
<1>1. spool[id].state # "absent"
  BY DEF Spooled
<1>2. ASSUME NEW x \in Ids, NEW payload \in Payloads, Enqueue(x, payload)
      PROVE  FALSE
  <2>1. Row("pending", payload, TRUE).state = "pending"
    BY DEF Row
  <2> QED
    BY <1>1, <1>2, <2>1 DEF Enqueue
<1>3. ASSUME NEW x \in Ids, BecomeDue(x)
      PROVE  FALSE
  <2>1. Row(spool[x].state, spool[x].payload, TRUE).state = spool[x].state
    BY DEF Row
  <2> QED
    BY <1>1, <1>3, <2>1 DEF BecomeDue
<1>4. ASSUME NEW s \in Senders, NEW r \in Requests, Send(s, r)
      PROVE  FALSE
  <2>1. \E S : spool' = Leased(S) \/ spool' = spool
    BY <1>4 DEF Send
  <2> QED
    BY <1>1, <2>1, RowsStayGood
<1>5. CASE Restart
  BY <1>1, <1>5, RowsStayGood DEF Restart
<1>6. ASSUME NEW r \in Requests, LoseReply(r) \/ ReceiveFailure(r)
      PROVE  FALSE
  <2>1. \E S : spool' = Retried(S) \/ spool' = spool
    BY <1>6 DEF LoseReply, ReceiveFailure, Failed
  <2> QED
    BY <1>1, <2>1, RowsStayGood
<1>7. ASSUME NEW r \in Requests, ReceiveRefusal(r) \/ \E x \in Ids : RejectItem(r, x)
      PROVE  rejected'[id] # None
  <2>1. PICK S : \/ spool' = spool
                 \/ spool' = Deleted(S) /\ rejected' = Archived(S)
    BY <1>7 DEF ReceiveRefusal, RejectItem
  <2> QED
    BY <1>1, <2>1, RowsStayGood, ArchivedType
<1>8. ASSUME NEW r \in Requests, NEW S \in SUBSET Ids, Acknowledge(r, S)
      PROVE  registry[id] # None
  <2>1. spool' = Deleted(S) /\ S \subseteq Acknowledged(request[r])
    BY <1>8 DEF Acknowledge
  <2>2. id \in S
    BY <1>1, <2>1, RowsStayGood
  <2>3. /\ id \in request[r].open
        /\ request[r].result[id] \in {"accepted", "duplicate"}
    BY <2>1, <2>2 DEF Acknowledged
  <2>4. GoodRequest(request[r], registry)
    OBVIOUS
  <2>5. registry[id] = request[r].batch[id] /\ request[r].batch[id] # None
    BY <2>3, <2>4 DEF GoodRequest, Truthful, RequestConsistent, Members
  <2> QED
    BY <2>5
<1>9. CASE spool' = spool
  BY <1>1, <1>9
<1>10. CASE \E r \in Requests : Serve(r) \/ SenderFails(r) \/ \E o \in {"failed", "refused"} : ApiFails(r, o)
  BY <1>9, <1>10 DEF Serve, LookUp, Insert, SenderFails, ApiFails
<1>11. CASE \E r \in Requests, x \in Ids, payload \in Payloads : SendElsewhere(r, x, payload)
  BY <1>9, <1>11 DEF SendElsewhere
<1>12. CASE UNCHANGED vars
  BY <1>9, <1>12 DEF vars
<1> QED
  BY <1>2, <1>3, <1>4, <1>5, <1>6, <1>7, <1>8, <1>10, <1>11, <1>12 DEF Next, Reply, Fault

(* "Rows are deleted only after a 202 per-event accepted or duplicate      *)
(* result", or moved to the archive: for every crash, loss and order.      *)
THEOREM NoRowIsLost == Spec => RowsLeaveWithCause
<1>1. DeliveryInvariant /\ [Next]_vars =>
        [\A id \in Ids : (Spooled(id) /\ spool'[id].state = "absent") =>
           registry[id] # None \/ rejected'[id] # None]_vars
  BY LeaveWithCauseStep
<1> QED
  BY <1>1, DeliveryIsSound, PTL DEF Spec, RowsLeaveWithCause

(* The registry changes by Insert only, and only where it had nothing.     *)
LEMMA RegistryStep ==
    ASSUME DeliveryInvariant, [Next]_vars
    PROVE  \/ registry' = registry
           \/ /\ UNCHANGED <<spool, rejected>>
              /\ \E id \in Ids, payload \in Payloads :
                    registry[id] = None /\ registry' = [registry EXCEPT ![id] = payload]
<1> USE Types
<1>1. ASSUME NEW r \in Requests, Insert(r), registry' # registry
      PROVE  /\ UNCHANGED <<spool, rejected>>
             /\ \E id \in Ids, payload \in Payloads :
                   registry[id] = None /\ registry' = [registry EXCEPT ![id] = payload]
  <2> DEFINE q == request[r]
             id == q.insert
             payload == q.batch[id]
  <2>1. UNCHANGED <<spool, rejected>> /\ id # None
        /\ registry' = [registry EXCEPT ![id] = Inserted(@, payload)]
    BY <1>1 DEF Insert
  <2>2. GoodRequest(q, registry)
    OBVIOUS
  <2>3. id \in Ids /\ id \in Members(q)
    BY <2>1, <2>2 DEF GoodRequest, RequestConsistent, Members
  <2>4. payload \in Payloads
    BY <2>2, <2>3 DEF GoodRequest, RequestType, Members
  <2>5. registry[id] = None
    BY <1>1, <2>1, <2>3 DEF Inserted
  <2>6. registry' = [registry EXCEPT ![id] = payload]
    BY <2>1, <2>3, <2>5 DEF Inserted
  <2> HIDE DEF q, id, payload
  <2> QED
    BY <2>1, <2>3, <2>4, <2>5, <2>6
<1>2. (\E r \in Requests : Insert(r)) \/ registry' = registry
  BY DEF Next, Serve, Reply, Fault, vars, Enqueue, BecomeDue, Send, SendElsewhere, LookUp,
         LoseReply, SenderFails, ApiFails, ReceiveFailure, ReceiveRefusal, RejectItem,
         Acknowledge, Restart
<1> QED
  BY <1>1, <1>2

(* What persistEvent registered first for an event id is never replaced.   *)
THEOREM FirstWriterWins == Spec => RegisteredOnce
<1>1. DeliveryInvariant /\ [Next]_vars =>
        [\A id \in Ids : registry[id] # None => registry'[id] = registry[id]]_vars
  BY RegistryStep, Types
<1> QED
  BY <1>1, DeliveryIsSound, PTL DEF Spec, RegisteredOnce

(* How a step changes the spool: rows change hands, one row is added, or   *)
(* rows are deleted, with a copy or because they are registered.           *)
LEMMA SpoolStep ==
    ASSUME DeliveryInvariant, [Next]_vars
    PROVE  \/ /\ rejected' = rejected
              /\ \A id \in Ids : spool'[id].state = "absent" <=> spool[id].state = "absent"
           \/ /\ rejected' = rejected
              /\ \E x \in Ids : /\ spool[x].state = "absent" /\ spool'[x].state # "absent"
                                /\ rejected[x] = None
                                /\ \A id \in Ids \ {x} : spool'[id] = spool[id]
           \/ \E S : spool' = Deleted(S) /\ rejected' = Archived(S)
           \/ /\ rejected' = rejected
              /\ \A id \in Ids : registry[id] = None =>
                    (spool'[id].state = "absent" <=> spool[id].state = "absent")
<1> USE Types
<1>1. ASSUME NEW x \in Ids, NEW payload \in Payloads, Enqueue(x, payload)
      PROVE  /\ rejected' = rejected
             /\ spool[x].state = "absent" /\ spool'[x].state # "absent" /\ rejected[x] = None
             /\ \A id \in Ids \ {x} : spool'[id] = spool[id]
  <2>1. Row("pending", payload, TRUE).state = "pending"
    BY DEF Row
  <2> QED
    BY <1>1, <2>1 DEF Enqueue, Spooled
<1>2. ASSUME NEW x \in Ids, BecomeDue(x)
      PROVE  /\ rejected' = rejected
             /\ \A id \in Ids : spool'[id].state = "absent" <=> spool[id].state = "absent"
  <2>1. Row(spool[x].state, spool[x].payload, TRUE).state = spool[x].state
    BY DEF Row
  <2> QED
    BY <1>2, <2>1 DEF BecomeDue
<1>3. ASSUME NEW s \in Senders, NEW r \in Requests, Send(s, r)
      PROVE  /\ rejected' = rejected
             /\ \A id \in Ids : spool'[id].state = "absent" <=> spool[id].state = "absent"
  <2>1. PICK S \in SUBSET {id \in Ids : Ready(id)} : spool' = Leased(S) \/ spool' = spool
    BY <1>3 DEF Send
  <2>2. \A id \in S : spool[id].state # "absent"
    BY DEF Ready, Spooled
  <2>3. rejected' = rejected
    BY <1>3 DEF Send
  <2> QED
    BY <2>1, <2>2, <2>3, RowsStayGood
<1>4. ASSUME NEW r \in Requests, Restart \/ LoseReply(r) \/ ReceiveFailure(r)
      PROVE  /\ rejected' = rejected
             /\ \A id \in Ids : spool'[id].state = "absent" <=> spool[id].state = "absent"
  <2>1. \E S : spool' = Retried(S) \/ spool' = Reopened \/ spool' = spool
    BY <1>4 DEF Restart, LoseReply, ReceiveFailure, Failed
  <2>2. rejected' = rejected
    BY <1>4 DEF Restart, LoseReply, ReceiveFailure
  <2> QED
    BY <2>1, <2>2, RowsStayGood
<1>5. ASSUME Restart
      PROVE  /\ rejected' = rejected
             /\ \A id \in Ids : spool'[id].state = "absent" <=> spool[id].state = "absent"
  BY <1>5, RowsStayGood DEF Restart
<1>6. ASSUME NEW r \in Requests, ReceiveRefusal(r) \/ \E x \in Ids : RejectItem(r, x)
      PROVE  \/ UNCHANGED <<spool, rejected>>
             \/ \E S : spool' = Deleted(S) /\ rejected' = Archived(S)
  BY <1>6 DEF ReceiveRefusal, RejectItem
<1>7. ASSUME NEW r \in Requests, NEW S \in SUBSET Ids, Acknowledge(r, S)
      PROVE  /\ rejected' = rejected
             /\ \A id \in Ids : registry[id] = None =>
                   (spool'[id].state = "absent" <=> spool[id].state = "absent")
  <2>1. spool' = Deleted(S) /\ rejected' = rejected
    BY <1>7 DEF Acknowledge
  <2>2. \A id \in Ids : id \notin S => (spool'[id].state = "absent" <=> spool[id].state = "absent")
    BY <2>1, RowsStayGood
  <2>3. \A id \in S : id \in Acknowledged(request[r])
    BY <1>7 DEF Acknowledge
  <2>4. \A id \in S : registry[id] # None
    BY <2>3 DEF Acknowledged, GoodRequest, Truthful, RequestConsistent, Members
  <2> QED
    BY <2>1, <2>2, <2>4
<1>8. CASE \E r \in Requests : \/ Serve(r) \/ SenderFails(r)
                              \/ \E o \in {"failed", "refused"} : ApiFails(r, o)
  BY <1>8 DEF Serve, LookUp, Insert, SenderFails, ApiFails
<1>9. CASE \E r \in Requests, x \in Ids, payload \in Payloads : SendElsewhere(r, x, payload)
  BY <1>9 DEF SendElsewhere
<1>10. CASE UNCHANGED vars
  BY <1>10 DEF vars
<1> QED
  BY <1>1, <1>2, <1>3, <1>4, <1>5, <1>6, <1>7, <1>8, <1>9, <1>10 DEF Next, Reply, Fault

(* Every step is a step of UsageIntake or leaves the outcomes alone.       *)
LEMMA IntakeStep ==
    ASSUME DeliveryInvariant, [Next]_vars
    PROVE  Intake!Next \/ Outcome' = Outcome
<1> USE Types
<1> DEFINE Of(known, aside, state) ==
             IF known # None THEN "registered" ELSE IF aside # None THEN "setAside"
             ELSE IF state # "absent" THEN "spooled" ELSE "unknown"
<1>1. /\ Outcome = [id \in Ids |-> Of(registry[id], rejected[id], spool[id].state)]
      /\ Outcome' = [id \in Ids |-> Of(registry'[id], rejected'[id], spool'[id].state)]
  BY DEF Outcome, Spooled
<1>2. CASE registry' = registry
  <2>1. CASE /\ rejected' = rejected
             /\ \A id \in Ids : registry[id] = None =>
                   (spool'[id].state = "absent" <=> spool[id].state = "absent")
    BY <1>1, <1>2, <2>1
  <2>2. ASSUME NEW x \in Ids, rejected' = rejected, rejected[x] = None,
               spool[x].state = "absent", spool'[x].state # "absent",
               \A id \in Ids \ {x} : spool'[id] = spool[id]
        PROVE  Intake!Next \/ Outcome' = Outcome
    <3>1. CASE registry[x] # None
      BY <1>1, <1>2, <2>2, <3>1
    <3>2. CASE registry[x] = None
      <4>1. Outcome[x] = "unknown" /\ Outcome' = [Outcome EXCEPT ![x] = "spooled"]
        BY <1>1, <1>2, <2>2, <3>2
      <4>2. Intake!Take(x)
        BY <4>1 DEF Intake!Take
      <4> QED
        BY <4>2 DEF Intake!Next
    <3> QED
      BY <3>1, <3>2
  <2>3. ASSUME NEW S, spool' = Deleted(S), rejected' = Archived(S)
        PROVE  Intake!Next \/ Outcome' = Outcome
    <3> DEFINE T == {id \in Ids : id \in S /\ Outcome[id] = "spooled"}
    <3>1. \A id \in Ids : id \in T =>
            Outcome[id] = "spooled" /\ Outcome'[id] = "setAside"
      <4> SUFFICES ASSUME NEW id \in T PROVE Outcome'[id] = "setAside"
        OBVIOUS
      <4>1. registry[id] = None /\ Spooled(id) /\ id \in S /\ id \in Ids
        BY DEF Outcome
      <4>2. rejected'[id] # None
        BY <2>3, <4>1, ArchivedType
      <4> QED
        BY <1>1, <1>2, <4>1, <4>2
    <3>2. \A id \in Ids : id \notin T => Outcome'[id] = Outcome[id]
      <4> SUFFICES ASSUME NEW id \in Ids, id \notin T PROVE Outcome'[id] = Outcome[id]
        OBVIOUS
      <4>1. CASE registry[id] # None
        BY <1>1, <1>2, <4>1
      <4>2. CASE rejected[id] # None
        <5>1. rejected'[id] = rejected[id]
          BY <2>3, <4>2, ArchivedType
        <5> QED
          BY <1>1, <1>2, <4>2, <5>1
      <4>3. CASE registry[id] = None /\ rejected[id] = None /\ ~Spooled(id)
        <5>1. rejected'[id] = rejected[id] /\ spool'[id].state = "absent"
          BY <2>3, <4>3, ArchivedType, RowsStayGood DEF Spooled
        <5> QED
          BY <1>1, <1>2, <4>3, <5>1 DEF Spooled
      <4>4. CASE registry[id] = None /\ rejected[id] = None /\ Spooled(id)
        <5>1. Outcome[id] = "spooled"
          BY <4>4 DEF Outcome
        <5>2. id \notin S
          BY <5>1
        <5>3. rejected'[id] = rejected[id] /\ spool'[id].state # "absent"
          BY <2>3, <4>4, <5>2, ArchivedType, RowsStayGood DEF Spooled
        <5> QED
          BY <1>1, <1>2, <4>4, <5>3 DEF Spooled
      <4> QED
        BY <4>1, <4>2, <4>3, <4>4
    <3>3. T \in SUBSET Ids
      OBVIOUS
    <3> HIDE DEF T
    <3>4. Outcome' = [id \in Ids |-> IF id \in T THEN "setAside" ELSE Outcome[id]]
      <4>1. Outcome' = [id \in Ids |-> Outcome'[id]]
        BY <1>1
      <4> QED
        BY <3>1, <3>2, <4>1
    <3>5. Intake!SetAside(T)
      BY <3>1, <3>3, <3>4 DEF Intake!SetAside
    <3> QED
      BY <3>3, <3>5 DEF Intake!Next
  <2> QED
    BY <2>1, <2>2, <2>3, SpoolStep
<1>3. CASE registry' # registry
  <2>1. UNCHANGED <<spool, rejected>>
    BY <1>3, RegistryStep
  <2>2. PICK id \in Ids, payload \in Payloads :
          registry[id] = None /\ registry' = [registry EXCEPT ![id] = payload]
    BY <1>3, RegistryStep
  <2>3. payload # None
    BY DeliveryAssumption
  <2>4. Outcome[id] # "registered" /\ Outcome' = [Outcome EXCEPT ![id] = "registered"]
    BY <1>1, <2>1, <2>2, <2>3
  <2>5. Intake!Register(id)
    BY <2>4 DEF Intake!Register
  <2> QED
    BY <2>5 DEF Intake!Next
<1> QED
  BY <1>2, <1>3

(* Spool, sender and endpoint implement UsageIntake: an event the spool    *)
(* took stays spooled until it is registered or set aside, whatever fails. *)
THEOREM DeliveryImplementsIntake == Spec => Intake!Spec
<1>1. Init => Intake!Init
  BY DEF Init, Intake!Init, Outcome, Spooled, NoRow, Row
<1>2. DeliveryInvariant /\ [Next]_vars => [Intake!Next]_Outcome
  BY IntakeStep
<1> QED
  BY <1>1, <1>2, DeliveryIsSound, PTL DEF Spec, Intake!Spec
=============================================================================
