----------------------- MODULE ClickHouseOutboxProofs -----------------------
(***************************************************************************)
(* Proofs about ClickHouseOutbox for any number of rows, events and        *)
(* workers and any bounds.                                                 *)
(***************************************************************************)
EXTENDS ClickHouseOutbox, TLAPS

(* What no step undoes: a row keeps its kind, event and source, ClickHouse *)
(* keeps what it stored, and the newest watermark does not fall.           *)
Keeps ==
    /\ \A i \in Ids : outbox[i].status # "absent" =>
           /\ outbox'[i].status # "absent" /\ outbox'[i].kind = outbox[i].kind
           /\ outbox'[i].event = outbox[i].event /\ outbox'[i].source = outbox[i].source
    /\ \A s \in Ids : clickhouse.copies[s] > 0 => clickhouse'.copies[s] > 0
    /\ clickhouse.watermark <= clickhouse'.watermark

(* Outbox ids are positive, so the cursor and the watermark are naturals.  *)
LEMMA Naturals ==
    ASSUME OutboxAssumption
    PROVE  \A i \in Ids \cup {0} : i \in Nat
BY DEF OutboxAssumption

(* A batch that a step does not touch stays sound.                         *)
LEMMA KeepsBatch ==
    ASSUME OutboxAssumption, TypeOK, TypeOK', Keeps, NEW j \in BatchType, BatchSound(j)
    PROVE  BatchSound(j)'
<1>1. ASSUME NEW i \in j.batch
      PROVE  outbox'[i].status # "absent" /\ Passed(j, i)'
  <2>1. i \in Ids /\ outbox[i].status # "absent" /\ Passed(j, i)
    BY DEF BatchSound, BatchType
  <2>2. /\ outbox'[i].status # "absent" /\ outbox'[i].kind = outbox[i].kind
        /\ outbox'[i].source = outbox[i].source
    BY <2>1 DEF Keeps
  <2>3. RowStored(i) => RowStored(i)'
    BY <2>1, <2>2 DEF Keeps, RowStored
  <2> QED
    BY <2>1, <2>2, <2>3 DEF Passed
<1>2. ASSUME j.mode = "ack" PROVE j.top <= clickhouse'.watermark
  <2>1. j.top \in Ids /\ j.top <= clickhouse.watermark
    BY <1>2 DEF BatchSound, BatchType
  <2>2. clickhouse.watermark \in Nat /\ clickhouse'.watermark \in Nat /\ j.top \in Nat
    <3>1. clickhouse.watermark \in Ids \cup {0} /\ clickhouse'.watermark \in Ids \cup {0}
      BY DEF TypeOK
    <3> QED
      BY <2>1, <3>1, Naturals
  <2>3. clickhouse.watermark <= clickhouse'.watermark
    BY DEF Keeps
  <2> QED
    BY <2>1, <2>2, <2>3
<1> QED
  BY <1>1, <1>2 DEF BatchSound

(* A step that replaces one batch by a sound one keeps all batches sound.  *)
LEMMA OneBatch ==
    ASSUME OutboxAssumption, TypeOK, TypeOK', BatchesAreSound, Keeps, NEW w \in Workers,
           \A v \in Workers \ {w} : worker'[v] = worker[v],
           BatchSound(worker[w])'
    PROVE  BatchesAreSound'
<1> SUFFICES ASSUME NEW v \in Workers, v # w PROVE BatchSound(worker[v])'
  BY DEF BatchesAreSound
<1>1. PICK j : j = worker[v]
  OBVIOUS
<1>2. j \in BatchType /\ BatchSound(j)
  <2>1. j \in BatchType
    BY <1>1 DEF TypeOK
  <2> QED
    BY <1>1, <2>1 DEF BatchesAreSound, BatchSound, Passed
<1>3. BatchSound(j)'
  BY <1>2, KeepsBatch
<1>4. worker'[v] = j
  BY <1>1
<1> QED
  BY <1>3, <1>4 DEF BatchSound, Passed

(* Steps that change no batch.                                             *)
LEMMA NoBatchChanges ==
    ASSUME OutboxAssumption, TypeOK, TypeOK', BatchesAreSound, Keeps, worker' = worker
    PROVE  BatchesAreSound'
<1> SUFFICES ASSUME NEW v \in Workers PROVE BatchSound(worker[v])'
  BY DEF BatchesAreSound
<1>1. PICK j : j = worker[v]
  OBVIOUS
<1>2. j \in BatchType /\ BatchSound(j)
  <2>1. j \in BatchType
    BY <1>1 DEF TypeOK
  <2> QED
    BY <1>1, <2>1 DEF BatchesAreSound, BatchSound, Passed
<1>3. BatchSound(j)'
  BY <1>2, KeepsBatch
<1> QED
  BY <1>3, <1>1 DEF BatchSound, Passed

(* Marks that are not set by a step stay justified.                        *)
LEMMA MarksKept ==
    ASSUME OutboxAssumption, TypeOK, RowsAreWhole, Keeps, MarksAreStored,
           NEW e \in Events, NEW kind \in Kinds,
           \E i \in Ids : /\ outbox[i].event = e /\ outbox[i].kind = kind
                          /\ clickhouse.copies[outbox[i].source] > 0
    PROVE  \E i \in Ids : /\ outbox'[i].event = e /\ outbox'[i].kind = kind
                          /\ clickhouse'.copies[outbox'[i].source] > 0
<1>1. PICK i \in Ids : /\ outbox[i].event = e /\ outbox[i].kind = kind
                       /\ clickhouse.copies[outbox[i].source] > 0
  OBVIOUS
<1>2. outbox[i].status # "absent" /\ outbox[i].source \in Ids
  BY <1>1 DEF RowsAreWhole, NoRow, OutboxAssumption
<1> QED
  BY <1>1, <1>2 DEF Keeps

-----------------------------------------------------------------------------
(* The rows and batches that the steps build.                              *)
LEMMA RowTypes ==
    ASSUME OutboxAssumption
    PROVE  /\ NoRow \in RowType
           /\ \A k \in Kinds \cup {None}, e \in Events \cup {None}, i \in Ids :
                  NewRow(k, e, i) \in RowType
           /\ \A row \in RowType, w \in Workers : LeasedRow(row, w) \in RowType
           /\ \A row \in RowType, d \in BOOLEAN :
                  \A s \in {"sent", "failed", "dead_letter"} :
                      /\ [row EXCEPT !.status = s] \in RowType
                      /\ [row EXCEPT !.status = s, !.due = d] \in RowType
           /\ \A row \in RowType : /\ [row EXCEPT !.due = TRUE] \in RowType
                                   /\ [row EXCEPT !.expired = TRUE] \in RowType
<1>1. 0 \in 0..MaxAttempts
  BY DEF OutboxAssumption
<1>2. NoRow \in RowType
  BY <1>1 DEF NoRow, RowType
<1>3. \A k \in Kinds \cup {None}, e \in Events \cup {None}, i \in Ids : NewRow(k, e, i) \in RowType
  BY <1>1 DEF NewRow, RowType
<1>4. ASSUME NEW row \in RowType, NEW w \in Workers PROVE LeasedRow(row, w) \in RowType
  <2>1. row.attempts \in 0..MaxAttempts
    BY DEF RowType
  <2>2. (IF row.attempts < MaxAttempts THEN row.attempts + 1 ELSE row.attempts) \in 0..MaxAttempts
    BY <2>1 DEF OutboxAssumption
  <2> DEFINE n == IF row.attempts < MaxAttempts THEN row.attempts + 1 ELSE row.attempts
  <2>3. LeasedRow(row, w) = [row EXCEPT !.status = "leased", !.owner = w, !.expired = FALSE,
                                        !.attempts = n]
    BY DEF LeasedRow
  <2>4. n \in 0..MaxAttempts
    BY <2>2
  <2> HIDE DEF n
  <2> QED
    BY <2>3, <2>4 DEF RowType
<1>5. ASSUME NEW row \in RowType, NEW d \in BOOLEAN, NEW s \in {"sent", "failed", "dead_letter"}
      PROVE  /\ [row EXCEPT !.status = s] \in RowType
             /\ [row EXCEPT !.status = s, !.due = d] \in RowType
  BY DEF RowType
<1>6. ASSUME NEW row \in RowType
      PROVE  /\ [row EXCEPT !.due = TRUE] \in RowType
             /\ [row EXCEPT !.expired = TRUE] \in RowType
  BY DEF RowType
<1> QED
  BY <1>2, <1>3, <1>4, <1>5, <1>6

LEMMA BatchTypes ==
    ASSUME NEW j \in BatchType
    PROVE  /\ NoBatch \in BatchType
           /\ \A batch \in SUBSET Ids, top \in Ids :
                  [NoBatch EXCEPT !.mode = "query", !.batch = batch, !.top = top] \in BatchType
           /\ \A r \in BOOLEAN : Failing(j, r) \in BatchType
           /\ Advanced(j) \in BatchType
           /\ \A m \in SUBSET Ids : [j EXCEPT !.mode = "insert", !.missing = m] \in BatchType
           /\ [j EXCEPT !.mode = "ack"] \in BatchType
           /\ \A t \in SUBSET Ids, k \in {"degraded", "failed", None} :
                  [j EXCEPT !.todo = t, !.mark = k] \in BatchType
           /\ Continued(j) \in BatchType
<1>1. NoBatch \in BatchType
  BY DEF NoBatch, BatchType, Kinds
<1>2. ASSUME NEW batch \in SUBSET Ids, NEW top \in Ids
      PROVE  [NoBatch EXCEPT !.mode = "query", !.batch = batch, !.top = top] \in BatchType
  BY DEF NoBatch, BatchType, Kinds
<1>3. ASSUME NEW r \in BOOLEAN PROVE Failing(j, r) \in BatchType
  BY DEF Failing, BatchType
<1>4. Advanced(j) \in BatchType
  BY DEF Advanced, BatchType, Kinds
<1>5. ASSUME NEW m \in SUBSET Ids
      PROVE  [j EXCEPT !.mode = "insert", !.missing = m] \in BatchType
  BY DEF BatchType
<1>6. [j EXCEPT !.mode = "ack"] \in BatchType
  BY DEF BatchType
<1>7. ASSUME NEW t \in SUBSET Ids, NEW k \in {"degraded", "failed", None}
      PROVE  [j EXCEPT !.todo = t, !.mark = k] \in BatchType
  BY DEF BatchType
<1>8. Continued(j) \in BatchType
  BY <1>1 DEF Continued, BatchType
<1> QED
  BY <1>1, <1>2, <1>3, <1>4, <1>5, <1>6, <1>7, <1>8

LEMMA WorkerTypes ==
    ASSUME TypeOK, NEW w \in Workers, NEW j \in BatchType, worker' = [worker EXCEPT ![w] = j],
           j.mode = "fail" => j.todo # {} \/ j.mark # None
    PROVE  /\ worker' \in [Workers -> BatchType]
           /\ \A v \in Workers : worker'[v].mode = "fail" => worker'[v].todo # {} \/ worker'[v].mark # None
BY DEF TypeOK

LEMMA FailingTypes ==
    ASSUME NEW j \in BatchType, NEW r \in BOOLEAN, j.top \in j.batch
    PROVE  /\ Failing(j, r) \in BatchType /\ Failing(j, r).mode = "fail"
           /\ Failing(j, r).todo # {} /\ Failing(j, r).todo = j.batch
           /\ Failing(j, r).batch = j.batch
<1>1. Failing(j, r) \in BatchType
  BY BatchTypes
<1>2. /\ Failing(j, r).mode = "fail" /\ Failing(j, r).todo = j.batch
      /\ Failing(j, r).batch = j.batch
  BY DEF Failing, BatchType
<1> QED
  BY <1>1, <1>2

(* Every step keeps the types; a failed batch has leases to go through     *)
(* because a batch that delivers is never empty.                           *)
LEMMA TypeStep ==
    ASSUME OutboxAssumption, TypeOK, RowsAreWhole, BatchesAreSound, Next
    PROVE  TypeOK'
<1>a. /\ outbox \in [Ids -> RowType] /\ clickhouse \in [copies : [Ids -> Nat], watermark : Ids \cup {0}]
      /\ sync \in [last : Ids \cup {0}, status : {"none", "healthy", "degraded", "failed"}]
      /\ worker \in [Workers -> BatchType]
      /\ registry \in [Events -> [raw : BOOLEAN, official : BOOLEAN]]
      /\ failures \in 0..MaxFailures /\ replays \in 0..MaxReplays
  BY DEF TypeOK
<1>b. failures < MaxFailures => failures + 1 \in 0..MaxFailures
  BY <1>a DEF OutboxAssumption
<1>c. ASSUME NEW e \in Events, NEW raw \in Ids \cup {None}, NEW rating \in Ids \cup {None},
             Enqueue(e, raw, rating)
      PROVE  TypeOK'
  <2>1. outbox' \in [Ids -> RowType]
    BY <1>a, <1>c, RowTypes DEF Enqueue, Kinds
  <2> QED
    BY <2>1, <1>c DEF TypeOK, Enqueue
<1>d. ASSUME NEW range \in SUBSET Events, ResetOutbox(range) PROVE TypeOK'
  <2> DEFINE originals == {i \in Ids : Reprojectable(i, range)}
  <2>1. PICK clone \in [originals -> {i \in Ids : outbox[i].status = "absent"}] :
             outbox' = [i \in Ids |->
                  IF \E o \in originals : clone[o] = i
                  THEN LET o == CHOOSE x \in originals : clone[x] = i
                       IN  NewRow(outbox[o].kind, outbox[o].event, o)
                  ELSE outbox[i]]
    BY <1>d DEF ResetOutbox
  <2>2. ASSUME NEW i \in Ids PROVE outbox'[i] \in RowType
    <3>1. CASE \E o \in originals : clone[o] = i
      <4> DEFINE o == CHOOSE x \in originals : clone[x] = i
      <4>0. o \in originals
        BY <3>1
      <4>1. outbox'[i] = NewRow(outbox[o].kind, outbox[o].event, o)
        BY <2>1, <3>1
      <4> HIDE DEF o
      <4>2. outbox[o] \in RowType /\ o \in Ids
        BY <1>a, <4>0
      <4>3. outbox[o].kind \in Kinds \cup {None} /\ outbox[o].event \in Events \cup {None}
        BY <4>2 DEF RowType
      <4>4. NewRow(outbox[o].kind, outbox[o].event, o) \in RowType
        BY <4>2, <4>3, RowTypes
      <4> QED
        BY <4>1, <4>4
    <3>2. CASE ~\E o \in originals : clone[o] = i
      BY <2>1, <3>2, <1>a
    <3> QED
      BY <3>1, <3>2
  <2>3. outbox' \in [Ids -> RowType]
    BY <2>1, <2>2
  <2>4. replays' \in 0..MaxReplays
    BY <1>a, <1>d DEF ResetOutbox, OutboxAssumption
  <2> QED
    BY <2>3, <2>4, <1>d DEF TypeOK, ResetOutbox
<1>e. ASSUME NEW i \in Ids, BecomeDue(i) \/ LeaseExpires(i) PROVE TypeOK'
  <2>1. outbox[i] \in RowType
    BY <1>a
  <2>2. outbox' \in [Ids -> RowType]
    <3>1. /\ [outbox[i] EXCEPT !.due = TRUE] \in RowType
          /\ [outbox[i] EXCEPT !.expired = TRUE] \in RowType
      BY <2>1, RowTypes
    <3>2. \/ outbox' = [outbox EXCEPT ![i] = [outbox[i] EXCEPT !.due = TRUE]]
          \/ outbox' = [outbox EXCEPT ![i] = [outbox[i] EXCEPT !.expired = TRUE]]
      BY <1>e DEF BecomeDue, LeaseExpires
    <3> QED
      BY <3>1, <3>2, <1>a
  <2>3. failures' \in 0..MaxFailures
    BY <1>a, <1>b, <1>e DEF BecomeDue, LeaseExpires
  <2> QED
    BY <2>2, <2>3, <1>e DEF TypeOK, BecomeDue, LeaseExpires
<1>f. ASSUME NEW w \in Workers, WorkerStep(w) \/ ClickHouseFails(w) \/ Abandon(w) PROVE TypeOK'
  <2> DEFINE j == worker[w]
  <2>a. j \in BatchType /\ BatchSound(j) /\ NoBatch \in BatchType
    BY <1>a, BatchTypes DEF BatchesAreSound
  <2>b. j.mode \in {"query", "insert", "watermark", "ack"} => j.top \in j.batch /\ j.top \in Ids
    BY <2>a DEF BatchSound, BatchType
  <2>c. NoBatch.mode = "idle"
    BY DEF NoBatch
  <2>1. CASE LeaseOutbox(w)
    <3>1. PICK batch \in SUBSET Ids, top \in Ids :
            /\ top \in batch
            /\ outbox' = [i \in Ids |-> IF i \in batch THEN LeasedRow(outbox[i], w) ELSE outbox[i]]
            /\ worker' = [worker EXCEPT ![w] =
                  IF Mappable(batch)
                  THEN [NoBatch EXCEPT !.mode = "query", !.batch = batch, !.top = top]
                  ELSE Failing([NoBatch EXCEPT !.mode = "query", !.batch = batch, !.top = top], FALSE)]
      BY <2>1 DEF LeaseOutbox
    <3>2. outbox' \in [Ids -> RowType]
      BY <3>1, <1>a, RowTypes
    <3> DEFINE l == [NoBatch EXCEPT !.mode = "query", !.batch = batch, !.top = top]
    <3>3. l \in BatchType /\ l.mode = "query" /\ l.top = top /\ l.batch = batch
      BY BatchTypes, <2>a DEF NoBatch
    <3> DEFINE k == IF Mappable(batch) THEN l ELSE Failing(l, FALSE)
    <3>4. k \in BatchType /\ (k.mode = "fail" => k.todo # {})
      <4> HIDE DEF l
      <4> QED BY <3>1, <3>3, FailingTypes
    <3>5. worker' = [worker EXCEPT ![w] = k]
      BY <3>1
    <3> HIDE DEF k
    <3> QED
      BY <3>2, <3>4, <3>5, <2>1, WorkerTypes DEF TypeOK, LeaseOutbox
  <2>2. CASE Query(w)
    <3> DEFINE missing == Missing(Rows(j))
               k == IF Conflicting(Rows(j)) THEN Failing(j, FALSE)
                    ELSE IF missing = {} THEN Advanced(j)
                    ELSE [j EXCEPT !.mode = "insert", !.missing = missing]
    <3>1. worker' = [worker EXCEPT ![w] = k] /\ j.mode = "query"
      BY <2>2 DEF Query
    <3>2. missing \in SUBSET Ids
      BY DEF Missing
    <3>3. k \in BatchType /\ (k.mode = "fail" => k.todo # {})
      <4>1. Advanced(j).mode # "fail" /\ [j EXCEPT !.mode = "insert", !.missing = missing].mode # "fail"
        BY <2>a DEF Advanced, BatchType
      <4> HIDE DEF missing, j
      <4> QED
        BY <3>1, <3>2, <4>1, <2>a, <2>b, FailingTypes, BatchTypes
    <3> HIDE DEF k
    <3> QED
      BY <3>1, <3>3, <2>2, WorkerTypes DEF TypeOK, Query
  <2>3. CASE Insert(w)
    <3>1. worker' = [worker EXCEPT ![w] = Advanced(j)]
      BY <2>3 DEF Insert
    <3>2. Advanced(j) \in BatchType /\ Advanced(j).mode # "fail"
      <4>1. Advanced(j) \in BatchType
        BY <2>a, BatchTypes
      <4>2. Advanced(j).mode # "fail"
        BY <2>a DEF Advanced, BatchType
      <4> QED
        BY <4>1, <4>2
    <3>3. clickhouse' \in [copies : [Ids -> Nat], watermark : Ids \cup {0}]
      <4>1. Stored(clickhouse.copies, j.missing) \in [Ids -> Nat]
        BY <1>a DEF Stored
      <4>2. clickhouse' = [clickhouse EXCEPT !.copies = Stored(clickhouse.copies, j.missing)]
        BY <2>3 DEF Insert
      <4> QED
        BY <4>1, <4>2, <1>a
    <3> QED
      BY <3>1, <3>2, <3>3, <2>3, WorkerTypes DEF TypeOK, Insert
  <2>4. CASE WriteWatermark(w)
    <3>1. worker' = [worker EXCEPT ![w] = [j EXCEPT !.mode = "ack"]]
      BY <2>4 DEF WriteWatermark
    <3>2. [j EXCEPT !.mode = "ack"] \in BatchType /\ [j EXCEPT !.mode = "ack"].mode # "fail"
      <4>1. [j EXCEPT !.mode = "ack"] \in BatchType
        BY <2>a, BatchTypes
      <4>2. [j EXCEPT !.mode = "ack"].mode # "fail"
        BY <2>a DEF BatchType
      <4> QED
        BY <4>1, <4>2
    <3>3. clickhouse' \in [copies : [Ids -> Nat], watermark : Ids \cup {0}]
      <4>1. clickhouse' = [clickhouse EXCEPT !.watermark = Newest(clickhouse.watermark, j.top)]
        BY <2>4 DEF WriteWatermark
      <4>2. Newest(clickhouse.watermark, j.top) \in Ids \cup {0}
        BY <1>a, <2>b, <2>4 DEF WriteWatermark, Newest
      <4> QED
        BY <4>1, <4>2, <1>a
    <3> QED
      BY <3>1, <3>2, <3>3, <2>4, WorkerTypes DEF TypeOK, WriteWatermark
  <2>5. CASE MarkDelivered(w)
    <3>1. worker' = [worker EXCEPT ![w] = NoBatch] /\ j.top \in Ids
      BY <2>5, <2>b DEF MarkDelivered
    <3>2. outbox' \in [Ids -> RowType]
      BY <1>a, <2>5, RowTypes DEF MarkDelivered
    <3>3. registry' \in [Events -> [raw : BOOLEAN, official : BOOLEAN]]
      BY <1>a, <2>5, ZenonT(30) DEF MarkDelivered, Marked
    <3>4. sync' \in [last : Ids \cup {0}, status : {"none", "healthy", "degraded", "failed"}]
      BY <1>a, <2>5, <3>1 DEF MarkDelivered, Synced
    <3> QED
      BY <3>1, <3>2, <3>3, <3>4, <2>a, <2>c, <2>5, WorkerTypes DEF TypeOK, MarkDelivered
  <2>6. CASE FailLease(w)
    <3>1. PICK i \in j.todo, s \in {"failed", "dead_letter"}, k \in {"degraded", "failed"} :
            /\ outbox' = [outbox EXCEPT ![i].status = s, ![i].due = FALSE]
            /\ worker' = [worker EXCEPT ![w].todo = @ \ {i}, ![w].mark = k]
      BY <2>6 DEF FailLease
    <3>2. i \in Ids /\ outbox[i] \in RowType /\ j.todo \ {i} \in SUBSET Ids
      BY <2>a, <1>a DEF BatchType
    <3>3. outbox' = [outbox EXCEPT ![i] = [outbox[i] EXCEPT !.status = s, !.due = FALSE]]
      BY <3>1, <3>2, <1>a
    <3>4. outbox' \in [Ids -> RowType]
      BY <3>2, <3>3, <1>a, RowTypes
    <3>5. worker' = [worker EXCEPT ![w] = [j EXCEPT !.todo = j.todo \ {i}, !.mark = k]]
      BY <3>1, <1>a
    <3>6. [j EXCEPT !.todo = j.todo \ {i}, !.mark = k] \in BatchType
      BY <3>2, <2>a, BatchTypes
    <3>7. [j EXCEPT !.todo = j.todo \ {i}, !.mark = k].mark # None
      <4>1. j.mark \in {"degraded", "failed", None} /\ None \notin {"degraded", "failed"}
        BY <2>a DEF BatchType, OutboxAssumption
      <4> QED
        BY <4>1, <2>a DEF BatchType
    <3> QED
      BY <3>4, <3>5, <3>6, <3>7, <2>6, WorkerTypes DEF TypeOK, FailLease
  <2>7. CASE MarkSyncFailure(w)
    <3>1. worker' = [worker EXCEPT ![w] = Continued(j)] /\ Continued(j) \in BatchType
      BY <2>7, <2>a, BatchTypes DEF MarkSyncFailure
    <3>2. Continued(j).mode = "fail" => Continued(j).todo # {}
      BY <2>a DEF Continued, NoBatch, BatchType
    <3>3. sync' \in [last : Ids \cup {0}, status : {"none", "healthy", "degraded", "failed"}]
      BY <1>a, <2>a, <2>7 DEF MarkSyncFailure, BatchType
    <3> QED
      BY <3>1, <3>2, <3>3, <2>7, WorkerTypes DEF TypeOK, MarkSyncFailure
  <2>8. CASE LoseLease(w)
    BY <2>a, <2>c, <2>8, WorkerTypes DEF TypeOK, LoseLease
  <2>9. CASE ClickHouseFails(w)
    <3>1. worker' = [worker EXCEPT ![w] = Failing(j, TRUE)] /\ j.mode \in {"query", "insert", "watermark"}
      BY <2>9 DEF ClickHouseFails
    <3>2. Failing(j, TRUE) \in BatchType /\ Failing(j, TRUE).todo # {}
      BY <3>1, <2>a, <2>b, FailingTypes
    <3>3. clickhouse' \in [copies : [Ids -> Nat], watermark : Ids \cup {0}]
      BY <1>a, <2>b, <2>9 DEF ClickHouseFails, Newest, Stored
    <3>4. failures' \in 0..MaxFailures
      BY <1>b, <2>9 DEF ClickHouseFails
    <3> QED
      BY <3>1, <3>2, <3>3, <3>4, <2>9, WorkerTypes DEF TypeOK, ClickHouseFails
  <2>10. CASE Abandon(w)
    <3>1. failures' \in 0..MaxFailures
      BY <1>b, <2>10 DEF Abandon
    <3> QED
      BY <3>1, <2>a, <2>c, <2>10, WorkerTypes DEF TypeOK, Abandon
  <2> QED
    BY <1>f, <2>1, <2>2, <2>3, <2>4, <2>5, <2>6, <2>7, <2>8, <2>9, <2>10 DEF WorkerStep
<1> QED
  BY <1>c, <1>d, <1>e, <1>f DEF Next

-----------------------------------------------------------------------------
(* What a row keeps when its status, lease or schedule changes.            *)
SameRow(i) ==
    /\ outbox[i].status # "absent" => outbox'[i].status # "absent"
    /\ outbox[i].status = "absent" => outbox'[i] = outbox[i]
    /\ outbox'[i].kind = outbox[i].kind /\ outbox'[i].event = outbox[i].event
    /\ outbox'[i].source = outbox[i].source

LEMMA StoredKeeps ==
    ASSUME NEW copies \in [Ids -> Nat], NEW ids \in SUBSET Ids, NEW s \in Ids
    PROVE  /\ copies[s] > 0 => Stored(copies, ids)[s] > 0
           /\ s \in ids => Stored(copies, ids)[s] > 0
BY DEF Stored

LEMMA NewestGrows ==
    ASSUME OutboxAssumption, NEW mark \in Ids \cup {0}, NEW top \in Ids
    PROVE  /\ mark <= Newest(mark, top) /\ top <= Newest(mark, top)
           /\ Newest(mark, top) \in Ids \cup {0}
<1>1. mark \in Nat /\ top \in Nat
  BY Naturals
<1> QED
  BY <1>1 DEF Newest

(* No step undoes a row, a stored delivery or the watermark.               *)
LEMMA KeepsStep ==
    ASSUME OutboxAssumption, TypeOK, RowsAreWhole, BatchesAreSound, Next
    PROVE  Keeps /\ RowsAreWhole'
<1>a. /\ outbox \in [Ids -> RowType] /\ worker \in [Workers -> BatchType]
      /\ clickhouse \in [copies : [Ids -> Nat], watermark : Ids \cup {0}]
  BY DEF TypeOK
<1>b. clickhouse.watermark \in Nat /\ clickhouse.copies \in [Ids -> Nat]
      /\ clickhouse.watermark \in Ids \cup {0}
  BY <1>a, Naturals
<1> DEFINE Later == /\ \A s \in Ids : clickhouse.copies[s] > 0 => clickhouse'.copies[s] > 0
                    /\ clickhouse.watermark <= clickhouse'.watermark
<1>c. clickhouse' = clickhouse => Later
  BY <1>b
<1>d. ASSUME \A i \in Ids : SameRow(i) PROVE Later => Keeps /\ RowsAreWhole'
  BY <1>d DEF Keeps, RowsAreWhole, SameRow
<1>e. outbox' = outbox => \A i \in Ids : SameRow(i)
  BY DEF SameRow
<1>1. ASSUME NEW e \in Events, NEW raw \in Ids \cup {None}, NEW rating \in Ids \cup {None},
             Enqueue(e, raw, rating)
      PROVE  Keeps /\ RowsAreWhole'
  <2>1. \A i \in Ids : \/ outbox[i].status = "absent" /\ \E k \in Kinds : outbox'[i] = NewRow(k, e, i)
                       \/ outbox'[i] = outbox[i]
    BY <1>1 DEF Enqueue, Kinds
  <2>2. \A i \in Ids, k \in Kinds : /\ NewRow(k, e, i).status = "pending"
                                   /\ NewRow(k, e, i).source = i /\ NewRow(k, e, i).kind = k
    BY DEF NewRow
  <2>3. clickhouse' = clickhouse
    BY <1>1 DEF Enqueue
  <2>4. ASSUME NEW i \in Ids
        PROVE  IF outbox'[i].status = "absent" THEN outbox'[i] = NoRow
               ELSE outbox'[i].source \in Ids /\ outbox'[i].kind \in Kinds
    <3>1. CASE outbox'[i] = outbox[i]
      BY <3>1 DEF RowsAreWhole
    <3>2. CASE \E k \in Kinds : outbox'[i] = NewRow(k, e, i)
      BY <3>2, <2>2
    <3> QED
      BY <2>1, <3>1, <3>2
  <2>5. RowsAreWhole'
    BY <2>4 DEF RowsAreWhole, NoRow
  <2> QED
    BY <2>1, <2>3, <2>5, <1>c DEF Keeps
<1>2. ASSUME NEW range \in SUBSET Events, ResetOutbox(range) PROVE Keeps /\ RowsAreWhole'
  <2> DEFINE originals == {i \in Ids : Reprojectable(i, range)}
  <2>1. PICK clone \in [originals -> {i \in Ids : outbox[i].status = "absent"}] :
             outbox' = [i \in Ids |->
                  IF \E o \in originals : clone[o] = i
                  THEN LET o == CHOOSE x \in originals : clone[x] = i
                       IN  NewRow(outbox[o].kind, outbox[o].event, o)
                  ELSE outbox[i]]
    BY <1>2 DEF ResetOutbox
  <2>2. ASSUME NEW i \in Ids
        PROVE  \/ /\ outbox[i].status = "absent" /\ outbox'[i].status = "pending"
                  /\ outbox'[i].source \in Ids /\ outbox'[i].kind \in Kinds
               \/ outbox'[i] = outbox[i]
    <3>1. CASE \E o \in originals : clone[o] = i
      <4> DEFINE o == CHOOSE x \in originals : clone[x] = i
      <4>0. o \in originals /\ clone[o] = i
        BY <3>1
      <4>1. outbox'[i] = NewRow(outbox[o].kind, outbox[o].event, o)
        BY <2>1, <3>1
      <4> HIDE DEF o
      <4>2. outbox[i].status = "absent" /\ o \in Ids
        BY <4>0, <2>1
      <4>3. outbox[o].kind \in Kinds
        BY <4>0, <4>2 DEF Reprojectable, RowsAreWhole
      <4> QED
        BY <4>1, <4>2, <4>3 DEF NewRow
    <3>2. CASE ~\E o \in originals : clone[o] = i
      BY <2>1, <3>2
    <3> QED
      BY <3>1, <3>2
  <2>3. clickhouse' = clickhouse
    BY <1>2 DEF ResetOutbox
  <2>4. RowsAreWhole'
    BY <2>2 DEF RowsAreWhole
  <2> QED
    BY <2>2, <2>3, <2>4, <1>c DEF Keeps
<1>3. ASSUME NEW i \in Ids, BecomeDue(i) \/ LeaseExpires(i) PROVE Keeps /\ RowsAreWhole'
  <2>1. \/ outbox' = [outbox EXCEPT ![i] = [outbox[i] EXCEPT !.due = TRUE]]
        \/ outbox' = [outbox EXCEPT ![i] = [outbox[i] EXCEPT !.expired = TRUE]]
    BY <1>3 DEF BecomeDue, LeaseExpires
  <2>2. outbox[i] \in RowType /\ outbox[i].status # "absent" /\ clickhouse' = clickhouse
    BY <1>3, <1>a DEF BecomeDue, LeaseExpires
  <2>3. \A k \in Ids : SameRow(k)
    BY <2>1, <2>2, <1>a DEF SameRow, RowType
  <2> QED
    BY <2>2, <2>3, <1>c, <1>d
<1>4. ASSUME NEW w \in Workers, WorkerStep(w) \/ ClickHouseFails(w) \/ Abandon(w)
      PROVE  Keeps /\ RowsAreWhole'
  <2> DEFINE j == worker[w]
  <2>a. j \in BatchType /\ BatchSound(j)
    BY <1>a DEF BatchesAreSound
  <2>b. j.mode = "watermark" => j.top \in Ids
    BY <2>a DEF BatchSound, BatchType
  <2>c. j.missing \in SUBSET Ids /\ j.batch \in SUBSET Ids /\ j.todo \in SUBSET Ids
        /\ \A i \in j.batch : outbox[i].status # "absent"
        /\ \A k \in j.todo : outbox[k].status # "absent"
    BY <2>a DEF BatchSound, BatchType
  <2>d. \A i \in j.todo : i \in Ids /\ outbox[i].status # "absent"
    <3>1. j.todo \subseteq Ids /\ j.todo \subseteq j.batch
      BY <2>a DEF BatchSound, BatchType
    <3>2. \A i \in j.batch : outbox[i].status # "absent"
      BY <2>a DEF BatchSound
    <3> HIDE DEF j
    <3> QED
      BY <3>1, <3>2
  <2>1. CASE LeaseOutbox(w)
    <3>1. PICK batch \in SUBSET {i \in Ids : Candidate(outbox[i])} :
            outbox' = [i \in Ids |-> IF i \in batch THEN LeasedRow(outbox[i], w) ELSE outbox[i]]
      BY <2>1 DEF LeaseOutbox
    <3>2. ASSUME NEW i \in Ids PROVE SameRow(i)
      <4>1. CASE i \in batch
        <5>1. outbox[i].status # "absent" /\ outbox[i] \in RowType
          BY <3>1, <4>1, <1>a DEF Candidate
        <5>2. outbox'[i] = LeasedRow(outbox[i], w)
          BY <3>1, <4>1
        <5> QED
          BY <5>1, <5>2 DEF SameRow, LeasedRow, RowType
      <4>2. CASE i \notin batch
        BY <3>1, <4>2 DEF SameRow
      <4> QED
        BY <4>1, <4>2
    <3> QED
      BY <3>2, <2>1, <1>c, <1>d DEF LeaseOutbox
  <2>2. CASE Query(w) \/ MarkSyncFailure(w) \/ LoseLease(w) \/ Abandon(w)
    BY <2>2, <1>c, <1>d, <1>e DEF Query, MarkSyncFailure, LoseLease, Abandon
  <2>3. CASE Insert(w)
    <3>1. clickhouse' = [clickhouse EXCEPT !.copies = Stored(clickhouse.copies, j.missing)]
      BY <2>3 DEF Insert
    <3>2. Later
      <4>1. clickhouse'.copies = Stored(clickhouse.copies, j.missing)
            /\ clickhouse'.watermark = clickhouse.watermark
        BY <3>1, <1>a
      <4> QED
        BY <4>1, <2>c, <1>b, StoredKeeps
    <3> QED
      BY <3>2, <2>3, <1>d, <1>e DEF Insert
  <2>4. CASE WriteWatermark(w)
    <3>1. clickhouse' = [clickhouse EXCEPT !.watermark = Newest(clickhouse.watermark, j.top)]
      BY <2>4 DEF WriteWatermark
    <3>2. Later
      <4>1. clickhouse'.copies = clickhouse.copies
            /\ clickhouse'.watermark = Newest(clickhouse.watermark, j.top)
        BY <3>1, <1>a
      <4>2. j.top \in Ids
        BY <2>b, <2>4 DEF WriteWatermark
      <4> QED
        BY <4>1, <4>2, <1>b, NewestGrows
    <3> QED
      BY <3>2, <2>4, <1>d, <1>e DEF WriteWatermark
  <2>5. CASE MarkDelivered(w)
    <3>1. outbox' = [i \in Ids |-> IF i \in j.batch THEN [outbox[i] EXCEPT !.status = "sent"]
                                 ELSE outbox[i]]
      BY <2>5 DEF MarkDelivered
    <3>2. \A i \in Ids : SameRow(i)
      BY <3>1, <2>c, <1>a DEF SameRow, RowType
    <3> QED
      BY <3>2, <2>5, <1>c, <1>d DEF MarkDelivered
  <2>6. CASE FailLease(w)
    <3>1. PICK i \in j.todo, s \in {"failed", "dead_letter"} :
            outbox' = [outbox EXCEPT ![i].status = s, ![i].due = FALSE]
      BY <2>6 DEF FailLease
    <3>2. i \in Ids /\ outbox[i] \in RowType /\ outbox[i].status # "absent"
      <4>1. i \in Ids /\ outbox[i].status # "absent"
        BY <2>d, Zenon
      <4> QED
        BY <4>1, <1>a
    <3>3. outbox' = [outbox EXCEPT ![i] = [outbox[i] EXCEPT !.status = s, !.due = FALSE]]
      BY <3>1, <3>2, <1>a
    <3>4. ASSUME NEW k \in Ids PROVE SameRow(k)
      <4>1. CASE k = i
        <5>1. outbox'[k] = [outbox[k] EXCEPT !.status = s, !.due = FALSE]
          BY <3>2, <3>3, <4>1, <1>a
        <5> QED
          BY <5>1, <3>2, <4>1 DEF SameRow, RowType
      <4>2. CASE k # i
        BY <3>3, <4>2, <1>a DEF SameRow
      <4> QED
        BY <4>1, <4>2
    <3> QED
      BY <3>4, <2>6, <1>c, <1>d DEF FailLease
  <2>7. CASE ClickHouseFails(w)
    <3>1. PICK stored \in SUBSET j.missing, written \in BOOLEAN :
            /\ written => j.mode = "watermark"
            /\ clickhouse' = [copies |-> Stored(clickhouse.copies, stored),
                              watermark |-> IF written THEN Newest(clickhouse.watermark, j.top)
                                            ELSE clickhouse.watermark]
      BY <2>7 DEF ClickHouseFails
    <3>2. Later
      <4>1. /\ clickhouse'.copies = Stored(clickhouse.copies, stored) /\ stored \in SUBSET Ids
            /\ clickhouse'.watermark = IF written THEN Newest(clickhouse.watermark, j.top)
                                       ELSE clickhouse.watermark
        BY <3>1, <2>c
      <4>2. clickhouse.watermark <= clickhouse'.watermark
        <5>1. CASE written
          <6>1. j.top \in Ids
            BY <5>1, <3>1, <2>b
          <6> QED
            BY <4>1, <5>1, <6>1, <1>b, NewestGrows
        <5>2. CASE ~written
          BY <4>1, <5>2, <1>b
        <5> QED
          BY <5>1, <5>2
      <4>3. ASSUME NEW s \in Ids, clickhouse.copies[s] > 0 PROVE clickhouse'.copies[s] > 0
        BY <4>1, <4>3, <1>b, StoredKeeps
      <4> QED
        BY <4>2, <4>3
    <3> QED
      BY <3>2, <2>7, <1>d, <1>e DEF ClickHouseFails
  <2> QED
    BY <1>4, <2>1, <2>2, <2>3, <2>4, <2>5, <2>6, <2>7 DEF WorkerStep
<1> QED
  BY <1>1, <1>2, <1>3, <1>4 DEF Next

-----------------------------------------------------------------------------
(* The batch that a step leaves to its own worker.                         *)
LEMMA EmptyBatch ==
    ASSUME NEW w \in Workers, worker'[w] = NoBatch
    PROVE  BatchSound(worker[w])'
BY DEF BatchSound, NoBatch

LEMMA FailedBatch ==
    ASSUME NEW w \in Workers, NEW k, worker'[w] = k, k.mode = "fail", k.todo \subseteq k.batch,
           \A i \in k.batch : outbox'[i].status # "absent"
    PROVE  BatchSound(worker[w])'
BY DEF BatchSound, Passed

(* Going on to the next table, or to the watermark, when every row of this *)
(* table is stored.                                                        *)
LEMMA AdvancedBatch ==
    ASSUME OutboxAssumption, TypeOK, RowsAreWhole, RowsAreWhole', Keeps,
           NEW w \in Workers, NEW j \in BatchType, BatchSound(j), j.mode \in {"query", "insert"},
           \A i \in j.batch : outbox[i].kind = j.table => clickhouse'.copies[outbox[i].source] > 0,
           worker'[w] = Advanced(j)
    PROVE  BatchSound(worker[w])'
<1> DEFINE k == Advanced(j)
<1>1. /\ k.todo = j.todo /\ k.batch = j.batch /\ k.top = j.top /\ k.table = "rating"
      /\ k.mode = IF j.table = "raw" THEN "query" ELSE "watermark"
  BY DEF Advanced, BatchType
<1>2. j.table \in {"raw", "rating"} /\ j.batch \subseteq Ids
  BY DEF BatchType, Kinds
<1> HIDE DEF k
<1>3. ASSUME NEW i \in j.batch PROVE outbox'[i].status # "absent" /\ Passed(k, i)'
  <2>1. i \in Ids /\ outbox[i].status # "absent" /\ Passed(j, i)
    BY <1>2 DEF BatchSound
  <2>2. /\ outbox'[i].status # "absent" /\ outbox'[i].kind = outbox[i].kind
        /\ outbox'[i].source = outbox[i].source
    BY <2>1 DEF Keeps
  <2>3. outbox[i].kind \in {"raw", "rating"} /\ outbox[i].source \in Ids
    BY <2>1 DEF RowsAreWhole, Kinds
  <2>4. RowStored(i) => RowStored(i)'
    BY <2>2, <2>3 DEF Keeps, RowStored
  <2>5. outbox[i].kind = j.table => RowStored(i)'
    BY <2>2, <2>3 DEF RowStored
  <2>6. CASE outbox[i].kind = j.table
    BY <2>2, <2>5, <2>6 DEF Passed
  <2>7. CASE outbox[i].kind # j.table /\ j.table = "raw"
    BY <2>2, <2>3, <2>7, <1>1 DEF Passed
  <2>8. CASE outbox[i].kind # j.table /\ j.table # "raw"
    <3>1. RowStored(i)
      BY <2>1, <2>8 DEF Passed
    <3> QED
      BY <2>2, <2>4, <3>1 DEF Passed
  <2> QED
    BY <2>6, <2>7, <2>8
<1>4. worker'[w] = k
  BY DEF k
<1>5. BatchSound(k)'
  BY <1>1, <1>3 DEF BatchSound
<1> QED
  BY <1>4, <1>5 DEF BatchSound, Passed

(* Every step leaves sound batches.                                        *)
LEMMA BatchStep ==
    ASSUME OutboxAssumption, TypeOK, TypeOK', RowsAreWhole, RowsAreWhole', Keeps,
           BatchesAreSound, Next
    PROVE  BatchesAreSound'
<1>a. /\ outbox \in [Ids -> RowType] /\ worker \in [Workers -> BatchType]
      /\ clickhouse \in [copies : [Ids -> Nat], watermark : Ids \cup {0}]
  BY DEF TypeOK
<1>1. CASE worker' = worker
  BY <1>1, NoBatchChanges
<1>2. ASSUME NEW w \in Workers, WorkerStep(w) \/ ClickHouseFails(w) \/ Abandon(w)
      PROVE  BatchesAreSound'
  <2>a. PICK j : j = worker[w]
    OBVIOUS
  <2>b. j \in BatchType /\ BatchSound(j)
    BY <2>a, <1>a DEF BatchesAreSound
  <2>c. j.batch \subseteq Ids /\ j.todo \subseteq j.batch
    BY <2>b DEF BatchSound, BatchType
  <2>d. \A i \in j.batch : i \in Ids /\ outbox[i].status # "absent" /\ outbox'[i].status # "absent"
    BY <2>b, <2>c DEF BatchSound, Keeps
  <2>e. \A i \in j.batch : outbox[i].source \in Ids /\ outbox[i].kind \in Kinds
    BY <2>d DEF RowsAreWhole
  <2>f. \A r \in BOOLEAN : /\ Failing(j, r).mode = "fail" /\ Failing(j, r).todo = j.batch
                           /\ Failing(j, r).batch = j.batch
    BY <2>b DEF Failing, BatchType
  <2>g. SUFFICES /\ \A v \in Workers \ {w} : worker'[v] = worker[v]
                 /\ BatchSound(worker[w])'
    BY OneBatch
  <2>1. CASE LeaseOutbox(w)
    <3>1. PICK batch \in SUBSET {i \in Ids : Candidate(outbox[i])}, top \in Ids :
            /\ top \in batch
            /\ worker' = [worker EXCEPT ![w] =
                  IF Mappable(batch)
                  THEN [NoBatch EXCEPT !.mode = "query", !.batch = batch, !.top = top]
                  ELSE Failing([NoBatch EXCEPT !.mode = "query", !.batch = batch, !.top = top], FALSE)]
      BY <2>1 DEF LeaseOutbox
    <3> DEFINE l == [NoBatch EXCEPT !.mode = "query", !.batch = batch, !.top = top]
               f == Failing(l, FALSE)
    <3>2. /\ l.mode = "query" /\ l.batch = batch /\ l.top = top /\ l.todo = {} /\ l.table = "raw"
          /\ f.mode = "fail" /\ f.todo = batch /\ f.batch = batch
      BY DEF NoBatch, Failing
    <3>3. worker'[w] = IF Mappable(batch) THEN l ELSE f
      BY <3>1, <1>a
    <3>4. \A i \in batch : outbox'[i].status # "absent"
      <4>1. \A i \in batch : i \in Ids /\ outbox[i].status # "absent"
        BY DEF Candidate
      <4> QED
        BY <4>1 DEF Keeps
    <3> HIDE DEF l, f
    <3>5. BatchSound(l)'
      BY <3>1, <3>2, <3>4 DEF BatchSound, Passed
    <3>6. CASE Mappable(batch)
      <4>1. worker'[w] = l
        BY <3>3, <3>6
      <4>2. BatchSound(worker[w])'
        BY <3>5, <4>1 DEF BatchSound, Passed
      <4> QED
        BY <4>2, <3>1, <1>a
    <3>7. CASE ~Mappable(batch)
      <4>1. worker'[w] = f
        BY <3>3, <3>7
      <4>2. BatchSound(worker[w])'
        BY <3>2, <3>4, <4>1, FailedBatch
      <4> QED
        BY <4>2, <3>1, <1>a
    <3> QED
      BY <3>6, <3>7
  <2>2. CASE Query(w)
    <3> DEFINE missing == Missing(Rows(j))
               k == [j EXCEPT !.mode = "insert", !.missing = missing]
    <3>1. /\ j.mode = "query" /\ clickhouse' = clickhouse /\ outbox' = outbox
          /\ worker' = [worker EXCEPT ![w] =
                 IF Conflicting(Rows(j)) THEN Failing(j, FALSE)
                 ELSE IF missing = {} THEN Advanced(j) ELSE k]
      BY <2>2, <2>a DEF Query
    <3>2. ASSUME NEW i \in j.batch, outbox[i].kind = j.table
          PROVE  clickhouse.copies[outbox[i].source] > 0 \/ outbox[i].source \in missing
      <4>1. outbox[i].source \in Ids /\ clickhouse.copies[outbox[i].source] \in Nat
        BY <2>e, <1>a
      <4>2. i \in Rows(j)
        BY <3>2 DEF Rows
      <4> QED
        BY <4>1, <4>2 DEF Missing
    <3>3. CASE Conflicting(Rows(j))
      <4>1. worker'[w] = Failing(j, FALSE)
        BY <3>1, <3>3, <1>a
      <4>2. BatchSound(worker[w])'
        BY <4>1, <2>d, <2>f, FailedBatch
      <4> QED
        BY <4>2, <3>1, <1>a
    <3>4. CASE ~Conflicting(Rows(j)) /\ missing = {}
      <4>1. worker'[w] = Advanced(j)
        BY <3>1, <3>4, <1>a
      <4>2. \A i \in j.batch : outbox[i].kind = j.table => clickhouse'.copies[outbox[i].source] > 0
        BY <3>1, <3>2, <3>4
      <4>3. BatchSound(worker[w])'
        BY <4>1, <4>2, <3>1, <2>b, AdvancedBatch
      <4> QED
        BY <4>3, <3>1, <1>a
    <3>5. CASE ~Conflicting(Rows(j)) /\ missing # {}
      <4>1. PICK l : l = k
        OBVIOUS
      <4>2. worker'[w] = l
        BY <3>1, <3>5, <4>1, <1>a
      <4>3. /\ l.mode = "insert" /\ l.missing = missing /\ l.batch = j.batch /\ l.todo = j.todo
            /\ l.top = j.top /\ l.table = j.table
        BY <4>1, <2>b DEF BatchType
      <4> HIDE DEF k, missing
      <4>4. ASSUME NEW i \in j.batch PROVE outbox'[i].status # "absent" /\ Passed(l, i)'
        <5>1. Passed(j, i) /\ outbox[i].source \in Ids
          BY <2>b, <2>e DEF BatchSound
        <5>2. outbox[i].kind = j.table => RowStored(i) \/ outbox[i].source \in missing
          BY <3>2, <5>1 DEF RowStored
        <5>3. Passed(l, i)
          BY <5>1, <5>2, <4>3, <3>1 DEF Passed
        <5>4. outbox' = outbox /\ clickhouse' = clickhouse
          BY <3>1
        <5> QED
          BY <5>3, <5>4, <2>d DEF Passed, RowStored
      <4>5. l.top \in l.batch
        BY <3>1, <4>3, <2>b DEF BatchSound
      <4>6. BatchSound(l)'
        BY <4>3, <4>4, <4>5, <2>c DEF BatchSound
      <4>7. BatchSound(worker[w])'
        BY <4>2, <4>6 DEF BatchSound, Passed
      <4> QED
        BY <4>7, <3>1, <1>a
    <3> QED
      BY <3>3, <3>4, <3>5
  <2>3. CASE Insert(w)
    <3>1. /\ j.mode = "insert" /\ outbox' = outbox
          /\ clickhouse' = [clickhouse EXCEPT !.copies = Stored(clickhouse.copies, j.missing)]
          /\ worker' = [worker EXCEPT ![w] = Advanced(j)]
      BY <2>3, <2>a DEF Insert
    <3>2. clickhouse'.copies = Stored(clickhouse.copies, j.missing) /\ j.missing \in SUBSET Ids
          /\ clickhouse.copies \in [Ids -> Nat]
      BY <3>1, <1>a, <2>b DEF BatchType
    <3>3. ASSUME NEW i \in j.batch, outbox[i].kind = j.table
          PROVE  clickhouse'.copies[outbox[i].source] > 0
      <4>1. Passed(j, i) /\ outbox[i].source \in Ids /\ outbox[i].kind \in Kinds
        BY <2>b, <2>e DEF BatchSound
      <4>2. outbox[i].source \in j.missing \/ clickhouse.copies[outbox[i].source] > 0
        BY <4>1, <3>1, <3>3 DEF Passed, RowStored
      <4> QED
        BY <4>1, <4>2, <3>2, StoredKeeps
    <3>4. worker'[w] = Advanced(j)
      BY <3>1, <1>a
    <3>5. BatchSound(worker[w])'
      BY <3>1, <3>3, <3>4, <2>b, AdvancedBatch
    <3> QED
      BY <3>5, <3>1, <1>a
  <2>4. CASE WriteWatermark(w)
    <3> DEFINE k == [j EXCEPT !.mode = "ack"]
    <3>1. /\ j.mode = "watermark" /\ outbox' = outbox
          /\ clickhouse' = [clickhouse EXCEPT !.watermark = Newest(clickhouse.watermark, j.top)]
          /\ worker' = [worker EXCEPT ![w] = k]
      BY <2>4, <2>a DEF WriteWatermark
    <3>2. /\ clickhouse'.copies = clickhouse.copies /\ clickhouse.watermark \in Ids \cup {0}
          /\ clickhouse'.watermark = Newest(clickhouse.watermark, j.top)
      BY <3>1, <1>a
    <3>3. k.mode = "ack" /\ k.batch = j.batch /\ k.todo = j.todo /\ k.top = j.top
      BY <2>b DEF BatchType
    <3>4. worker'[w] = k
      BY <3>1, <1>a
    <3> HIDE DEF k
    <3>5. j.top \in j.batch /\ j.top \in Ids
      BY <3>1, <2>b, <2>c DEF BatchSound
    <3>6. j.top <= clickhouse'.watermark
      BY <3>2, <3>5, NewestGrows
    <3>7. ASSUME NEW i \in j.batch PROVE outbox'[i].status # "absent" /\ Passed(k, i)'
      <4>1. RowStored(i)
        BY <2>b, <3>1 DEF BatchSound, Passed
      <4>2. RowStored(i)'
        BY <4>1, <3>1, <3>2 DEF RowStored
      <4> QED
        BY <4>2, <2>d DEF Passed
    <3>8. BatchSound(k)'
      BY <3>3, <3>5, <3>6, <3>7, <2>c DEF BatchSound
    <3>9. BatchSound(worker[w])'
      BY <3>4, <3>8 DEF BatchSound, Passed
    <3> QED
      BY <3>9, <3>1, <1>a
  <2>5. CASE MarkDelivered(w) \/ LoseLease(w) \/ Abandon(w)
    <3>1. worker' = [worker EXCEPT ![w] = NoBatch]
      BY <2>5 DEF MarkDelivered, LoseLease, Abandon
    <3>2. BatchSound(worker[w])'
      BY <3>1, <1>a, EmptyBatch
    <3> QED
      BY <3>1, <3>2, <1>a
  <2>6. CASE FailLease(w)
    <3>1. PICK i \in j.todo, m \in {"degraded", "failed"} :
            j.mode = "fail" /\ worker' = [worker EXCEPT ![w].todo = @ \ {i}, ![w].mark = m]
      BY <2>6, <2>a DEF FailLease
    <3> DEFINE k == [j EXCEPT !.todo = j.todo \ {i}, !.mark = m]
    <3>2. worker' = [worker EXCEPT ![w] = k] /\ worker'[w] = k
      BY <3>1, <2>a, <1>a
    <3>3. k.mode = "fail" /\ k.todo \subseteq k.batch /\ k.batch = j.batch
      BY <3>1, <2>b, <2>c DEF BatchType
    <3> HIDE DEF k
    <3>4. BatchSound(worker[w])'
      BY <3>2, <3>3, <2>d, FailedBatch
    <3> QED
      BY <3>4, <3>2, <1>a
  <2>7. CASE MarkSyncFailure(w)
    <3> DEFINE k == Continued(j)
    <3>1. worker' = [worker EXCEPT ![w] = k] /\ worker'[w] = k
      BY <2>7, <2>a, <1>a DEF MarkSyncFailure
    <3>2. CASE j.todo = {}
      <4>1. worker'[w] = NoBatch
        BY <3>1, <3>2 DEF Continued
      <4>2. BatchSound(worker[w])'
        BY <4>1, EmptyBatch
      <4> QED
        BY <4>2, <3>1, <1>a
    <3>3. CASE j.todo # {}
      <4>1. /\ k.mode = j.mode /\ k.todo = j.todo /\ k.batch = j.batch /\ k.top = j.top
            /\ k.missing = j.missing /\ k.table = j.table
        BY <3>3, <2>b DEF Continued, BatchType
      <4>2. BatchSound(j)'
        BY <2>b, KeepsBatch
      <4> HIDE DEF k
      <4>3. BatchSound(k)'
        BY <4>1, <4>2 DEF BatchSound, Passed
      <4>4. BatchSound(worker[w])'
        BY <4>3, <3>1 DEF BatchSound, Passed
      <4> QED
        BY <4>4, <3>1, <1>a
    <3> QED
      BY <3>2, <3>3
  <2>8. CASE ClickHouseFails(w)
    <3>1. worker' = [worker EXCEPT ![w] = Failing(j, TRUE)]
      BY <2>8, <2>a DEF ClickHouseFails
    <3>2. worker'[w] = Failing(j, TRUE)
      BY <3>1, <1>a
    <3>3. BatchSound(worker[w])'
      BY <3>2, <2>d, <2>f, FailedBatch
    <3> QED
      BY <3>3, <3>1, <1>a
  <2> QED
    BY <1>2, <2>1, <2>2, <2>3, <2>4, <2>5, <2>6, <2>7, <2>8 DEF WorkerStep
<1> QED
  BY <1>1, <1>2 DEF Next, Enqueue, ResetOutbox, BecomeDue, LeaseExpires

-----------------------------------------------------------------------------
(* A row becomes sent only by the acknowledgement of a batch that stored it. *)
LEMMA SentStep ==
    ASSUME OutboxAssumption, TypeOK, RowsAreWhole, Keeps, BatchesAreSound, SentIsStored, Next
    PROVE  SentIsStored'
<1>a. outbox \in [Ids -> RowType] /\ worker \in [Workers -> BatchType]
  BY DEF TypeOK
<1> SUFFICES ASSUME NEW i \in Ids, outbox'[i].status = "sent"
             PROVE  clickhouse'.copies[outbox'[i].source] > 0
  BY DEF SentIsStored
<1>1. CASE outbox[i].status = "sent"
  <2>1. outbox[i].source \in Ids /\ clickhouse.copies[outbox[i].source] > 0
    BY <1>1 DEF RowsAreWhole, SentIsStored
  <2>2. outbox'[i].source = outbox[i].source
    BY <1>1 DEF Keeps
  <2> QED
    BY <2>1, <2>2 DEF Keeps
<1>2. CASE outbox[i].status # "sent"
  <2>1. ASSUME NEW w \in Workers, MarkDelivered(w), i \in worker[w].batch
        PROVE  clickhouse'.copies[outbox'[i].source] > 0
    <3>1. RowStored(i) /\ outbox[i].status # "absent"
      BY <2>1 DEF BatchesAreSound, BatchSound, Passed, MarkDelivered
    <3>2. outbox'[i].source = outbox[i].source
      BY <3>1 DEF Keeps
    <3> QED
      BY <3>1, <3>2 DEF RowStored, Keeps
  <2>2. ASSUME NEW w \in Workers, WorkerStep(w) \/ ClickHouseFails(w) \/ Abandon(w)
        PROVE  MarkDelivered(w) /\ i \in worker[w].batch
    <3>1. CASE LeaseOutbox(w)
      <4>1. \A row \in RowType : LeasedRow(row, w).status = "leased"
        BY DEF LeasedRow, RowType
      <4>2. outbox'[i] = LeasedRow(outbox[i], w) \/ outbox'[i] = outbox[i]
        BY <3>1 DEF LeaseOutbox
      <4> QED
        BY <4>1, <4>2, <1>a, <1>2
    <3>2. CASE MarkDelivered(w)
      <4>1. i \notin worker[w].batch => outbox'[i] = outbox[i]
        BY <3>2 DEF MarkDelivered
      <4> QED
        BY <3>2, <4>1, <1>2
    <3>3. CASE FailLease(w)
      <4>1. PICK k \in Ids, s \in {"failed", "dead_letter"} :
              outbox' = [outbox EXCEPT ![k].status = s, ![k].due = FALSE]
        <5>1. worker[w].todo \subseteq Ids
          BY <1>a DEF BatchType
        <5> QED
          BY <3>3, <5>1 DEF FailLease
      <4>2. outbox' = [outbox EXCEPT ![k] = [outbox[k] EXCEPT !.status = s, !.due = FALSE]]
        BY <4>1, <1>a
      <4>3. outbox[k] \in RowType
        BY <1>a
      <4> QED
        BY <4>2, <4>3, <1>a, <1>2 DEF RowType
    <3>4. CASE outbox' = outbox
      BY <3>4, <1>2
    <3> QED
      BY <2>2, <3>1, <3>2, <3>3, <3>4
      DEF WorkerStep, Query, Insert, WriteWatermark, MarkSyncFailure, LoseLease, Abandon, ClickHouseFails
  <2>3. ASSUME NEW k \in Ids, BecomeDue(k) \/ LeaseExpires(k) PROVE FALSE
    <3>1. \/ outbox' = [outbox EXCEPT ![k] = [outbox[k] EXCEPT !.due = TRUE]]
          \/ outbox' = [outbox EXCEPT ![k] = [outbox[k] EXCEPT !.expired = TRUE]]
      BY <2>3 DEF BecomeDue, LeaseExpires
    <3>2. outbox[k] \in RowType
      BY <1>a
    <3> QED
      BY <3>1, <3>2, <1>a, <1>2 DEF RowType
  <2>4. ASSUME NEW e \in Events, NEW raw \in Ids \cup {None}, NEW rating \in Ids \cup {None},
               Enqueue(e, raw, rating)
        PROVE  FALSE
    BY <2>4, <1>2 DEF Enqueue, NewRow
  <2>5. ASSUME NEW range \in SUBSET Events, ResetOutbox(range) PROVE FALSE
    <3> DEFINE originals == {k \in Ids : Reprojectable(k, range)}
    <3>1. PICK clone \in [originals -> {k \in Ids : outbox[k].status = "absent"}] :
             outbox' = [k \in Ids |->
                  IF \E o \in originals : clone[o] = k
                  THEN LET o == CHOOSE x \in originals : clone[x] = k
                       IN  NewRow(outbox[o].kind, outbox[o].event, o)
                  ELSE outbox[k]]
      BY <2>5 DEF ResetOutbox
    <3>2. CASE \E o \in originals : clone[o] = i
      <4> DEFINE o == CHOOSE x \in originals : clone[x] = i
      <4>1. outbox'[i] = NewRow(outbox[o].kind, outbox[o].event, o)
        BY <3>1, <3>2
      <4> HIDE DEF o
      <4> QED
        BY <4>1 DEF NewRow
    <3>3. CASE ~\E o \in originals : clone[o] = i
      BY <3>1, <3>3, <1>2
    <3> QED
      BY <3>2, <3>3
  <2> QED
    BY <2>1, <2>2, <2>3, <2>4, <2>5 DEF Next
<1> QED
  BY <1>1, <1>2

(* An event is marked only by the acknowledgement of a batch that stored   *)
(* one of its rows.                                                        *)
LEMMA MarksStep ==
    ASSUME OutboxAssumption, TypeOK, RowsAreWhole, Keeps, BatchesAreSound, MarksAreStored, Next
    PROVE  MarksAreStored'
<1> DEFINE Held(e, kind) == \E i \in Ids : /\ outbox[i].event = e /\ outbox[i].kind = kind
                                           /\ clickhouse.copies[outbox[i].source] > 0
           Later(e, kind) == \E i \in Ids : /\ outbox'[i].event = e /\ outbox'[i].kind = kind
                                            /\ clickhouse'.copies[outbox'[i].source] > 0
<1>1. ASSUME NEW e \in Events, NEW kind \in Kinds, Held(e, kind) PROVE Later(e, kind)
  BY <1>1, MarksKept
<1>2. ASSUME NEW e \in Events
      PROVE  /\ registry'[e].raw => Held(e, "raw")
             /\ registry'[e].official => Held(e, "rating")
  <2>0. /\ registry[e].raw => Held(e, "raw")
        /\ registry[e].official => Held(e, "rating")
    BY DEF MarksAreStored
  <2>1. CASE registry' = registry
    BY <2>0, <2>1
  <2>2. ASSUME NEW w \in Workers, MarkDelivered(w)
        PROVE  /\ registry'[e].raw => Held(e, "raw")
               /\ registry'[e].official => Held(e, "rating")
    <3>1. ASSUME NEW i \in worker[w].batch
          PROVE  i \in Ids /\ clickhouse.copies[outbox[i].source] > 0
      <4>1. RowStored(i)
        BY <2>2 DEF BatchesAreSound, BatchSound, Passed, MarkDelivered
      <4>2. worker[w].batch \subseteq Ids
        BY DEF TypeOK, BatchType
      <4> QED
        BY <4>1, <4>2 DEF RowStored
    <3>2. registry'[e] = Marked(e, worker[w].batch)
      BY <2>2 DEF MarkDelivered
    <3> DEFINE r == registry[e].raw
                   \/ \E i \in worker[w].batch : outbox[i].event = e /\ outbox[i].kind = "raw"
               o == registry[e].official
                   \/ \E i \in worker[w].batch : outbox[i].event = e /\ outbox[i].kind = "rating"
    <3>3. registry'[e].raw = r /\ registry'[e].official = o
      <4>1. registry'[e] = [raw |-> r, official |-> o]
        BY <3>2 DEF Marked
      <4> HIDE DEF r, o
      <4> QED
        BY <4>1
    <3> QED
      BY <3>1, <3>3, <2>0, Zenon
  <2> QED
    BY <2>1, <2>2 DEF Next, WorkerStep, LeaseOutbox, Query, Insert, WriteWatermark, FailLease,
       MarkSyncFailure, LoseLease, Abandon, ClickHouseFails, BecomeDue, LeaseExpires, Enqueue, ResetOutbox
<1>3. "raw" \in Kinds /\ "rating" \in Kinds
  BY DEF Kinds
<1>4. ASSUME NEW e \in Events
      PROVE  /\ registry'[e].raw => Later(e, "raw")
             /\ registry'[e].official => Later(e, "rating")
  <2> HIDE DEF Held, Later
  <2> QED
    BY <1>1, <1>2, <1>3
<1> QED
  BY <1>4 DEF MarksAreStored

(* The cursor moves only forward, and only to the watermark of the batch   *)
(* that is acknowledged.                                                   *)
LEMMA CursorStep ==
    ASSUME OutboxAssumption, TypeOK, TypeOK', Keeps, BatchesAreSound, CursorBehindWatermark, Next
    PROVE  CursorBehindWatermark' /\ sync'.last >= sync.last
<1>a. /\ sync.last \in Nat /\ sync'.last \in Nat
      /\ clickhouse.watermark \in Nat /\ clickhouse'.watermark \in Nat
  <2>1. /\ sync.last \in Ids \cup {0} /\ sync'.last \in Ids \cup {0}
        /\ clickhouse.watermark \in Ids \cup {0} /\ clickhouse'.watermark \in Ids \cup {0}
    BY DEF TypeOK
  <2> QED
    BY <2>1, Naturals
<1>b. sync.last <= clickhouse.watermark /\ clickhouse.watermark <= clickhouse'.watermark
  BY DEF Keeps, CursorBehindWatermark
<1>1. CASE sync'.last = sync.last
  BY <1>1, <1>a, <1>b DEF CursorBehindWatermark
<1>2. ASSUME NEW w \in Workers, MarkDelivered(w)
      PROVE  CursorBehindWatermark' /\ sync'.last >= sync.last
  <2>1. worker[w].mode = "ack" /\ sync' = Synced(sync, worker[w].top)
    BY <1>2 DEF MarkDelivered
  <2>2. worker[w].top \in Ids /\ worker[w].top <= clickhouse.watermark
    <3>1. BatchSound(worker[w]) /\ worker[w] \in BatchType
      BY DEF BatchesAreSound, TypeOK
    <3> QED
      BY <3>1, <2>1 DEF BatchSound, BatchType
  <2>3. worker[w].top \in Nat
    BY <2>2, Naturals
  <2>4. CASE sync.last <= worker[w].top
    <3>1. sync'.last = worker[w].top
      BY <2>1, <2>4 DEF Synced
    <3> QED
      BY <3>1, <2>2, <2>3, <2>4, <1>a, <1>b DEF CursorBehindWatermark
  <2>5. CASE ~(sync.last <= worker[w].top)
    <3>1. sync'.last = sync.last
      BY <2>1, <2>5 DEF Synced
    <3> QED
      BY <3>1, <1>1
  <2> QED
    BY <2>4, <2>5
<1>3. ASSUME NEW w \in Workers, MarkSyncFailure(w) PROVE sync'.last = sync.last
  BY <1>3 DEF MarkSyncFailure, TypeOK
<1> QED
  BY <1>1, <1>2, <1>3 DEF Next, WorkerStep, LeaseOutbox, Query, Insert, WriteWatermark, FailLease,
     LoseLease, Abandon, ClickHouseFails, BecomeDue, LeaseExpires, Enqueue, ResetOutbox

-----------------------------------------------------------------------------
LEMMA InitSound ==
    ASSUME OutboxAssumption, Init
    PROVE  OutboxInvariant
<1>1. NoRow \in RowType /\ NoRow.status = "absent"
  BY RowTypes DEF NoRow
<1>2. NoBatch \in BatchType /\ NoBatch.mode = "idle" /\ NoBatch.batch = {} /\ NoBatch.todo = {}
  BY DEF NoBatch, BatchType, Kinds
<1>3. TypeOK
  BY <1>1, <1>2 DEF Init, TypeOK, OutboxAssumption
<1>4. RowsAreWhole /\ SentIsStored
  BY <1>1 DEF Init, RowsAreWhole, SentIsStored
<1>5. BatchesAreSound
  BY <1>2 DEF Init, BatchesAreSound, BatchSound
<1>6. MarksAreStored
  BY DEF Init, MarksAreStored
<1>7. CursorBehindWatermark
  BY DEF Init, CursorBehindWatermark
<1> QED
  BY <1>3, <1>4, <1>5, <1>6, <1>7 DEF OutboxInvariant

LEMMA NextSound ==
    ASSUME OutboxAssumption, OutboxInvariant, [Next]_vars
    PROVE  OutboxInvariant' /\ sync'.last >= sync.last
<1>1. CASE Next
  <2>1. TypeOK'
    BY <1>1, TypeStep DEF OutboxInvariant
  <2>2. Keeps /\ RowsAreWhole'
    BY <1>1, KeepsStep DEF OutboxInvariant
  <2>3. BatchesAreSound'
    BY <1>1, <2>1, <2>2, BatchStep DEF OutboxInvariant
  <2>4. SentIsStored' /\ MarksAreStored'
    BY <1>1, <2>2, SentStep, MarksStep DEF OutboxInvariant
  <2>5. CursorBehindWatermark' /\ sync'.last >= sync.last
    BY <1>1, <2>1, <2>2, CursorStep DEF OutboxInvariant
  <2> QED
    BY <2>1, <2>2, <2>3, <2>4, <2>5 DEF OutboxInvariant
<1>2. CASE UNCHANGED vars
  <2>1. OutboxInvariant'
    <3>1. TypeOK' /\ RowsAreWhole'
      BY <1>2 DEF vars, OutboxInvariant, TypeOK, RowsAreWhole
    <3>2. BatchesAreSound'
      BY <1>2 DEF vars, OutboxInvariant, BatchesAreSound, BatchSound, Passed, RowStored
    <3>3. SentIsStored' /\ MarksAreStored' /\ CursorBehindWatermark'
      BY <1>2 DEF vars, OutboxInvariant, RowStored, SentIsStored, MarksAreStored,
                  CursorBehindWatermark
    <3> QED
      BY Zenon, <3>1, <3>2, <3>3 DEF OutboxInvariant
  <2>2. sync.last \in Nat /\ sync' = sync
    BY <1>2, Naturals DEF vars, OutboxInvariant, TypeOK
  <2> QED
    BY <2>1, <2>2
<1> QED
  BY <1>1, <1>2

(* The inductive invariant of the outbox holds of every behaviour, for any *)
(* rows, events, workers, batch size and bounds.                           *)
THEOREM OutboxIsSound == Spec => []OutboxInvariant
<1>1. Init => OutboxInvariant
  BY OutboxAssumption, InitSound
<1>2. OutboxInvariant /\ [Next]_vars => OutboxInvariant'
  BY OutboxAssumption, NextSound
<1> QED
  BY <1>1, <1>2, PTL DEF Spec

(* The rows, batches, marks and sync state keep their types, and           *)
(* handleFailure always has a lease or a status left to write.             *)
THEOREM OutboxTypes == Spec => []TypeOK
<1>1. OutboxInvariant => TypeOK
  BY DEF OutboxInvariant
<1> QED
  BY <1>1, OutboxIsSound, PTL

(* markDelivered marks a row as sent only when ClickHouse stores it.       *)
THEOREM SentRowsAreStored == Spec => []SentIsStored
<1>1. OutboxInvariant => SentIsStored
  BY DEF OutboxInvariant
<1> QED
  BY <1>1, OutboxIsSound, PTL

(* The registry's sync marks that payload cleanup and metrics trust are    *)
(* backed by stored rows.                                                  *)
THEOREM SyncMarksAreStored == Spec => []MarksAreStored
<1>1. OutboxInvariant => MarksAreStored
  BY DEF OutboxInvariant
<1> QED
  BY <1>1, OutboxIsSound, PTL

(* last_outbox_id never passes the watermark in ClickHouse.                *)
THEOREM CursorIsBehindWatermark == Spec => []CursorBehindWatermark
<1>1. OutboxInvariant => CursorBehindWatermark
  BY DEF OutboxInvariant
<1> QED
  BY <1>1, OutboxIsSound, PTL

(* last_outbox_id never falls, in whatever order batches are acknowledged. *)
THEOREM CursorOnlyGrows == Spec => CursorNeverRegresses
<1>1. OutboxInvariant /\ [Next]_vars => [sync'.last >= sync.last]_vars
  BY OutboxAssumption, NextSound
<1> QED
  BY <1>1, OutboxIsSound, PTL DEF Spec, CursorNeverRegresses
=============================================================================
