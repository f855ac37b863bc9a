-------------------------- MODULE ClickHouseOutbox --------------------------
(***************************************************************************)
(* The delivery of pipeline_outbox rows to ClickHouse.  A worker leases a  *)
(* batch, asks each ClickHouse table which delivery ids it already holds,  *)
(* inserts the missing rows, writes the watermark, and acknowledges the    *)
(* whole batch in one fenced PostgreSQL transaction.  The ClickHouse       *)
(* tables are MergeTrees: they accept a second row with the same id.       *)
(*                                                                         *)
(* Two kinds of rows stand for all: "raw" (usage_events_raw), the row that *)
(* marks its event as raw-synced, and "rating" (costs and AIU decisions), *)
(* which marks it as officially synced.  usage_lines and profile rows take *)
(* the same path and mark nothing.                                         *)
(***************************************************************************)
EXTENDS Integers, FiniteSets

CONSTANTS
    Ids,          \* outbox ids; a transaction may commit after higher ids did
    Events,
    Workers,
    None,
    Poison,       \* events with a property whose definition was deactivated
                  \* before the commit: their raw rows cannot be mapped
    BatchSize,
    MaxAttempts,
    MaxFailures,  \* bound: failed calls, slow batches and crashes
    MaxReplays    \* bound: reprojections by reconciliation

ASSUME OutboxAssumption ==
    /\ Ids \subseteq Nat \ {0} /\ Poison \subseteq Events
    /\ None \notin Ids /\ None \notin Events /\ None \notin Workers
    /\ None \notin {"raw", "rating", "degraded", "failed"}
    /\ BatchSize \in Nat \ {0} /\ MaxAttempts \in Nat \ {0}
    /\ MaxFailures \in Nat /\ MaxReplays \in Nat

VARIABLES
    outbox,      \* pipeline_outbox
    clickhouse,  \* rows stored per delivery id, and the newest watermark
    registry,    \* clickhouse_raw_synced_at and clickhouse_official_synced_at are set
    sync,        \* clickhouse_sync_state; last = 0 is a null last_outbox_id
    worker,      \* the batch each outbox poller is working on
    failures,
    replays

vars == <<outbox, clickhouse, registry, sync, worker, failures, replays>>

Kinds == {"raw", "rating"}

RowType == [status : {"absent", "pending", "leased", "failed", "sent", "dead_letter"},
            kind : Kinds \cup {None}, event : Events \cup {None},
            source : Ids \cup {None}, attempts : 0..MaxAttempts, due : BOOLEAN,
            owner : Workers \cup {None}, expired : BOOLEAN]

BatchType == [mode : {"idle", "query", "insert", "watermark", "ack", "fail"}, table : Kinds,
              batch : SUBSET Ids, top : Ids \cup {None}, missing : SUBSET Ids,
              retryable : BOOLEAN, todo : SUBSET Ids, mark : {"degraded", "failed", None}]

TypeOK ==
    /\ outbox \in [Ids -> RowType]
    /\ clickhouse \in [copies : [Ids -> Nat], watermark : Ids \cup {0}]
    /\ registry \in [Events -> [raw : BOOLEAN, official : BOOLEAN]]
    /\ sync \in [last : Ids \cup {0}, status : {"none", "healthy", "degraded", "failed"}]
    /\ worker \in [Workers -> BatchType]
    /\ \A w \in Workers : worker[w].mode = "fail" => worker[w].todo # {} \/ worker[w].mark # None
    /\ failures \in 0..MaxFailures
    /\ replays \in 0..MaxReplays

NoRow == [status |-> "absent", kind |-> None, event |-> None, source |-> None, attempts |-> 0,
          due |-> FALSE, owner |-> None, expired |-> FALSE]

NewRow(kind, event, source) ==
    [status |-> "pending", kind |-> kind, event |-> event, source |-> source, attempts |-> 0,
     due |-> TRUE, owner |-> None, expired |-> FALSE]

NoBatch == [mode |-> "idle", table |-> "raw", batch |-> {}, top |-> None, missing |-> {},
            retryable |-> TRUE, todo |-> {}, mark |-> None]

Init ==
    /\ outbox = [i \in Ids |-> NoRow]
    /\ clickhouse = [copies |-> [i \in Ids |-> 0], watermark |-> 0]
    /\ registry = [e \in Events |-> [raw |-> FALSE, official |-> FALSE]]
    /\ sync = [last |-> 0, status |-> "none"]
    /\ worker = [w \in Workers |-> NoBatch]
    /\ failures = 0
    /\ replays = 0

-----------------------------------------------------------------------------
Enqueued(e, kind) == \E i \in Ids : outbox[i].event = e /\ outbox[i].kind = kind

(* commitOfficial writes the outbox rows that an event does not have yet:  *)
(* the raw row first, and a rating row when the model is mapped.           *)
Enqueue(e, raw, rating) ==
    /\ {raw, rating} # {None}
    /\ \A i \in {raw, rating} \ {None} : outbox[i].status = "absent"
    /\ IF raw = None THEN Enqueued(e, "raw") ELSE ~Enqueued(e, "raw")
    /\ rating # None => ~Enqueued(e, "rating")
    /\ rating # None => \A i \in Ids : i = raw \/ outbox[i].event = e => i < rating
    /\ outbox' = [i \in Ids |-> CASE i = raw -> NewRow("raw", e, i)
                                  [] i = rating -> NewRow("rating", e, i)
                                  [] OTHER -> outbox[i]]
    /\ UNCHANGED <<clickhouse, registry, sync, worker, failures, replays>>

(* reproject_to_clickhouse clones the finished rows of a range of events;  *)
(* a clone names the row whose delivery id it repeats.                     *)
Reprojectable(i, range) ==
    /\ outbox[i].status \in {"sent", "dead_letter"}
    /\ outbox[i].source = i /\ outbox[i].event \in range

ResetOutbox(range) ==
    LET originals == {i \in Ids : Reprojectable(i, range)}
    IN  /\ replays < MaxReplays /\ originals # {}
        /\ \E clone \in [originals -> {i \in Ids : outbox[i].status = "absent"}] :
           /\ \A i \in originals : clone[i] > i
           /\ \A i, j \in originals : clone[i] = clone[j] => i = j
           /\ outbox' = [i \in Ids |->
                  IF \E o \in originals : clone[o] = i
                  THEN LET o == CHOOSE x \in originals : clone[x] = i
                       IN  NewRow(outbox[o].kind, outbox[o].event, o)
                  ELSE outbox[i]]
        /\ replays' = replays + 1
        /\ UNCHANGED <<clickhouse, registry, sync, worker, failures>>

-----------------------------------------------------------------------------
(* Mutant of Candidate: a lease that ran out is never taken over.          *)
CandidateUnleased(row) == row.status \in {"pending", "failed"} /\ row.due

Candidate(row) ==
    \/ row.status \in {"pending", "failed"} /\ row.due
    \/ row.status = "leased" /\ row.expired

LeasedRow(row, w) ==
    [row EXCEPT !.status = "leased", !.owner = w, !.expired = FALSE,
                !.attempts = IF @ < MaxAttempts THEN @ + 1 ELSE @]

(* Every record is mapped before the first query; one that cannot be       *)
(* mapped is a TypeError for the batch.                                    *)
Mappable(batch) == \A i \in batch : outbox[i].kind = "raw" => outbox[i].event \notin Poison

(* handleFailure goes through the leases of the batch.                     *)
Failing(j, retryable) ==
    [j EXCEPT !.mode = "fail", !.missing = {}, !.retryable = retryable, !.todo = j.batch]

(* ORDER BY available_at, id: the rows of one event that were never leased *)
(* go in the order they were written.                                      *)
InOrder(batch) ==
    \A i \in batch, k \in Ids \ batch :
        ~(k < i /\ outbox[k].event = outbox[i].event
          /\ outbox[k].status = "pending" /\ outbox[i].status = "pending")

(* runBatch leases rows that are due or whose lease ran out; rows locked   *)
(* by others are skipped.                                                  *)
LeaseOutbox(w) ==
    /\ worker[w].mode = "idle"
    /\ \E batch \in SUBSET {i \in Ids : Candidate(outbox[i])}, top \in Ids :
       /\ top \in batch /\ \A i \in batch : i <= top
       /\ Cardinality(batch) <= BatchSize /\ InOrder(batch)
       /\ outbox' = [i \in Ids |-> IF i \in batch THEN LeasedRow(outbox[i], w) ELSE outbox[i]]
       /\ LET leased == [NoBatch EXCEPT !.mode = "query", !.batch = batch, !.top = top]
          IN  worker' = [worker EXCEPT ![w] =
                  IF Mappable(batch) THEN leased ELSE Failing(leased, FALSE)]
    /\ UNCHANGED <<clickhouse, registry, sync, failures, replays>>

-----------------------------------------------------------------------------
(* deliver(): one table after the other, then the watermark.               *)
Rows(j) == {i \in j.batch : outbox[i].kind = j.table}

(* Two clones of one row differ in their source_outbox_id.                 *)
Conflicting(rows) == \E i, j \in rows : i # j /\ outbox[i].source = outbox[j].source

(* Mutant of Advanced: a table with nothing to insert ends the loop.       *)
AdvancedBreaks(j) ==
    [j EXCEPT !.missing = {}, !.table = "rating",
              !.mode = IF j.table = "raw" /\ j.mode = "insert" THEN "query" ELSE "watermark"]

Advanced(j) ==
    [j EXCEPT !.missing = {}, !.table = "rating",
              !.mode = IF j.table = "raw" THEN "query" ELSE "watermark"]

(* Mutant of Missing: the table is not asked first.                        *)
MissingUnasked(rows) == {s \in Ids : \E i \in rows : outbox[i].source = s}

(* Delivery ids that the table does not hold.                              *)
Missing(rows) ==
    {s \in Ids : clickhouse.copies[s] = 0 /\ \E i \in rows : outbox[i].source = s}

Query(w) ==
    LET j == worker[w]
        missing == Missing(Rows(j))
    IN  /\ j.mode = "query"
        /\ worker' = [worker EXCEPT ![w] =
               IF Conflicting(Rows(j)) THEN Failing(j, FALSE)
               ELSE IF missing = {} THEN Advanced(j)
               ELSE [j EXCEPT !.mode = "insert", !.missing = missing]]
        /\ UNCHANGED <<outbox, clickhouse, registry, sync, failures, replays>>

Stored(copies, ids) == [s \in Ids |-> IF s \in ids THEN copies[s] + 1 ELSE copies[s]]

Insert(w) ==
    /\ worker[w].mode = "insert"
    /\ clickhouse' = [clickhouse EXCEPT !.copies = Stored(@, worker[w].missing)]
    /\ worker' = [worker EXCEPT ![w] = Advanced(@)]
    /\ UNCHANGED <<outbox, registry, sync, failures, replays>>

(* Mutant of Newest: the watermark written last wins.                      *)
NewestLast(watermark, top) == top

(* The watermark row with the highest version is the one that is read.     *)
Newest(watermark, top) == IF watermark < top THEN top ELSE watermark

WriteWatermark(w) ==
    /\ worker[w].mode = "watermark"
    /\ clickhouse' = [clickhouse EXCEPT !.watermark = Newest(@, worker[w].top)]
    /\ worker' = [worker EXCEPT ![w].mode = "ack"]
    /\ UNCHANGED <<outbox, registry, sync, failures, replays>>

(* A call to ClickHouse fails; an insert may have stored some of its rows. *)
ClickHouseFails(w) ==
    /\ worker[w].mode \in {"query", "insert", "watermark"} /\ failures < MaxFailures
    /\ \E stored \in SUBSET worker[w].missing, written \in BOOLEAN :
       /\ written => worker[w].mode = "watermark"
       /\ clickhouse' = [copies |-> Stored(clickhouse.copies, stored),
                         watermark |-> IF written THEN Newest(clickhouse.watermark, worker[w].top)
                                       ELSE clickhouse.watermark]
    /\ worker' = [worker EXCEPT ![w] = Failing(@, TRUE)]
    /\ failures' = failures + 1
    /\ UNCHANGED <<outbox, registry, sync, replays>>

-----------------------------------------------------------------------------
Fenced(row, w) == row.status = "leased" /\ row.owner = w /\ ~row.expired

(* Mutant of Synced: the cursor follows the batch that commits last.       *)
SyncedLast(state, top) == [last |-> top, status |-> "healthy"]

(* The upsert of clickhouse_sync_state.                                    *)
Synced(state, top) == IF state.last <= top THEN [last |-> top, status |-> "healthy"] ELSE state

Marked(e, batch) ==
    [raw |-> registry[e].raw \/ \E i \in batch : outbox[i].event = e /\ outbox[i].kind = "raw",
     official |-> registry[e].official
                  \/ \E i \in batch : outbox[i].event = e /\ outbox[i].kind = "rating"]

(* markDelivered: one transaction for the batch.                           *)
MarkDelivered(w) ==
    LET j == worker[w]
    IN  /\ j.mode = "ack" /\ \A i \in j.batch : Fenced(outbox[i], w)
        /\ outbox' = [i \in Ids |->
               IF i \in j.batch THEN [outbox[i] EXCEPT !.status = "sent"] ELSE outbox[i]]
        /\ registry' = [e \in Events |-> Marked(e, j.batch)]
        /\ sync' = Synced(sync, j.top)
        /\ worker' = [worker EXCEPT ![w] = NoBatch]
        /\ UNCHANGED <<clickhouse, failures, replays>>

(* retry() or deadLetter() of the next lease; the sync state follows in a  *)
(* statement of its own.                                                   *)
FailLease(w) ==
    LET j == worker[w]
    IN  /\ j.mode = "fail" /\ j.mark = None
        /\ \E i \in j.todo :
           LET retried == j.retryable /\ outbox[i].attempts < MaxAttempts
           IN  /\ \A k \in j.todo : i <= k
               /\ Fenced(outbox[i], w)
               /\ outbox' = [outbox EXCEPT ![i].status =
                                 IF retried THEN "failed" ELSE "dead_letter",
                                           ![i].due = FALSE]
               /\ worker' = [worker EXCEPT ![w].todo = @ \ {i},
                                           ![w].mark = IF retried THEN "degraded" ELSE "failed"]
        /\ UNCHANGED <<clickhouse, registry, sync, failures, replays>>

Continued(j) == IF j.todo = {} THEN NoBatch ELSE [j EXCEPT !.mark = None]

MarkSyncFailure(w) ==
    /\ worker[w].mark # None
    /\ sync' = [sync EXCEPT !.status = worker[w].mark]
    /\ worker' = [worker EXCEPT ![w] = Continued(@)]
    /\ UNCHANGED <<outbox, clickhouse, registry, failures, replays>>

(* A fenced statement finds its lease lost: runBatch throws, and what is   *)
(* left of the batch waits for its leases to run out.                      *)
LoseLease(w) ==
    LET j == worker[w]
    IN  /\ \/ j.mode = "ack" /\ \E i \in j.batch : ~Fenced(outbox[i], w)
           \/ /\ j.mode = "fail" /\ j.mark = None
              /\ \E i \in j.todo : (\A k \in j.todo : i <= k) /\ ~Fenced(outbox[i], w)
        /\ worker' = [worker EXCEPT ![w] = NoBatch]
        /\ UNCHANGED <<outbox, clickhouse, registry, sync, failures, replays>>

(* PostgreSQL refuses a statement, or the process ends.                    *)
Abandon(w) ==
    /\ worker[w].mode # "idle" /\ failures < MaxFailures
    /\ worker' = [worker EXCEPT ![w] = NoBatch]
    /\ failures' = failures + 1
    /\ UNCHANGED <<outbox, clickhouse, registry, sync, replays>>

-----------------------------------------------------------------------------
BecomeDue(i) ==
    /\ outbox[i].status = "failed" /\ ~outbox[i].due
    /\ outbox' = [outbox EXCEPT ![i].due = TRUE]
    /\ UNCHANGED <<clickhouse, registry, sync, worker, failures, replays>>

(* A lease runs out.  That a batch still at work outlasts it counts as a   *)
(* failure, so it happens a bounded number of times.                       *)
LeaseExpires(i) ==
    /\ outbox[i].status = "leased" /\ ~outbox[i].expired
    /\ outbox' = [outbox EXCEPT ![i].expired = TRUE]
    /\ IF \E w \in Workers : outbox[i].owner = w /\ i \in worker[w].batch
       THEN failures < MaxFailures /\ failures' = failures + 1
       ELSE UNCHANGED failures
    /\ UNCHANGED <<clickhouse, registry, sync, worker, replays>>

WorkerStep(w) ==
    \/ LeaseOutbox(w) \/ Query(w) \/ Insert(w) \/ WriteWatermark(w) \/ MarkDelivered(w)
    \/ FailLease(w) \/ MarkSyncFailure(w) \/ LoseLease(w)

Next ==
    \/ \E w \in Workers : WorkerStep(w) \/ ClickHouseFails(w) \/ Abandon(w)
    \/ \E i \in Ids : BecomeDue(i) \/ LeaseExpires(i)
    \/ \E e \in Events, raw, rating \in Ids \cup {None} : Enqueue(e, raw, rating)
    \/ \E range \in SUBSET Events : ResetOutbox(range)

Spec == Init /\ [][Next]_vars

(* The poller of a running worker keeps running, and time passes.          *)
Fairness ==
    /\ \A w \in Workers : WF_vars(WorkerStep(w))
    /\ \A i \in Ids : WF_vars(BecomeDue(i)) /\ WF_vars(LeaseExpires(i))

FairSpec == Spec /\ Fairness

-----------------------------------------------------------------------------
(* "Marks PG delivery [...] only after CH rows and CH watermark succeeded": *)
(* a row that is sent has its rows in ClickHouse, whoever delivered them.  *)
SentIsStored ==
    \A i \in Ids : outbox[i].status = "sent" => clickhouse.copies[outbox[i].source] > 0

(* The marks that the payload cleanup and the metrics trust: an event is   *)
(* marked as synced only when a row of that kind is stored.                *)
MarksAreStored ==
    \A e \in Events :
        /\ registry[e].raw => \E i \in Ids : /\ outbox[i].event = e /\ outbox[i].kind = "raw"
                                            /\ clickhouse.copies[outbox[i].source] > 0
        /\ registry[e].official => \E i \in Ids : /\ outbox[i].event = e
                                                 /\ outbox[i].kind = "rating"
                                                 /\ clickhouse.copies[outbox[i].source] > 0

(* PostgreSQL's cursor never runs ahead of the watermark that ClickHouse   *)
(* reports, in whatever order batches are delivered and acknowledged.      *)
CursorBehindWatermark == sync.last <= clickhouse.watermark

(* "does not regress when a lower Outbox batch commits after a higher      *)
(* batch": last_outbox_id only grows.                                      *)
CursorNeverRegresses == [][sync'.last >= sync.last]_vars

(* A delivery id is stored at most once, however often its row fails, is   *)
(* leased again or is cloned.  True of one outbox poller; "a later owner   *)
(* safely replays against stable CH delivery IDs" says it of several.      *)
StoredOnce == \A s \in Ids : clickhouse.copies[s] <= 1

(* "confirm the backlog drains to zero": in the end every row is sent or   *)
(* dead-lettered, and stays so.                                            *)
RowsSettle == <>[](\A i \in Ids : outbox[i].status \in {"absent", "sent", "dead_letter"})

-----------------------------------------------------------------------------
(* The invariant that the proofs carry through a batch.                    *)
RowStored(i) == outbox[i].source \in Ids /\ clickhouse.copies[outbox[i].source] > 0

RowsAreWhole ==
    \A i \in Ids : IF outbox[i].status = "absent" THEN outbox[i] = NoRow
                   ELSE outbox[i].source \in Ids /\ outbox[i].kind \in Kinds

(* The tables a batch has passed hold its rows; at the one it is inserting *)
(* into, what is not held is missing.                                      *)
Passed(j, i) ==
    \/ j.mode \in {"idle", "fail"}
    \/ j.mode \in {"query", "insert"} /\ j.table = "raw" /\ outbox[i].kind # "raw"
    \/ j.mode = "query" /\ j.table = outbox[i].kind
    \/ j.mode = "insert" /\ j.table = outbox[i].kind /\ outbox[i].source \in j.missing
    \/ RowStored(i)

BatchSound(j) ==
    /\ j.todo \subseteq j.batch
    /\ \A i \in j.batch : outbox[i].status # "absent" /\ Passed(j, i)
    /\ j.mode \in {"query", "insert", "watermark", "ack"} => j.top \in j.batch
    /\ j.mode = "ack" => j.top <= clickhouse.watermark

BatchesAreSound == \A w \in Workers : BatchSound(worker[w])

(* Everything at once, with what a batch under way relies on: inductive.   *)
(* Sent rows and marks have their rows in ClickHouse, and the cursor stays *)
(* behind the watermark, in every interleaving of pollers and operators.   *)
OutboxInvariant ==
    /\ TypeOK /\ RowsAreWhole /\ BatchesAreSound
    /\ SentIsStored /\ MarksAreStored /\ CursorBehindWatermark
=============================================================================
