---------------------------- MODULE FreshRebuild ----------------------------
(***************************************************************************)
(* The fresh rebuild of the ClickHouse projection                          *)
(* (scripts/release/clickhouse-fresh-rebuild.mjs) beside the worker's      *)
(* outbox poller.  A rebuild takes a lock and the sink's pause key in      *)
(* Redis, waits for the outbox leases to end, drops and recreates the      *)
(* schema, clones the sent outbox rows, lets the poller deliver the        *)
(* clones, pauses it again and compares what is stored with what was       *)
(* retained.  The poller reads the pause key and leases its batch in two   *)
(* steps.  Each rebuild runs once; each row is one projected row.          *)
(***************************************************************************)
EXTENDS Integers, FiniteSets, FiniteSetsExt, Functions

CONSTANTS
    Live,         \* ids of the rows that the pipeline writes
    Rebuilds,     \* tokens of the runs of the script
    None,
    MaxFaults     \* bound: failed deliveries, worker crashes, leases and keys that
                  \* run out under their owner, an operator's pauses, further runs

ASSUME RebuildAssumption ==
    /\ Live \subseteq Nat \ {0}
    /\ None \notin Rebuilds \cup Live /\ "operator" \notin Rebuilds /\ "live" \notin Rebuilds
    /\ None \notin {"call", "check", "operator"}
    /\ MaxFaults \in Nat

VARIABLES
    redis,       \* the owners of the lock and of the pause key
    clickhouse,  \* whether the schema is there, and the rows stored per delivery id
    outbox,      \* the status of a row per source and key prefix
    poller,      \* the outbox poller of the worker
    rebuild,     \* the runs of the script
    reset,       \* the rebuild that dropped the schema last
    late,        \* history: sources leased while the sink was paused
    outlived,    \* history: a key ran out under a rebuild at work
    faults

vars == <<redis, clickhouse, outbox, poller, rebuild, reset, late, outlived, faults>>

(* A clone repeats the delivery id of its source; its idempotency key has  *)
(* the prefix of the rebuild.                                              *)
Keys == Live \X ({"live"} \cup Rebuilds)

Running == {"pause", "drain", "retain", "drop", "migrate", "empty", "clone", "resume", "replay",
            "repause", "redrain", "counts", "identities", "aggregates", "release", "evidence",
            "catch_pause", "catch_drain", "catch_drop", "catch_migrate", "catch_release", "unlock"}
Ended == {"passed", "failed", "killed"}

Checks == {"counts", "identities", "aggregates"}

(* Types, and: no row is stored twice, since deliver() asks ClickHouse for *)
(* the delivery id before each insert.                                     *)
TypeOK ==
    /\ redis \in [lock : Rebuilds \cup {None}, pause : Rebuilds \cup {"operator", None}]
    /\ clickhouse \in [schema : BOOLEAN, copies : [Live -> 0..1]]
    /\ outbox \in [Keys -> {"absent", "pending", "leased", "expired", "failed", "sent", "dead_letter"}]
    /\ poller \in [pc : {"idle", "checked", "query", "insert", "ack"}, row : Keys \cup {None}]
    /\ rebuild \in [Rebuilds -> [pc : {"idle"} \cup Running \cup Ended, retained : SUBSET Live,
                                 pauseHeld : BOOLEAN, schemaReady : BOOLEAN, resetStarted : BOOLEAN,
                                 failure : {"call", "check", None}]]
    /\ reset \in Rebuilds \cup {None} /\ late \subseteq Live
    /\ outlived \in BOOLEAN /\ faults \in 0..MaxFaults

(* A run that has no local state: it has not begun, or has ended.          *)
NoRun(pc, failure) ==
    [pc |-> pc, retained |-> {}, pauseHeld |-> FALSE, schemaReady |-> FALSE,
     resetStarted |-> FALSE, failure |-> failure]

(* Some rows were delivered before; the others are to be delivered, at     *)
(* whatever time the poller comes to them.                                 *)
Init ==
    /\ redis = [lock |-> None, pause |-> None]
    /\ \E sent \in SUBSET Live :
       /\ outbox = [k \in Keys |-> IF k[2] = "live" /\ k[1] \in sent THEN "sent"
                              ELSE IF k[2] = "live" THEN "pending" ELSE "absent"]
       /\ clickhouse = [schema |-> TRUE, copies |-> [i \in Live |-> IF i \in sent THEN 1 ELSE 0]]
    /\ poller = [pc |-> "idle", row |-> None]
    /\ rebuild = [t \in Rebuilds |-> NoRun("idle", None)]
    /\ reset = None /\ late = {} /\ outlived = FALSE /\ faults = 0

Fault == faults < MaxFaults /\ faults' = faults + 1

-----------------------------------------------------------------------------
(* The poller returns at once when the pause key exists.                   *)
ReadPause ==
    /\ poller.pc = "idle" /\ redis.pause = None
    /\ poller' = [poller EXCEPT !.pc = "checked"]
    /\ UNCHANGED <<redis, clickhouse, outbox, rebuild, reset, late, outlived, faults>>

(* leaseOutbox, with batches of one row.                                   *)
Lease ==
    /\ poller.pc = "checked"
    /\ \/ \E k \in Keys :
          /\ outbox[k] \in {"pending", "failed", "expired"}
          /\ outbox' = [outbox EXCEPT ![k] = "leased"]
          /\ poller' = [pc |-> "query", row |-> k]
          /\ late' = IF redis.pause = None THEN late ELSE late \cup {k[1]}
       \/ /\ \A k \in Keys : outbox[k] \notin {"pending", "failed", "expired"}
          /\ poller' = [poller EXCEPT !.pc = "idle"]
          /\ UNCHANGED <<outbox, late>>
    /\ UNCHANGED <<redis, clickhouse, rebuild, reset, outlived, faults>>

(* deliver() asks for the delivery id and inserts the row when it is       *)
(* missing; both need the schema.                                          *)
Query ==
    /\ poller.pc = "query" /\ clickhouse.schema
    /\ poller' = [poller EXCEPT !.pc = IF clickhouse.copies[poller.row[1]] = 0 THEN "insert" ELSE "ack"]
    /\ UNCHANGED <<redis, clickhouse, outbox, rebuild, reset, late, outlived, faults>>

Insert ==
    /\ poller.pc = "insert" /\ clickhouse.schema
    /\ clickhouse' = [clickhouse EXCEPT !.copies[poller.row[1]] = @ + 1]
    /\ poller' = [poller EXCEPT !.pc = "ack"]
    /\ UNCHANGED <<redis, outbox, rebuild, reset, late, outlived, faults>>

(* markDelivered: fenced by the lease.                                     *)
MarkDelivered ==
    /\ poller.pc = "ack"
    /\ outbox' = [outbox EXCEPT ![poller.row] = IF @ = "leased" THEN "sent" ELSE @]
    /\ poller' = [pc |-> "idle", row |-> None]
    /\ UNCHANGED <<redis, clickhouse, rebuild, reset, late, outlived, faults>>

(* The delivery fails, as it must without a schema: a retry or, with its   *)
(* attempts used up, a dead letter.                                        *)
DeliveryFails ==
    /\ poller.pc \in {"query", "insert"}
    /\ \E status \in {"failed", "dead_letter"} :
       outbox' = [outbox EXCEPT ![poller.row] = IF @ = "leased" THEN status ELSE @]
    /\ poller' = [pc |-> "idle", row |-> None]
    /\ IF clickhouse.schema THEN Fault ELSE UNCHANGED faults
    /\ UNCHANGED <<redis, clickhouse, rebuild, reset, late, outlived>>

WorkerCrash ==
    /\ poller.pc \in {"query", "insert", "ack"}
    /\ poller' = [pc |-> "idle", row |-> None]
    /\ Fault
    /\ UNCHANGED <<redis, clickhouse, outbox, rebuild, reset, late, outlived>>

LeaseExpires(k) ==
    /\ outbox[k] = "leased"
    /\ outbox' = [outbox EXCEPT ![k] = "expired"]
    /\ IF poller.row = k THEN Fault ELSE UNCHANGED faults
    /\ UNCHANGED <<redis, clickhouse, poller, rebuild, reset, late, outlived>>

PollerStep == ReadPause \/ Lease \/ Query \/ Insert \/ MarkDelivered

-----------------------------------------------------------------------------
(* runFreshRebuild.                                                        *)

(* Mutant of AfterPause: the schema is not recovered first.                *)
AfterPauseRelease(r) == IF r.pauseHeld THEN "catch_release" ELSE "unlock"

(* What the catch block does once it has tried to pause delivery.          *)
AfterPause(r) ==
    CASE r.pauseHeld /\ ~r.schemaReady -> "catch_drop"
      [] r.pauseHeld /\ r.schemaReady -> "catch_release"
      [] OTHER -> "unlock"

Throw(r) ==
    [r EXCEPT !.failure = IF r.pc \in Checks THEN "check" ELSE "call",
              !.pc = IF r.resetStarted THEN "catch_pause" ELSE AfterPause(r)]

(* Step t leaves Redis, ClickHouse and the outbox alone, or only touches   *)
(* the one of them that its action names.                                  *)
Becomes(t, r) == rebuild' = [rebuild EXCEPT ![t] = r]

UnchangedByRebuild == UNCHANGED <<poller, late, outlived, faults>>

(* Mutant of AcquireKey: SET without NX.                                   *)
AcquireKeyAny(owner, t) == TRUE

(* A key is taken only when nobody holds it.                               *)
AcquireKey(owner, t) == owner = None

(* validateFreshTarget, and the lock: SET ... NX.  Runs differ in their    *)
(* tokens only, so any that has not begun stands for the next one.         *)
Start(t) ==
    LET r == rebuild[t]
    IN  /\ r.pc = "idle" /\ t = CHOOSE u \in Rebuilds : rebuild[u].pc = "idle"
        /\ \/ /\ AcquireKey(redis.lock, t)
              /\ redis' = [redis EXCEPT !.lock = t]
              /\ Becomes(t, [r EXCEPT !.pc = "pause"])
           \/ /\ Becomes(t, NoRun("failed", "call"))
              /\ UNCHANGED redis
        /\ IF \A u \in Rebuilds : rebuild[u].pc = "idle" THEN UNCHANGED faults ELSE Fault
        /\ UNCHANGED <<clickhouse, outbox, poller, reset, late, outlived>>

AcquirePause(t) ==
    LET r == rebuild[t]
    IN  /\ r.pc = "pause"
        /\ IF AcquireKey(redis.pause, t)
           THEN /\ redis' = [redis EXCEPT !.pause = t]
                /\ Becomes(t, [r EXCEPT !.pc = "drain", !.pauseHeld = TRUE])
           ELSE Becomes(t, Throw(r)) /\ UNCHANGED redis
        /\ UnchangedByRebuild /\ UNCHANGED <<clickhouse, outbox, reset>>

Drained == \A k \in Keys : outbox[k] # "leased"

(* waitForNoLeases requeues the leases that ran out, then counts those     *)
(* that are left.  What happens between the two statements could as well   *)
(* have happened before them.                                              *)
Drain(t) ==
    LET r == rebuild[t]
        next == CASE r.pc = "drain" -> "retain" [] r.pc = "redrain" -> "counts"
                  [] OTHER -> AfterPause(r)
    IN  /\ r.pc \in {"drain", "redrain", "catch_drain"}
        /\ Drained \/ \E k \in Keys : outbox[k] = "expired"
        /\ outbox' = [k \in Keys |-> IF outbox[k] = "expired" THEN "failed" ELSE outbox[k]]
        /\ Becomes(t, IF Drained THEN [r EXCEPT !.pc = next] ELSE r)
        /\ UnchangedByRebuild /\ UNCHANGED <<redis, clickhouse, reset>>

Sent == {i \in Live : outbox[<<i, "live">>] = "sent"}

(* retainedRows.                                                           *)
Retain(t) ==
    LET r == rebuild[t]
    IN  /\ r.pc = "retain"
        /\ Becomes(t, [r EXCEPT !.pc = "drop", !.retained = Sent, !.resetStarted = TRUE])
        /\ UnchangedByRebuild /\ UNCHANGED <<redis, clickhouse, outbox, reset>>

(* dropDatabaseObjects, of the rebuild and of its catch block.             *)
Drop(t) ==
    LET r == rebuild[t]
    IN  /\ r.pc \in {"drop", "catch_drop"}
        /\ clickhouse' = [schema |-> FALSE, copies |-> [i \in Live |-> 0]]
        /\ reset' = t
        /\ Becomes(t, [r EXCEPT !.pc = IF r.pc = "drop" THEN "migrate" ELSE "catch_migrate"])
        /\ UnchangedByRebuild /\ UNCHANGED <<redis, outbox>>

(* migrateCurrentSchema("up") and ("verify").                              *)
Migrate(t) ==
    LET r == rebuild[t]
    IN  /\ r.pc \in {"migrate", "catch_migrate"}
        /\ clickhouse' = [clickhouse EXCEPT !.schema = TRUE]
        /\ Becomes(t, [r EXCEPT !.schemaReady = TRUE,
                                !.pc = IF r.pc = "migrate" THEN "empty" ELSE "catch_release"])
        /\ UnchangedByRebuild /\ UNCHANGED <<redis, outbox, reset>>

(* verifySchemaObjects and the projection counts, which must be zero.      *)
CheckEmpty(t) ==
    LET r == rebuild[t]
    IN  /\ r.pc = "empty"
        /\ Becomes(t, IF clickhouse.schema /\ \A i \in Live : clickhouse.copies[i] = 0
                      THEN [r EXCEPT !.pc = "clone"] ELSE Throw(r))
        /\ UnchangedByRebuild /\ UNCHANGED <<redis, clickhouse, outbox, reset>>

(* The sent rows up to the last one that was retained.                     *)
Cloned(r) ==
    IF r.retained = {} THEN {} ELSE {i \in Sent : i <= Max(r.retained)}

(* cloneRetainedRows: the clones stay when their number is not the         *)
(* expected one.                                                           *)
CloneRows(t) ==
    LET r == rebuild[t]
        cloned == Cloned(r)
    IN  /\ r.pc = "clone"
        /\ outbox' = [k \in Keys |-> IF k[2] = t /\ k[1] \in cloned THEN "pending" ELSE outbox[k]]
        /\ Becomes(t, IF Cardinality(cloned) = Cardinality(r.retained)
                      THEN [r EXCEPT !.pc = "resume"] ELSE Throw(r))
        /\ UnchangedByRebuild /\ UNCHANGED <<redis, clickhouse, reset>>

(* releaseKey(pauseKey): before the replay, and after the last check.      *)
Resume(t) ==
    LET r == rebuild[t]
    IN  /\ r.pc \in {"resume", "release"}
        /\ IF redis.pause = t
           THEN /\ redis' = [redis EXCEPT !.pause = None]
                /\ Becomes(t, [r EXCEPT !.pauseHeld = FALSE,
                                        !.pc = IF r.pc = "resume" THEN "replay" ELSE "evidence"])
           ELSE Becomes(t, Throw(r)) /\ UNCHANGED redis
        /\ UnchangedByRebuild /\ UNCHANGED <<clickhouse, outbox, reset>>

(* waitForReplay.                                                          *)
Replayed(t) ==
    LET r == rebuild[t]
        statuses == {outbox[<<i, t>>] : i \in r.retained}
    IN  /\ r.pc = "replay"
        /\ "dead_letter" \in statuses \/ statuses \subseteq {"sent"}
        /\ Becomes(t, IF "dead_letter" \in statuses THEN Throw(r) ELSE [r EXCEPT !.pc = "repause"])
        /\ UnchangedByRebuild /\ UNCHANGED <<redis, clickhouse, outbox, reset>>

(* ensurePaused.  The catch block does not note that it holds the key.     *)
EnsurePaused(t) ==
    LET r == rebuild[t]
    IN  /\ r.pc \in {"repause", "catch_pause"}
        /\ IF redis.pause \in {t, None}
           THEN /\ redis' = [redis EXCEPT !.pause = t]
                /\ Becomes(t, IF r.pc = "repause"
                              THEN [r EXCEPT !.pc = "redrain", !.pauseHeld = TRUE]
                              ELSE [r EXCEPT !.pc = "catch_drain"])
           ELSE /\ UNCHANGED redis
                /\ Becomes(t, IF r.pc = "repause" THEN Throw(r) ELSE [r EXCEPT !.pc = AfterPause(r)])
        /\ UnchangedByRebuild /\ UNCHANGED <<clickhouse, outbox, reset>>

(* waitForProjectionCounts: too few rows are waited for.                   *)
CompareCounts(t) ==
    LET r == rebuild[t]
        actual == SumFunction(clickhouse.copies)
    IN  /\ r.pc = "counts" /\ actual >= Cardinality(r.retained)
        /\ Becomes(t, IF actual = Cardinality(r.retained)
                      THEN [r EXCEPT !.pc = "identities"] ELSE Throw(r))
        /\ UnchangedByRebuild /\ UNCHANGED <<redis, clickhouse, outbox, reset>>

Projected(retained) ==
    \A i \in Live : clickhouse.copies[i] = IF i \in retained THEN 1 ELSE 0

(* verifyProjectionDeliveryIds.                                            *)
CompareIdentities(t) ==
    LET r == rebuild[t]
    IN  /\ r.pc = "identities"
        /\ Becomes(t, IF Projected(r.retained) THEN [r EXCEPT !.pc = "aggregates"] ELSE Throw(r))
        /\ UnchangedByRebuild /\ UNCHANGED <<redis, clickhouse, outbox, reset>>

(* waitForAggregateSemantics compares sums of the same rows, and the       *)
(* schema is verified once more.                                           *)
CompareAggregates(t) ==
    LET r == rebuild[t]
    IN  /\ r.pc = "aggregates"
        /\ Becomes(t, IF clickhouse.schema THEN [r EXCEPT !.pc = "release"] ELSE Throw(r))
        /\ UnchangedByRebuild /\ UNCHANGED <<redis, clickhouse, outbox, reset>>

WriteEvidence(t) ==
    /\ rebuild[t].pc = "evidence"
    /\ Becomes(t, [rebuild[t] EXCEPT !.pc = "unlock"])
    /\ UnchangedByRebuild /\ UNCHANGED <<redis, clickhouse, outbox, reset>>

(* A call fails or a wait times out: the catch block takes over.  A        *)
(* migration that fails may have created the schema.                       *)
Fails(t) ==
    LET r == rebuild[t]
    IN  /\ r.pc \in Running \ {"catch_pause", "catch_drain", "catch_drop", "catch_migrate",
                               "catch_release", "unlock"}
        /\ Becomes(t, Throw(r))
        /\ \E schema \in {clickhouse.schema, clickhouse.schema \/ r.pc = "migrate"} :
           clickhouse' = [clickhouse EXCEPT !.schema = schema]
        /\ UnchangedByRebuild /\ UNCHANGED <<redis, outbox, reset>>

(* A step of the catch block fails.                                        *)
CatchFails(t) ==
    LET r == rebuild[t]
    IN  /\ r.pc \in {"catch_pause", "catch_drain", "catch_drop", "catch_migrate"}
        /\ Becomes(t, [r EXCEPT !.pc = IF r.pc \in {"catch_pause", "catch_drain"}
                                       THEN AfterPause(r) ELSE "unlock"])
        /\ \E schema \in {clickhouse.schema, clickhouse.schema \/ r.pc = "catch_migrate"} :
           clickhouse' = [clickhouse EXCEPT !.schema = schema]
        /\ UnchangedByRebuild /\ UNCHANGED <<redis, outbox, reset>>

(* The catch block gives the pause back, if it can.                        *)
CatchRelease(t) ==
    LET r == rebuild[t]
    IN  /\ r.pc = "catch_release"
        /\ \/ /\ redis.pause = t
              /\ redis' = [redis EXCEPT !.pause = None]
              /\ Becomes(t, [r EXCEPT !.pc = "unlock", !.pauseHeld = FALSE])
           \/ UNCHANGED redis /\ Becomes(t, [r EXCEPT !.pc = "unlock"])
        /\ UnchangedByRebuild /\ UNCHANGED <<clickhouse, outbox, reset>>

(* The failed evidence, if any, and the finally block.                     *)
Unlock(t) ==
    LET r == rebuild[t]
    IN  /\ r.pc = "unlock"
        /\ redis' = [redis EXCEPT !.lock = IF @ = t THEN None ELSE @]
        /\ Becomes(t, NoRun(IF r.failure = None THEN "passed" ELSE "failed", r.failure))
        /\ UnchangedByRebuild /\ UNCHANGED <<clickhouse, outbox, reset>>

(* The worker ends the script after half an hour, or its host stops.       *)
Kill(t) ==
    /\ rebuild[t].pc \in Running
    /\ Becomes(t, NoRun("killed", None))
    /\ UnchangedByRebuild /\ UNCHANGED <<redis, clickhouse, outbox, reset>>

-----------------------------------------------------------------------------
AtWork(owner) == owner \in Rebuilds /\ rebuild[owner].pc \in Running

Outlive(owner) ==
    IF AtWork(owner) THEN outlived' = TRUE /\ Fault ELSE UNCHANGED <<outlived, faults>>

(* Mutant of PauseExpires: the pause key is set without PX.                *)
PauseExpiresNever == FALSE /\ UNCHANGED vars

(* PX 3600000: a key runs out, whether or not its owner still works.       *)
PauseExpires ==
    /\ redis.pause # None
    /\ redis' = [redis EXCEPT !.pause = None] /\ Outlive(redis.pause)
    /\ UNCHANGED <<clickhouse, outbox, poller, rebuild, reset, late>>

LockExpires ==
    /\ redis.lock # None
    /\ redis' = [redis EXCEPT !.lock = None] /\ Outlive(redis.lock)
    /\ UNCHANGED <<clickhouse, outbox, poller, rebuild, reset, late>>

(* pause_sink and resume_sink of an operator.                              *)
PauseSink ==
    /\ redis.pause = None
    /\ redis' = [redis EXCEPT !.pause = "operator"] /\ Fault
    /\ UNCHANGED <<clickhouse, outbox, poller, rebuild, reset, late, outlived>>

ResumeSink ==
    /\ redis.pause = "operator"
    /\ redis' = [redis EXCEPT !.pause = None]
    /\ UNCHANGED <<clickhouse, outbox, poller, rebuild, reset, late, outlived, faults>>

RebuildStep(t) ==
    \/ AcquirePause(t) \/ Drain(t) \/ Retain(t) \/ Drop(t) \/ Migrate(t) \/ CheckEmpty(t)
    \/ CloneRows(t) \/ Resume(t) \/ Replayed(t) \/ EnsurePaused(t) \/ CompareCounts(t)
    \/ CompareIdentities(t) \/ CompareAggregates(t) \/ WriteEvidence(t)
    \/ Fails(t) \/ CatchFails(t) \/ CatchRelease(t) \/ Unlock(t)

Next ==
    \/ PollerStep \/ DeliveryFails \/ WorkerCrash
    \/ \E k \in Keys : LeaseExpires(k)
    \/ \E t \in Rebuilds : Start(t) \/ RebuildStep(t) \/ Kill(t)
    \/ PauseSink \/ ResumeSink \/ PauseExpires \/ LockExpires

Spec == Init /\ [][Next]_vars

(* The script goes on until a wait times out, and Redis drops old keys.    *)
Fairness ==
    /\ \A t \in Rebuilds : WF_vars(RebuildStep(t))
    /\ WF_vars(PauseExpires) /\ WF_vars(LockExpires)

FairSpec == Spec /\ Fairness

-----------------------------------------------------------------------------
Resetting(t) ==
    \/ rebuild[t].pc \in {"migrate", "empty", "clone", "resume"} \/ rebuild[t].pc = "catch_migrate"

(* The lock and the pause do their work as long as no key runs out under a *)
(* rebuild: one rebuild at a time replaces the schema, and it holds the    *)
(* pause while it does.                                                    *)
ResetIsExclusive ==
    ~outlived =>
        \A t \in Rebuilds : Resetting(t) =>
            redis.pause = t /\ redis.lock = t /\ \A u \in Rebuilds : Resetting(u) => u = t

(* "fail-closed current-schema recovery": no step of a rebuild or of its   *)
(* catch block lets delivery resume on a database without its schema, as long as no    *)
(* key ran out under a rebuild.                                            *)
NoResumeWithoutSchema ==
    [][~outlived /\ ~clickhouse.schema /\ redis.pause \in Rebuilds /\ redis'.pause = None
       => UNCHANGED rebuild]_vars

(* A rebuild that reports "passed" lost nothing: every row marked sent is  *)
(* stored, unless it was leased by a poller that read the pause key before *)
(* the pause was taken.                                                    *)
PassedIsComplete ==
    reset # None /\ rebuild[reset].pc = "passed" =>
        \A i \in Sent \ late : clickhouse.copies[i] > 0

(* What overlapping rebuilds keep at every instant: the reset is exclusive *)
(* and a rebuild that says "passed" lost nothing.                          *)
RebuildInvariant == TypeOK /\ ResetIsExclusive /\ PassedIsComplete

(* "If a check fails, delivery stays paused."                              *)
FailedCheckStaysPaused ==
    \A t \in Rebuilds :
        rebuild[t].pc = "failed" /\ rebuild[t].failure = "check" => redis.pause # None

(* Delivery resumes: whoever paused the sink, the pause ends.              *)
DeliveryResumes == <>[](redis.pause = None)
=============================================================================
