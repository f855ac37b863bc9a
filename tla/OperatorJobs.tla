--------------------------- MODULE OperatorJobs -----------------------------
(***************************************************************************)
(* The requests an operator hands to the worker through BullMQ: a usage    *)
(* export, a reconciliation run (manual or scheduled), a replay and a      *)
(* ClickHouse rebuild.  A behaviour follows one request.  Each has a row   *)
(* in PostgreSQL and a job in Redis; the API writes the row first and      *)
(* queues the job afterwards, and only exports have a scan that queues a   *)
(* row whose job is missing.                                               *)
(*                                                                         *)
(* The queue delivers at least once: a worker that dies, or that is too    *)
(* slow to renew its lock, has its job handed out again while (in the      *)
(* second case) it is still at work.  MaxStalled is BullMQ's               *)
(* maxStalledCount.                                                        *)
(***************************************************************************)
EXTENDS Integers, FiniteSets

CONSTANTS
    Workers,            \* worker processes
    None,
    MaxAttempts,        \* attempts of an export job
    MaxStalled,         \* how often a job may be found stalled
    MaxFaults           \* bound: failed calls, crashes and lost locks

VARIABLES
    kind,       \* what is requested
    alias,      \* all processes use one name for the temporary export file
    row,        \* status of the row, and whose diffs and summary it has
    job,        \* the BullMQ job: state, attempts made, times found stalled
    api,        \* the API process: inside a request, scanning
    slot,       \* per slot of a worker: where its execution is
    files,      \* temporary files, and the export itself
    doubled,    \* an execution lost its lock and went on
    faults

vars == <<kind, alias, row, job, api, slot, files, doubled, faults>>

Runs == {"run", "schedule"}
Operations == {"replay", "rebuild"}
Kinds == {"export"} \cup Runs \cup Operations

(* createOperationalWorker runs two exports at a time,                     *)
(* createReconciliationWorker one job.                                     *)
Slots == Workers \X {1, 2}
OpenSlots == IF kind = "export" THEN Slots ELSE Workers \X {1}

NoFile == [by |-> None, there |-> FALSE, whole |-> FALSE]
Idle == [pc |-> "idle", held |-> FALSE]

Init ==
    /\ kind \in Kinds
    /\ alias \in BOOLEAN
    /\ row = [status |-> "none", diffs |-> None, summary |-> None]
    /\ job = [state |-> "none", attempts |-> 0, stalls |-> 0]
    /\ api = [queueing |-> FALSE, scanned |-> FALSE]
    /\ slot = [s \in Slots |-> Idle]
    /\ files = [temp |-> [w \in Workers |-> NoFile], out |-> NoFile]
    /\ doubled = FALSE
    /\ faults = 0

Fault == faults < MaxFaults /\ faults' = faults + 1

-----------------------------------------------------------------------------
(* The API.                                                                *)

(* The row is upserted under an idempotency key that repeats with the      *)
(* request.                                                                *)
Stored == [row EXCEPT !.status = IF @ = "none" THEN "QUEUED" ELSE @]

Requests(stored, queueing) ==
    /\ ~api.queueing
    /\ row' = stored
    /\ api' = [api EXCEPT !.queueing = queueing]
    /\ UNCHANGED <<kind, alias, job, slot, files, doubled, faults>>

(* An export that is no longer QUEUED is only presented.                   *)
CreateExport == kind = "export" /\ Requests(Stored, Stored.status = "QUEUED")

CreateRun == kind = "run" /\ Requests(Stored, TRUE)

(* replayDiff and rebuildClickHouse write a new row every time.            *)
CreateOperationRun ==
    kind \in Operations /\ row.status = "none" /\ Requests(Stored, TRUE)

(* queue.add with a fixed job id adds nothing when the job is there.       *)
Added == [job EXCEPT !.state = IF @ = "none" THEN "waiting" ELSE @]

(* enqueue of either service; when it times out the job may have been      *)
(* added all the same, and the caller is told the request was stored.      *)
Enqueue ==
    /\ api.queueing
    /\ api' = [api EXCEPT !.queueing = FALSE]
    /\ \/ job' = Added /\ UNCHANGED faults
       \/ Fault /\ job' \in {job, Added}
    /\ UNCHANGED <<kind, alias, row, slot, files, doubled>>

(* Mutant of Scan: failed exports are looked for instead.                  *)
ScanIdle ==
    /\ kind = "export" /\ row.status = "FAILED" /\ ~api.scanned
    /\ api' = [api EXCEPT !.scanned = TRUE]
    /\ UNCHANGED <<kind, alias, row, job, slot, files, doubled, faults>>

(* BackgroundJobRecoveryService.scan, every five seconds: reads the QUEUED *)
(* exports, then enqueues each.                                            *)
Scan ==
    /\ kind = "export" /\ row.status = "QUEUED" /\ ~api.scanned
    /\ api' = [api EXCEPT !.scanned = TRUE]
    /\ UNCHANGED <<kind, alias, row, job, slot, files, doubled, faults>>

Recover ==
    /\ api.scanned
    /\ api' = [api EXCEPT !.scanned = FALSE]
    /\ \/ job' = Added /\ UNCHANGED faults
       \/ Fault /\ job' \in {job, Added}
    /\ UNCHANGED <<kind, alias, row, slot, files, doubled>>

(* The job scheduler of configureReconciliationSchedules.                  *)
Schedule ==
    /\ kind = "schedule" /\ job.state = "none"
    /\ job' = Added
    /\ UNCHANGED <<kind, alias, row, api, slot, files, doubled, faults>>

-----------------------------------------------------------------------------
(* The queue.                                                              *)

First ==
    CASE kind = "export" -> "ensure"
      [] kind = "schedule" -> "queue"
      [] OTHER -> "claim"

Take(s) ==
    /\ s \in OpenSlots /\ slot[s].pc = "idle" /\ job.state = "waiting"
    /\ job' = [job EXCEPT !.state = "active"]
    /\ slot' = [slot EXCEPT ![s] = [pc |-> First, held |-> TRUE]]
    /\ UNCHANGED <<kind, alias, row, api, files, doubled, faults>>

(* A job found stalled is queued again, or failed for good.                *)
Stalled ==
    [job EXCEPT !.stalls = @ + 1,
                !.state = IF job.stalls < MaxStalled THEN "waiting"
                          ELSE "failed"]

(* No live execution holds the lock of the active job.                     *)
StalledCheck ==
    /\ job.state = "active" /\ \A s \in Slots : ~slot[s].held
    /\ job' = Stalled
    /\ UNCHANGED <<kind, alias, row, api, slot, files, doubled, faults>>

(* A busy process or a lost connection lets the lock expire under a live   *)
(* execution.                                                              *)
LoseLock(s) ==
    /\ slot[s].held /\ Fault
    /\ slot' = [slot EXCEPT ![s].held = FALSE]
    /\ job' = Stalled
    /\ doubled' = TRUE
    /\ UNCHANGED <<kind, alias, row, api, files>>

(* How an execution's end reaches the queue: only through a lock it still  *)
(* holds.  The API adds reconciliation jobs with one attempt.              *)
Attempts == IF kind = "export" THEN MaxAttempts ELSE 1

Ended(s, ok) ==
    IF ~slot[s].held THEN job
    ELSE IF ok THEN [job EXCEPT !.state = "completed"]
    ELSE [job EXCEPT !.attempts = @ + 1,
                     !.state = IF job.attempts + 1 < Attempts THEN "waiting"
                               ELSE "failed"]

Ends(s, ok) ==
    /\ job' = Ended(s, ok)
    /\ slot' = [slot EXCEPT ![s] = Idle]

Goes(s, pc) ==
    /\ slot' = [slot EXCEPT ![s].pc = pc]
    /\ UNCHANGED job

(* The processor has returned or thrown, and BullMQ moves the job: a step  *)
(* of its own, after the one that wrote the row.                           *)
Acknowledge(s) ==
    /\ slot[s].pc \in {"returned", "thrown"}
    /\ Ends(s, slot[s].pc = "returned")
    /\ UNCHANGED <<kind, alias, row, api, files, doubled, faults>>

(* A process that dies forgets its executions; the files stay.             *)
Disowned(f, w) == [f EXCEPT !.by = IF @ \in {w} \X {1, 2} THEN None ELSE @]

Dies(w) ==
    /\ slot' = [s \in Slots |-> IF s[1] = w THEN Idle ELSE slot[s]]
    /\ files' = [temp |-> [v \in Workers |-> Disowned(files.temp[v], w)],
                 out |-> Disowned(files.out, w)]
    /\ UNCHANGED job

Crash(w) ==
    /\ \E s \in Slots : s[1] = w /\ slot[s].pc # "idle"
    /\ Fault /\ Dies(w)
    /\ UNCHANGED <<kind, alias, row, api, doubled>>

-----------------------------------------------------------------------------
(* OperationalProcessor.process and generateUsageExport.                   *)

At(s, pc) == slot[s].pc = pc

(* Mutant of EnsureJob: a completed export is produced again.              *)
EnsureJobAlways(s) ==
    /\ At(s, "ensure") /\ Goes(s, "start")
    /\ UNCHANGED <<kind, alias, row, api, files, doubled, faults>>

(* process reads the row; a completed one answers the job.                 *)
EnsureJob(s) ==
    /\ At(s, "ensure")
    /\ IF row.status = "COMPLETED" THEN Ends(s, TRUE) ELSE Goes(s, "start")
    /\ UNCHANGED <<kind, alias, row, api, files, doubled, faults>>

StartExport(s) ==
    /\ At(s, "start")
    /\ row' = [row EXCEPT !.status = "RUNNING"]
    /\ Goes(s, "open")
    /\ UNCHANGED <<kind, alias, api, files, doubled, faults>>

TempOf(s) == IF alias THEN CHOOSE w \in Workers : TRUE ELSE s[1]

Created(s) ==
    [files EXCEPT !.temp[TempOf(s)] =
        [by |-> s, there |-> TRUE, whole |-> FALSE]]

(* createWriteStream with flags "wx".  The first write is only buffered,   *)
(* so the refusal of an existing file comes as an error event while the    *)
(* first page is queried; no listener is attached and the process dies.    *)
(* The count query before it may fail.                                     *)
OpenExport(s) ==
    /\ At(s, "open")
    /\ \/ /\ IF files.temp[TempOf(s)].there THEN Dies(s[1])
             ELSE files' = Created(s) /\ Goes(s, "write")
          /\ UNCHANGED faults
       \/ Fault /\ Goes(s, "error") /\ UNCHANGED files
    /\ UNCHANGED <<kind, alias, row, api, doubled>>

(* The pages and the row count check: the execution's own file is whole,   *)
(* under whatever name it has, or the catch removes the temporary name.    *)
Finished(f, s) == IF f.by = s THEN [f EXCEPT !.whole = TRUE] ELSE f

WriteExport(s) ==
    /\ At(s, "write")
    /\ \/ /\ files' = [temp |-> [w \in Workers |-> Finished(files.temp[w], s)],
                       out |-> Finished(files.out, s)]
          /\ Goes(s, "rename") /\ UNCHANGED faults
       \/ /\ Fault /\ Goes(s, "error")
          /\ files' = [files EXCEPT !.temp[TempOf(s)] = NoFile]
    /\ UNCHANGED <<kind, alias, row, api, doubled>>

RenameExport(s) ==
    /\ At(s, "rename")
    /\ LET temp == files.temp[TempOf(s)] IN
       /\ files' = [temp |-> [files.temp EXCEPT ![TempOf(s)] = NoFile],
                    out |-> IF temp.there
                            THEN IF temp.by = s THEN [temp EXCEPT !.by = None]
                                 ELSE temp
                            ELSE files.out]
       /\ Goes(s, IF temp.there THEN "complete" ELSE "error")
    /\ UNCHANGED <<kind, alias, row, api, doubled, faults>>

CompleteExport(s) ==
    /\ kind = "export" /\ At(s, "complete")
    /\ \/ /\ row' = [row EXCEPT !.status = "COMPLETED"]
          /\ Goes(s, "returned") /\ UNCHANGED faults
       \/ Fault /\ Goes(s, "error") /\ UNCHANGED row
    /\ UNCHANGED <<kind, alias, api, files, doubled>>

(* The catch of process; its own update may fail too.                      *)
FailExport(s) ==
    /\ kind = "export" /\ At(s, "error")
    /\ \/ row' = [row EXCEPT !.status = "FAILED"] /\ UNCHANGED faults
       \/ Fault /\ UNCHANGED row
    /\ Goes(s, "thrown")
    /\ UNCHANGED <<kind, alias, api, files, doubled>>

Export(s) ==
    \/ EnsureJob(s) \/ StartExport(s) \/ OpenExport(s) \/ WriteExport(s)
    \/ RenameExport(s) \/ CompleteExport(s) \/ FailExport(s)

-----------------------------------------------------------------------------
(* ReconciliationRunner.execute and                                        *)
(* PrismaReconciliationOperationExecutor.executeReplay / executeRebuild.   *)

(* The schedule job upserts the row of its range.                          *)
QueueScheduled(s) ==
    /\ At(s, "queue")
    /\ row' = Stored
    /\ Goes(s, "claim")
    /\ UNCHANGED <<kind, alias, api, files, doubled, faults>>

Claims(s, statuses) ==
    /\ At(s, "claim")
    /\ IF row.status \in statuses
       THEN /\ row' = [row EXCEPT !.status = "RUNNING"]
            /\ Goes(s, "work")
       ELSE Ends(s, TRUE) /\ UNCHANGED row
    /\ UNCHANGED <<kind, alias, api, files, doubled, faults>>

ClaimRun(s) == kind \in Runs /\ Claims(s, {"QUEUED"})

(* Mutant of ClaimOperation: a redelivered job resumes a running row.      *)
ClaimOperationRunning(s) == kind \in Operations /\ Claims(s, {"QUEUED", "RUNNING", "FAILED"})

ClaimOperation(s) == kind \in Operations /\ Claims(s, {"QUEUED", "FAILED"})

Works(s, next) ==
    /\ At(s, "work")
    /\ \/ Goes(s, next) /\ UNCHANGED faults
       \/ Fault /\ Goes(s, "error")
    /\ UNCHANGED <<kind, alias, row, api, files, doubled>>

(* execute of a run: the snapshots of both stores and their comparison.    *)
Compare(s) == kind \in Runs /\ Works(s, "diffs")

ApplyReplay(s) == kind = "replay" /\ Works(s, "complete")

(* The script is killed when it takes too long.                            *)
RunRebuildScript(s) == kind = "rebuild" /\ Works(s, "complete")

ReplaceDiffs(s) ==
    /\ At(s, "diffs")
    /\ \/ /\ row' = IF row.status = "RUNNING"
                    THEN [row EXCEPT !.diffs = s] ELSE row
          /\ Goes(s, IF row.status = "RUNNING" THEN "complete" ELSE "error")
          /\ UNCHANGED faults
       \/ Fault /\ Goes(s, "error") /\ UNCHANGED row
    /\ UNCHANGED <<kind, alias, api, files, doubled>>

Completes(s, may) ==
    /\ At(s, "complete")
    /\ \/ /\ IF may
             THEN /\ row' = [row EXCEPT !.status = "COMPLETED", !.summary = s]
                  /\ Goes(s, "returned")
             ELSE Goes(s, "error") /\ UNCHANGED row
          /\ UNCHANGED faults
       \/ Fault /\ Goes(s, "error") /\ UNCHANGED row
    /\ UNCHANGED <<kind, alias, api, files, doubled>>

CompleteRun(s) == kind \in Runs /\ Completes(s, row.status = "RUNNING")

(* complete of an operation does not look at the status.                   *)
CompleteOperation(s) == kind \in Operations /\ Completes(s, TRUE)

(* fail leaves a row that is not RUNNING alone; it may itself fail.        *)
Failing(s) ==
    /\ At(s, "error")
    /\ \/ /\ row' = [row EXCEPT !.status = IF @ = "RUNNING" THEN "FAILED" ELSE @]
          /\ UNCHANGED faults
       \/ Fault /\ UNCHANGED row
    /\ Goes(s, "thrown")
    /\ UNCHANGED <<kind, alias, api, files, doubled>>

FailRun(s) == kind \in Runs /\ Failing(s)
FailOperation(s) == kind \in Operations /\ Failing(s)

Reconcile(s) ==
    \/ QueueScheduled(s)
    \/ ClaimRun(s) \/ Compare(s) \/ ReplaceDiffs(s) \/ CompleteRun(s) \/ FailRun(s)
    \/ ClaimOperation(s) \/ ApplyReplay(s) \/ RunRebuildScript(s)
    \/ CompleteOperation(s) \/ FailOperation(s)

Execute(s) == Export(s) \/ Reconcile(s) \/ Acknowledge(s)

-----------------------------------------------------------------------------
Next ==
    \/ CreateExport \/ CreateRun \/ CreateOperationRun
    \/ Enqueue \/ Scan \/ Recover \/ Schedule \/ StalledCheck
    \/ \E s \in Slots : Take(s) \/ LoseLock(s) \/ Execute(s)
    \/ \E w \in Workers : Crash(w)

(* The scan and the queue run on timers, and an execution that is not cut  *)
(* off goes on; nobody has to ask again, and faults are never owed.        *)
Fairness ==
    /\ WF_vars(Enqueue) /\ WF_vars(Scan) /\ WF_vars(Recover)
    /\ WF_vars(StalledCheck)
    /\ WF_vars(\E s \in Slots : Take(s))
    /\ \A s \in Slots : WF_vars(Execute(s))

Spec == Init /\ [][Next]_vars
FairSpec == Spec /\ Fairness

-----------------------------------------------------------------------------
(* Properties.                                                             *)

Statuses == {"none", "QUEUED", "RUNNING", "COMPLETED", "FAILED"}
Files == [by : Slots \cup {None}, there : BOOLEAN, whole : BOOLEAN]

(* Types of the row, the job and the executions; a job is never found      *)
(* stalled more often than the queue allows, plus the time that ends it.   *)
TypeOK ==
    /\ kind \in Kinds /\ alias \in BOOLEAN /\ doubled \in BOOLEAN
    /\ row \in [status : Statuses, diffs : Slots \cup {None},
                summary : Slots \cup {None}]
    /\ job \in [state : {"none", "waiting", "active", "completed", "failed"},
                attempts : 0..MaxAttempts, stalls : 0..MaxStalled + 1]
    /\ api \in [queueing : BOOLEAN, scanned : BOOLEAN]
    /\ \A s \in Slots : slot[s].held => slot[s].pc # "idle"
    /\ files \in [temp : [Workers -> Files], out : Files]
    /\ faults \in 0..MaxFaults

(* An export whose row says COMPLETED is downloadable in full, whatever    *)
(* crashed, ran twice or was left behind by an earlier attempt: the        *)
(* exclusive open keeps two executions out of one temporary file, and the  *)
(* rename publishes only a finished one (generateUsageExport).             *)
CompletedExportIsWhole ==
    kind = "export" /\ row.status = "COMPLETED" =>
        files.out.there /\ files.out.whole

Working(s) == slot[s].pc \in {"work", "diffs", "complete", "error"}

(* A run, a replay or a rebuild is never executed twice at a time, even    *)
(* when the queue delivers its job to a second worker while the first is   *)
(* still at it: the claims in the two repositories exclude each other.     *)
OneExecution ==
    kind # "export" => Cardinality({s \in Slots : Working(s)}) <= 1

(* The differences listed under a completed run are the ones its summary   *)
(* counts: both were written by one execution (replaceDiffs, complete).    *)
SummaryCountsDiffs ==
    kind \in Runs /\ row.status = "COMPLETED" =>
        row.summary # None /\ row.diffs = row.summary

(* What the rows show at every instant, under crashes, stalls and second   *)
(* deliveries: whole exports, one execution, a summary of its own diffs.   *)
JobsInvariant ==
    TypeOK /\ CompletedExportIsWhole /\ OneExecution /\ SummaryCountsDiffs

(* A request that has completed stays so: a redelivered job does not start *)
(* it again.  Of exports this is only true while no execution has lost its *)
(* lock, since process reads the status and sets RUNNING in two steps.     *)
CompletedIsKept ==
    [][ row.status = "COMPLETED" /\ (kind = "export" => ~doubled)
            => row'.status = "COMPLETED" ]_vars

(* In the end a stored export is produced or reported as failed, although  *)
(* the call that should have queued it failed or its worker crashed: the   *)
(* recovery scan and the redelivery see to it.  The exceptions are a job   *)
(* that the queue itself gave up, and an execution that went on without    *)
(* its lock and set a finished export back to RUNNING.                     *)
ExportsSettle ==
    <>[](kind = "export" /\ row.status # "none" =>
             row.status \in {"COMPLETED", "FAILED"} \/ job.state = "failed" \/ doubled)
=============================================================================
