---------------------------- MODULE MCOperations ----------------------------
(***************************************************************************)
(* The worker's outbox poller and what an operator asks of the worker,     *)
(* side by side.  A behaviour is one of                                    *)
(*   "rebuild": FreshRebuild;                                              *)
(*   "jobs":    OperatorJobs;                                              *)
(*   "poller":  ClickHouseOutbox with one poller;                          *)
(*   "schema":  ClickHouseMigration;                                       *)
(*   "process": WorkerRuntime, a worker that starts, works and stops;      *)
(* and leaves the other parts in an initial state.                         *)
(***************************************************************************)
EXTENDS FreshRebuild

CONSTANTS e1, w1, w2, p1, p2, MaxAttempts, MaxStalled, MaxJobFaults

VARIABLES part,
          kind, alias, row, job, api, slot, files, doubled, jobFaults,
          rows, stored, marks, sync, worker, failures, replays,
          objects, table, history, lock, process, starts, schemaFaults, recreated,
          flags, at, stage, accepting, active, clients

Jobs == INSTANCE OperatorJobs WITH
    Workers <- {w1, w2}, MaxFaults <- MaxJobFaults, faults <- jobFaults

Poller == INSTANCE ClickHouseOutbox WITH
    Ids <- 1..3, Events <- {e1}, Workers <- {w1}, Poison <- {}, BatchSize <- 2,
    MaxFailures <- 3, MaxReplays <- 2, outbox <- rows, clickhouse <- stored, registry <- marks

Schema == INSTANCE ClickHouseMigration WITH
    Processes <- {p1, p2}, Releases <- <<2, 3>>, MaxStarts <- 3, MaxFaults <- 1, MaxRecreated <- 1,
    faults <- schemaFaults

Runtime == INSTANCE WorkerRuntime

ASSUME Schema!MigrationAssumption

jobVars == <<kind, alias, row, job, api, slot, files, doubled, jobFaults>>
pollerVars == <<rows, stored, marks, sync, worker, failures, replays>>
schemaVars == <<objects, table, history, lock, process, starts, schemaFaults, recreated>>
runtimeVars == <<flags, at, stage, accepting, active, clients>>

OperationInit ==
    /\ part \in {"rebuild", "jobs", "poller", "schema", "process"}
    /\ Init /\ Jobs!Init /\ Poller!Init /\ Schema!Init /\ Runtime!Init
    /\ part # "rebuild" => \A k \in Keys : outbox[k] # "pending"
    /\ part # "jobs" => kind = "export" /\ ~alias
    /\ part # "process" => flags = {}

OperationNext ==
    /\ UNCHANGED part
    /\ \/ part = "rebuild" /\ Next /\ UNCHANGED <<jobVars, pollerVars, schemaVars, runtimeVars>>
       \/ part = "jobs" /\ Jobs!Next /\ UNCHANGED <<vars, pollerVars, schemaVars, runtimeVars>>
       \/ part = "poller" /\ Poller!Next /\ UNCHANGED <<vars, jobVars, schemaVars, runtimeVars>>
       \/ part = "schema" /\ Schema!Next /\ UNCHANGED <<vars, jobVars, pollerVars, runtimeVars>>
       \/ part = "process" /\ Runtime!Next /\ UNCHANGED <<vars, jobVars, pollerVars, schemaVars>>

(* The fairness of the modules, each in its own part.                      *)
OperationFairness ==
    /\ \A t \in Rebuilds : WF_vars(part = "rebuild" /\ RebuildStep(t))
    /\ WF_vars(part = "rebuild" /\ PauseExpires)
    /\ WF_vars(part = "rebuild" /\ LockExpires)
    /\ WF_jobVars(part = "jobs" /\ Jobs!Enqueue)
    /\ WF_jobVars(part = "jobs" /\ Jobs!Scan)
    /\ WF_jobVars(part = "jobs" /\ Jobs!Recover)
    /\ WF_jobVars(part = "jobs" /\ Jobs!StalledCheck)
    /\ WF_jobVars(part = "jobs" /\ \E s \in Jobs!Slots : Jobs!Take(s))
    /\ \A s \in {w1, w2} \X {1, 2} : WF_jobVars(part = "jobs" /\ Jobs!Execute(s))
    /\ WF_pollerVars(part = "poller" /\ Poller!WorkerStep(w1))
    /\ \A i \in 1..3 : /\ WF_pollerVars(part = "poller" /\ Poller!BecomeDue(i))
                       /\ WF_pollerVars(part = "poller" /\ Poller!LeaseExpires(i))
    /\ WF_runtimeVars(part = "process" /\ Runtime!Progress)
    /\ \A unit \in Runtime!Units(Runtime!Flags) :
           WF_runtimeVars(part = "process" /\ Runtime!Finish(unit))

OperationSpec ==
    /\ OperationInit
    /\ [][OperationNext]_<<part, vars, jobVars, pollerVars, schemaVars, runtimeVars>>
    /\ OperationFairness

(* The properties of the other modules, stated there.                      *)
JobsInvariant == (part = "jobs" => Jobs!JobsInvariant) /\ Runtime!RuntimeInvariant
CompletedIsKept == Jobs!CompletedIsKept
StoredOnce == Poller!StoredOnce
MigrationInvariant == Schema!MigrationInvariant

(* What was asked for comes to an end: delivery resumes after a rebuild,   *)
(* exports are stored or given up, the backlog of the outbox drains, and a *)
(* worker told to stop finishes its work and ends.                         *)
WorkSettles ==
    /\ DeliveryResumes /\ Jobs!ExportsSettle /\ Poller!RowsSettle
    /\ part = "process" => Runtime!ProcessEnds
=============================================================================
