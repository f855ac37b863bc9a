---------------------------- MODULE WorkerRuntime ----------------------------
(***************************************************************************)
(* The life of one worker process: it checks ClickHouse, opens its         *)
(* clients, creates the job workers, which take jobs at once, starts the   *)
(* pollers its feature flags ask for, and serves metrics and readiness.    *)
(* A signal closes all of that in order, each part waiting for what it     *)
(* still runs; a second signal, or a failure while it starts, ends the     *)
(* process where it is.                                                    *)
(*                                                                         *)
(* What the pollers and jobs do is in the modules of their own; here each  *)
(* is a unit that takes up work and finishes it.                           *)
(***************************************************************************)
EXTENDS Integers, Sequences, FiniteSets

VARIABLES
    flags,      \* the feature flags read at the start
    at,         \* where the process is
    stage,      \* the stage of the shutdown
    accepting,  \* units that take up work: a poller with a timer, a worker, the server
    active,     \* units that are working: an iteration, a job, a probe
    clients     \* open clients

vars == <<flags, at, stage, accepting, active, clients>>

Flags == {"quota", "usage_pipeline", "reconciliation"}

Operational == {"exports", "maintenance"}

CurrentMaintenance(f) == {"cleanup"} \cup (IF "quota" \in f THEN {"sweep"} ELSE {})

(* The pollers of a set of flags.                                          *)
Pollers(f) ==
    {"groups", "outbox", "metric_state"} \cup CurrentMaintenance(f)
    \cup (IF "usage_pipeline" \in f THEN {"pipeline"} ELSE {})

Reconcilers(f) == IF "reconciliation" \in f THEN {"reconciliation"} ELSE {}

Units(f) == {"server"} \cup Operational \cup Pollers(f) \cup Reconcilers(f)

(* The clients a unit's work uses; a job worker needs Redis for the job.   *)
Needs(unit) ==
    CASE unit \in {"cleanup", "sweep", "pipeline"} -> {"postgres"}
      [] unit = "metric_state" -> {"postgres", "clickhouse"}
      [] OTHER -> {"postgres", "clickhouse", "redis"}

Init ==
    /\ flags \in SUBSET Flags
    /\ at = "boot" /\ stage = 0
    /\ accepting = {} /\ active = {} /\ clients = {}

(* The process ends at once, with whatever was running.                    *)
Dies ==
    /\ at' = "dead" /\ accepting' = {} /\ active' = {} /\ clients' = {}
    /\ UNCHANGED <<flags, stage>>

-----------------------------------------------------------------------------
(* Starting.                                                               *)

(* ClickHouse answers and the flags are valid, then Redis and the workers, *)
(* the reconciliation worker among them.                                   *)
Create ==
    /\ at = "boot"
    /\ at' = "created"
    /\ clients' = {"postgres", "clickhouse", "redis"}
    /\ accepting' = Operational \cup Reconcilers(flags)
    /\ UNCHANGED <<flags, stage, active>>

(* DataPlaneRuntime.start: ClickHouse is asked again, the schedules are    *)
(* written, and every poller is due at once.                               *)
Start ==
    /\ at = "created"
    /\ at' = "started"
    /\ accepting' = accepting \cup Pollers(flags)
    /\ UNCHANGED <<flags, stage, active, clients>>

(* The metrics server listens; only then are signals handled.              *)
Listen ==
    /\ at = "started"
    /\ at' = "serving"
    /\ accepting' = accepting \cup {"server"}
    /\ UNCHANGED <<flags, stage, active, clients>>

(* An unavailable ClickHouse, invalid flags, a missing secret, a lost      *)
(* connection or a port in use is an error nobody catches.                 *)
StartFails == at \in {"boot", "created", "started"} /\ Dies

-----------------------------------------------------------------------------
(* Working.                                                                *)

(* A timer fires, a job is taken, a probe comes in.  A unit is working as  *)
(* long as any of its jobs or probes is.                                   *)
Take(unit) ==
    /\ unit \in accepting \ active
    /\ active' = active \cup {unit}
    /\ UNCHANGED <<flags, at, stage, accepting, clients>>

(* An iteration ends, with or without an error, and sets the next timer    *)
(* unless the poller was stopped; the last job or probe is answered.       *)
Finish(unit) ==
    /\ unit \in active
    /\ active' = active \ {unit}
    /\ UNCHANGED <<flags, at, stage, accepting, clients>>

-----------------------------------------------------------------------------
(* Stopping.                                                               *)

(* What each stage closes, in the order of shutdown and                    *)
(* DataPlaneRuntime.close.                                                 *)
Closes(n) ==
    CASE n = 1 -> {"server"}
      [] n = 2 -> Operational
      [] n = 3 -> Pollers(flags)
      [] n = 4 -> Reconcilers(flags)
      [] OTHER -> {}

Disconnects(n) ==
    CASE n = 5 -> {"clickhouse"} [] n = 6 -> {"redis"} [] n = 7 -> {"postgres"} [] OTHER -> {}

LastStage == 7

Enter(n) ==
    /\ stage' = n
    /\ accepting' = accepting \ Closes(n)
    /\ clients' = clients \ Disconnects(n)
    /\ UNCHANGED <<flags, active>>

(* The first signal the process handles.                                   *)
Shutdown == at = "serving" /\ at' = "stopping" /\ Enter(1)

(* Mutant of Advance: a stage does not wait for the work it closes.        *)
AdvanceEarly ==
    /\ at = "stopping" /\ stage < LastStage
    /\ Enter(stage + 1) /\ UNCHANGED at

(* close() of a server, a worker or a poller resolves when its work is     *)
(* done, and the next stage begins.                                        *)
Advance ==
    /\ at = "stopping" /\ stage < LastStage
    /\ active \cap Closes(stage) = {}
    /\ Enter(stage + 1) /\ UNCHANGED at

(* With the last client closed nothing keeps the process.                  *)
Exit ==
    /\ at = "stopping" /\ stage = LastStage
    /\ at' = "exited"
    /\ UNCHANGED <<flags, stage, accepting, active, clients>>

(* A signal before the handlers are there; or a second one: the same       *)
(* signal is no longer handled, the other closes a server that is closed.  *)
Killed == at \notin {"serving", "exited", "dead"} /\ Dies

-----------------------------------------------------------------------------
Next ==
    \/ Create \/ Start \/ Listen \/ StartFails
    \/ \E unit \in Units(flags) : Take(unit) \/ Finish(unit)
    \/ Shutdown \/ Advance \/ Exit \/ Killed

(* The process goes on starting and stopping, and work that was taken up   *)
(* ends: queries and requests have timeouts.                               *)
Progress == Create \/ Start \/ Listen \/ StartFails \/ Advance \/ Exit

Spec ==
    /\ Init /\ [][Next]_vars
    /\ WF_vars(Progress)
    /\ \A unit \in Units(Flags) : WF_vars(Finish(unit))

-----------------------------------------------------------------------------
(* Whatever still works has its clients: no iteration, job or probe is     *)
(* running, and none can begin, once a client it uses was closed; and a    *)
(* process that came to its end left nothing behind (main.ts, shutdown).   *)
RuntimeInvariant ==
    /\ \A unit \in accepting \cup active : Needs(unit) \subseteq clients
    /\ accepting \cup active \subseteq Units(flags)
    /\ at = "exited" => accepting = {} /\ active = {} /\ clients = {}

(* A process that starts serves or fails, and one that was told to stop    *)
(* ends, however much work it has taken up.                                *)
ProcessEnds ==
    /\ (at = "boot") ~> (at \in {"serving", "stopping", "exited", "dead"})
    /\ (at = "stopping") ~> (at \in {"exited", "dead"})
=============================================================================
