------------------------- MODULE ClickHouseMigration -------------------------
(***************************************************************************)
(* Installing the ClickHouse baseline.  The installer runs "up" under a    *)
(* lock that is a table of the database itself, and installs only into an  *)
(* empty database; the worker's readiness gate and "verify" read the same  *)
(* status, in two queries and without the lock.  Requests fail before or   *)
(* after they took effect, processes die, and an operator drops a lock     *)
(* left behind or recreates the database.                                  *)
(***************************************************************************)
EXTENDS Integers, Sequences

CONSTANTS
    Processes,
    Releases,    \* release -> how many statements its baseline has
    MaxStarts,   \* processes started in one behaviour
    MaxFaults,   \* failed requests and crashes
    MaxRecreated \* times the operator recreates the database

Versions == 1..5

(* Every baseline has a first statement, and there is one.                 *)
MigrationAssumption ==
    /\ DOMAIN Releases # {}
    /\ \A r \in DOMAIN Releases : Releases[r] \in Versions

VARIABLES
    objects,   \* the baseline objects that exist
    table,     \* whether the table of migrations exists
    history,   \* version -> the checksums recorded in it
    lock,      \* whether the lock table exists
    process,   \* what each process is doing
    starts, faults,
    recreated

vars == <<objects, table, history, lock, process, starts, faults, recreated>>

NoRecords == [v \in Versions |-> <<>>]
Idle == [at |-> "idle"]

Init ==
    /\ objects = {} /\ table = FALSE /\ history = NoRecords /\ lock = FALSE
    /\ process = [p \in Processes |-> Idle]
    /\ starts = 0 /\ faults = 0 /\ recreated = 0

Baseline(release) == 1..Releases[release]

(* Of the statements two releases share, the first has changed.            *)
Checksum(release, version) == IF version = 1 THEN release ELSE 0

At(p, step) == process[p].at = step
Goto(p, step) == process' = [process EXCEPT ![p].at = step]

(* The report: objects and table as first seen, records as read since.     *)
Installed(p) ==
    LET r == process[p].release
        seen == process[p].seen
    IN  /\ seen.table /\ table
        /\ \A v \in Versions : history[v] = IF v \in Baseline(r) THEN <<Checksum(r, v)>> ELSE <<>>
        /\ seen.objects = Baseline(r)

Empty(p) == ~process[p].seen.table /\ process[p].seen.objects = {}

-----------------------------------------------------------------------------
Start(p, command, release) ==
    /\ process[p].at \in {"idle", "end"} /\ starts < MaxStarts
    /\ process' = [process EXCEPT ![p] =
          [at |-> IF command = "up" THEN "lock" ELSE "objects", command |-> command, release |-> release,
           next |-> 0, seen |-> [table |-> FALSE, objects |-> {}], result |-> "none", under |-> recreated]]
    /\ starts' = starts + 1
    /\ UNCHANGED <<objects, table, history, lock, faults, recreated>>

End(p, result) ==
    process' = [process EXCEPT ![p].at = "end", ![p].result = result, ![p].under = recreated]

(* Mutant of AcquireMigrationLock: CREATE TABLE IF NOT EXISTS.             *)
AcquireMigrationLockAnyway(p) ==
    /\ At(p, "lock")
    /\ lock' = TRUE /\ Goto(p, "objects")
    /\ UNCHANGED <<objects, table, history, starts, faults, recreated>>

AcquireMigrationLock(p) ==
    /\ At(p, "lock")
    /\ IF lock THEN End(p, "refused") /\ UNCHANGED lock ELSE lock' = TRUE /\ Goto(p, "objects")
    /\ UNCHANGED <<objects, table, history, starts, faults, recreated>>

(* The lock table is created and the answer is lost.                       *)
AcquireLost(p) ==
    /\ At(p, "lock") /\ ~lock /\ faults < MaxFaults
    /\ lock' = TRUE /\ faults' = faults + 1 /\ End(p, "failed")
    /\ UNCHANGED <<objects, table, history, starts, recreated>>

ReadSchemaObjects(p) ==
    /\ At(p, "objects")
    /\ process' = [process EXCEPT ![p].at = "status",
                                  ![p].seen = [table |-> table, objects |-> objects]]
    /\ UNCHANGED <<objects, table, history, lock, starts, faults, recreated>>

(* readAppliedMigrations, and what applyClickHouseMigrations or            *)
(* verifyClickHouseMigrations does with the report.                        *)
Status(p) ==
    /\ At(p, "status")
    /\ IF process[p].command = "verify" THEN End(p, IF Installed(p) THEN "installed" ELSE "failed")
       ELSE process' = [process EXCEPT
                ![p].at = IF process[p].next = 0 /\ ~Installed(p) /\ Empty(p) THEN "ensure" ELSE "release",
                ![p].result = IF Installed(p) THEN "installed" ELSE "failed"]
    /\ UNCHANGED <<objects, table, history, lock, starts, faults, recreated>>

EnsureMigrationsTable(p) ==
    /\ At(p, "ensure")
    /\ table' = TRUE
    /\ process' = IF ~table THEN [process EXCEPT ![p].at = "apply", ![p].next = 1]
                  ELSE [process EXCEPT ![p].at = "release"]
    /\ UNCHANGED <<objects, history, lock, starts, faults, recreated>>

(* One statement of the baseline.                                          *)
Apply(p) ==
    LET v == process[p].next IN
    /\ At(p, "apply")
    /\ objects' = objects \cup {v}
    /\ Goto(p, IF v \in objects THEN "release" ELSE "record")
    /\ UNCHANGED <<table, history, lock, starts, faults, recreated>>

Recorded(p) ==
    [history EXCEPT ![process[p].next] = Append(@, Checksum(process[p].release, process[p].next))]

Record(p) ==
    /\ At(p, "record")
    /\ history' = Recorded(p)
    /\ process' = [process EXCEPT
          ![p].at = IF process[p].next = Releases[process[p].release] THEN "objects" ELSE "apply",
          ![p].next = @ + 1]
    /\ UNCHANGED <<objects, table, lock, starts, faults, recreated>>

(* A request fails, with or without its effect; the installer releases the *)
(* lock and gives up.                                                      *)
RequestFails(p) ==
    /\ process[p].at \in {"objects", "status", "ensure", "apply", "record"} /\ faults < MaxFaults
    /\ \/ UNCHANGED <<objects, table, history>>
       \/ At(p, "ensure") /\ table' = TRUE /\ UNCHANGED <<objects, history>>
       \/ At(p, "apply") /\ objects' = objects \cup {process[p].next} /\ UNCHANGED <<table, history>>
       \/ At(p, "record") /\ history' = Recorded(p) /\ UNCHANGED <<objects, table>>
    /\ faults' = faults + 1
    /\ IF process[p].command = "verify" THEN End(p, "failed")
       ELSE process' = [process EXCEPT ![p].at = "release", ![p].result = "failed"]
    /\ UNCHANGED <<lock, starts, recreated>>

ReleaseMigrationLock(p) ==
    /\ At(p, "release")
    /\ lock' = FALSE /\ End(p, process[p].result)
    /\ UNCHANGED <<objects, table, history, starts, faults, recreated>>

ReleaseFails(p) ==
    /\ At(p, "release") /\ faults < MaxFaults
    /\ faults' = faults + 1 /\ End(p, "failed")
    /\ UNCHANGED <<objects, table, history, lock, starts, recreated>>

Crash(p) ==
    /\ process[p].at \notin {"idle", "end"} /\ faults < MaxFaults
    /\ faults' = faults + 1 /\ End(p, "failed")
    /\ UNCHANGED <<objects, table, history, lock, starts, recreated>>

Installing(p) == process[p].at \notin {"idle", "end", "lock"} /\ process[p].command = "up"

(* After the crashed runner is stopped, as the error message asks for.     *)
OperatorDropsLock ==
    /\ lock /\ \A p \in Processes : ~Installing(p)
    /\ lock' = FALSE
    /\ UNCHANGED <<objects, table, history, process, starts, faults, recreated>>

OperatorRecreates ==
    /\ recreated < MaxRecreated /\ \A p \in Processes : ~Installing(p)
    /\ objects' = {} /\ table' = FALSE /\ history' = NoRecords /\ lock' = FALSE /\ recreated' = recreated + 1
    /\ UNCHANGED <<process, starts, faults>>

Next ==
    \/ OperatorDropsLock \/ OperatorRecreates
    \/ \E p \in Processes :
        \/ \E command \in {"up", "verify"}, release \in DOMAIN Releases : Start(p, command, release)
        \/ AcquireMigrationLock(p) \/ AcquireLost(p) \/ ReadSchemaObjects(p) \/ Status(p)
        \/ EnsureMigrationsTable(p) \/ Apply(p) \/ Record(p)
        \/ RequestFails(p) \/ ReleaseMigrationLock(p) \/ ReleaseFails(p) \/ Crash(p)

Spec == Init /\ [][Next]_vars

-----------------------------------------------------------------------------
Complete(release) ==
    /\ objects = Baseline(release) /\ table
    /\ \A v \in Versions : history[v] = IF v \in Baseline(release) THEN <<Checksum(release, v)>> ELSE <<>>

(* One installer at a time works on the database, and it holds the lock,   *)
(* which outlives it only by a fault.  A process that found its baseline   *)
(* installed, with or without the lock, is right until the database is     *)
(* recreated.  What is recorded exists, and is recorded once, so that a    *)
(* baseline of which a part is missing is never taken for a whole one.     *)
MigrationInvariant ==
    /\ \A p, q \in Processes : Installing(p) /\ Installing(q) => p = q
    /\ (\E p \in Processes : Installing(p)) => lock
    /\ lock => faults > 0 \/ \E p \in Processes : Installing(p)
    /\ \A p \in Processes :
          At(p, "end") /\ process[p].result = "installed" /\ process[p].under = recreated
            => Complete(process[p].release)
    /\ \A v \in Versions : /\ Len(history[v]) <= 1
                            /\ history[v] # <<>> => table /\ v \in objects
=============================================================================
