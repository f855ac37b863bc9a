----------------------------- MODULE Reconciler -----------------------------
(***************************************************************************)
(* One reconciliation run: the queries it sends to PostgreSQL and          *)
(* ClickHouse while events are still registered, rated and delivered, the  *)
(* comparison of the two snapshots, the differences it stores and the      *)
(* operation each one is offered.  The job that executes a run, its queue  *)
(* and retries are in OperatorJobs; delivery itself is in ClickHouseOutbox.*)
(***************************************************************************)
EXTENDS Integers, FiniteSets, FiniteSetsExt

CONSTANTS
    Events,
    UsageOf,        \* what each event carries
    Plans,          \* runs that may be asked for
    Hour, Day,      \* in ticks
    MaxRange,       \* ticks that one run may cover
    CostTolerance, AiuTolerance, StallAfter,
    MaxTime,        \* the last tick
    MaxFaults,      \* messages given up, rows stored twice, queries that fail
    MaxChanges,     \* changes of the stores while the run is under way
    None

VARIABLES
    registered,     \* events of usage_event_registry
    rated,          \* events with a row in application_usage_ratings
    outbox,         \* status of each message
    stored,         \* rows in ClickHouse for each message
    lastSuccess,    \* clickhouse_sync_state
    run,            \* the run and what it has read
    diffs,          \* rows of reconciliation_diffs
    clock, faults,
    since           \* what has changed in the stores since the claim

vars == <<registered, rated, outbox, stored, lastSuccess, run, diffs, clock, faults, since>>
stores == <<registered, rated, outbox, stored, lastSuccess>>

Kinds == {"raw", "lines", "cost", "aiu"}
RatingKinds == {"cost", "aiu"}
Reads == {"postgres", "clickhouse", "pgMark", "syncMark", "chMark"}

-----------------------------------------------------------------------------
(* The plan of a run.                                                      *)

(* planReconciliationRun refuses a range of the wrong width.               *)
Plannable(p) ==
    /\ p.to > p.from
    /\ p.type = "hourly" => p.to - p.from = Hour
    /\ p.type = "daily" => p.to - p.from = Day
    /\ p.to - p.from <= MaxRange

Bucket(p, t) == LET width == IF p.type = "daily" THEN Day ELSE Hour IN (t \div width) * width

PostgresWhere(p, e) ==
    LET u == UsageOf[e] IN
    /\ p.from <= u.time /\ u.time < p.to
    /\ p.model # None => u.model = p.model
    /\ p.user # None => u.user = p.user

ClickHouseScope(p, e) ==
    LET u == UsageOf[e] IN
    /\ p.from <= u.time /\ u.time < p.to
    /\ p.model # None => u.projected = p.model
    /\ p.user # None => u.user = p.user

(* The model of the registry was resolved when the event arrived, the one  *)
(* of ClickHouse when it was processed.                                    *)
Dimensions(p, e, model) == [bucket |-> Bucket(p, UsageOf[e].time), model |-> model, user |-> UsageOf[e].user]
PgDimensions(p, e) == Dimensions(p, e, UsageOf[e].model)
ChDimensions(p, e) == Dimensions(p, e, UsageOf[e].projected)

-----------------------------------------------------------------------------
(* The snapshots.                                                          *)

SumOf(S, Value(_)) == MapThenSumSet(Value, S)

(* The version when the group has exactly one.                             *)
OnlyOf(S) == IF Cardinality(S \ {None}) = 1 THEN CHOOSE v \in S \ {None} : TRUE ELSE None

(* A message that was given up counted as one that may still come.         *)
PendingOrDead(e) == {k \in RatingKinds : outbox[e, k] \in {"pending", "dead_letter"}}

Pending(e) == {k \in RatingKinds : outbox[e, k] = "pending"}

(* Tokens, cost and AIU of PostgreSQL are those of the rating: an event    *)
(* that has none counts as an event and nothing else.                      *)
PostgresSnapshot(p, E) ==
    LET R == E \cap rated IN
    [metrics |-> [eventCount |-> Cardinality(E),
                  tokens |-> SumOf(R, LAMBDA e : UsageOf[e].tokens),
                  unpricedCount |-> Cardinality({e \in R : UsageOf[e].cost = None}),
                  unratedCount |-> Cardinality({e \in R : UsageOf[e].aiu = None}),
                  providerCost |-> SumOf({e \in R : UsageOf[e].cost # None}, LAMBDA e : UsageOf[e].cost),
                  aiuMicros |-> SumOf({e \in R : UsageOf[e].aiu # None}, LAMBDA e : UsageOf[e].aiu)],
     costVersion |-> OnlyOf({UsageOf[e].costVersion : e \in R}),
     aiuVersion |-> OnlyOf({UsageOf[e].aiuVersion : e \in R}),
     duplicates |-> 0,
     deltaPending |-> \E e \in R : Pending(e) # {},
     unprojected |-> SumOf(R, LAMBDA e : Cardinality(Pending(e)))]

(* Every raw row is joined with the sums of the event's lines and ratings. *)
ClickHouseSnapshot(p, E) ==
    LET n(e, k) == stored[e, "raw"] * stored[e, k]
        Has(e, k) == stored[e, k] > 0 IN
    [metrics |-> [eventCount |-> Cardinality(E),
                  tokens |-> SumOf(E, LAMBDA e : n(e, "lines") * UsageOf[e].tokens),
                  unpricedCount |-> SumOf({e \in E : Has(e, "cost") /\ UsageOf[e].cost = None}, LAMBDA e : stored[e, "raw"]),
                  unratedCount |-> SumOf({e \in E : Has(e, "aiu") /\ UsageOf[e].aiu = None}, LAMBDA e : stored[e, "raw"]),
                  providerCost |-> SumOf({e \in E : UsageOf[e].cost # None}, LAMBDA e : n(e, "cost") * UsageOf[e].cost),
                  aiuMicros |-> SumOf({e \in E : UsageOf[e].aiu # None}, LAMBDA e : n(e, "aiu") * UsageOf[e].aiu)],
     costVersion |-> OnlyOf({UsageOf[e].costVersion : e \in {f \in E : Has(f, "cost")}}),
     aiuVersion |-> OnlyOf({UsageOf[e].aiuVersion : e \in {f \in E : Has(f, "aiu")}}),
     duplicates |-> SumOf(E, LAMBDA e : stored[e, "raw"] - 1),
     deltaPending |-> FALSE,
     unprojected |-> 0]

LoadPostgres(p) ==
    LET E == {e \in registered : PostgresWhere(p, e)} IN
    [d \in {PgDimensions(p, e) : e \in E} |-> PostgresSnapshot(p, {e \in E : PgDimensions(p, e) = d})]

LoadClickHouse(p) ==
    LET E == {e \in Events : stored[e, "raw"] > 0 /\ ClickHouseScope(p, e)} IN
    [d \in {ChDimensions(p, e) : e \in E} |-> ClickHouseSnapshot(p, {e \in E : ChDimensions(p, e) = d})]

(* The newest registered event of the range, whatever the scope; without   *)
(* one the start of the range.                                             *)
PgMark(p) == Max({p.from} \cup {UsageOf[e].time : e \in {f \in registered : p.from <= UsageOf[f].time /\ UsageOf[f].time < p.to}})

(* The newest stored event of the scope; max over no row is the epoch.     *)
ChMark(p) == Max({0} \cup {UsageOf[e].time : e \in {f \in Events : stored[f, "raw"] > 0 /\ ClickHouseScope(p, f)}})

SyncMark(p) == IF lastSuccess = None THEN p.from ELSE lastSuccess

-----------------------------------------------------------------------------
(* The comparison.                                                         *)

UsageMetricKeys == {"eventCount", "tokens", "unpricedCount", "unratedCount"}
Abs(n) == IF n < 0 THEN -n ELSE n

(* diff: the metrics that differ, and by default the missing events.       *)
Diff(type, d, metrics, count) == [type |-> type, dimensions |-> d, metrics |-> metrics, count |-> count]

PairedDiffs(d, pg, ch) ==
    LET delta(k) == pg.metrics[k] - ch.metrics[k]
        count == Abs(delta("eventCount"))
        usage == {k \in UsageMetricKeys : delta(k) # 0}
        When(condition, x) == IF condition THEN {x} ELSE {} IN
    UNION {
        When(pg.costVersion # ch.costVersion, Diff("PRICE_VERSION_MISMATCH", d, {}, 1)),
        When(pg.aiuVersion # ch.aiuVersion, Diff("AIU_RATE_VERSION_MISMATCH", d, {}, 1)),
        When(usage # {}, Diff("USAGE_NORMALIZATION_MISMATCH", d, usage, count)),
        When(Abs(delta("providerCost")) > CostTolerance,
             Diff(IF pg.deltaPending \/ ch.deltaPending THEN "PROVISIONAL_OFFICIAL_DELTA_PENDING"
                  ELSE "LEDGER_PROJECTION_MISSING", d, {"providerCost"}, count)),
        When(Abs(delta("aiuMicros")) > AiuTolerance, Diff("LEDGER_PROJECTION_MISSING", d, {"aiuMicros"}, count)),
        When(pg.unprojected > 0, Diff("ADJUSTMENT_NOT_PROJECTED", d, {}, pg.unprojected))}

ReconcileSnapshots(pgRows, chRows, marks, now) ==
    LET keys == DOMAIN pgRows \cup DOMAIN chRows
        duplicates(d) == IF d \in DOMAIN chRows THEN chRows[d].duplicates ELSE 0 IN
    UNION {
        {Diff("DUPLICATE_PROJECTION", d, {}, duplicates(d)) : d \in {x \in keys : duplicates(x) > 0}},
        {Diff("PG_MISSING", d, {}, chRows[d].metrics.eventCount) : d \in keys \ DOMAIN pgRows},
        {Diff("CH_MISSING", d, {}, pgRows[d].metrics.eventCount) : d \in keys \ DOMAIN chRows},
        UNION {PairedDiffs(d, pgRows[d], chRows[d]) : d \in DOMAIN pgRows \cap DOMAIN chRows},
        IF marks.chMark < marks.pgMark /\ now - marks.syncMark > StallAfter
        THEN {Diff("WATERMARK_STALLED", None, {}, 1)} ELSE {}}

(* The user of a stored difference is a pseudonym.                         *)
Redacted(x) ==
    IF x.dimensions = None THEN x
    ELSE [x EXCEPT !.dimensions.user = IF @ = None THEN None ELSE <<"hmac", @>>]

(* Totals of the PostgreSQL side, and the number of differences.           *)
Summarize(D, pgRows) ==
    [events |-> SumOf(DOMAIN pgRows, LAMBDA d : pgRows[d].metrics.eventCount),
     cost |-> SumOf(DOMAIN pgRows, LAMBDA d : pgRows[d].metrics.providerCost),
     diffCount |-> Cardinality(D)]

-----------------------------------------------------------------------------
(* The pipeline at work.                                                   *)

Init ==
    /\ registered = {} /\ rated = {}
    /\ outbox = [m \in Events \X Kinds |-> None]
    /\ stored = [m \in Events \X Kinds |-> 0]
    /\ lastSuccess = None
    /\ run = [status |-> None, plan |-> None, todo |-> {}, read |-> [r \in Reads |-> None], summary |-> None]
    /\ diffs = {}
    /\ clock = 0 /\ faults = 0
    /\ since = [arrivals |-> {}, rows |-> {}]

(* Once the run has read the stores, what becomes of them is of no         *)
(* interest to it.                                                         *)
Reading == run.status = None \/ run.todo # {}
Changing ==
    /\ Reading
    /\ run.status = "RUNNING" => Cardinality(since.arrivals) + Cardinality(since.rows) < MaxChanges
Arrive(e) == Changing /\ since' = [since EXCEPT !.arrivals = IF run.status = "RUNNING" THEN @ \cup {e} ELSE @]
Move(m) == Changing /\ since' = [since EXCEPT !.rows = IF run.status = "RUNNING" THEN @ \cup {m} ELSE @]
Fault == faults < MaxFaults /\ faults' = faults + 1

Register(e) ==
    /\ e \notin registered /\ UsageOf[e].time <= clock
    /\ registered' = registered \cup {e}
    /\ outbox' = [m \in Events \X Kinds |-> IF m \in {e} \X {"raw", "lines"} THEN "pending" ELSE outbox[m]]
    /\ Arrive(e)
    /\ UNCHANGED <<rated, stored, lastSuccess, run, diffs, clock, faults>>

(* An event that no model matched is committed without a rating.           *)
Rate(e) ==
    /\ e \in registered \ rated /\ UsageOf[e].mapped
    /\ rated' = rated \cup {e}
    /\ outbox' = [m \in Events \X Kinds |-> IF m \in {e} \X RatingKinds THEN "pending" ELSE outbox[m]]
    /\ Arrive(e)
    /\ UNCHANGED <<registered, stored, lastSuccess, run, diffs, clock, faults>>

Deliver(m) ==
    /\ outbox[m] = "pending"
    /\ outbox' = [outbox EXCEPT ![m] = "sent"]
    /\ stored' = [stored EXCEPT ![m] = @ + 1]
    /\ lastSuccess' = clock
    /\ Move(m)
    /\ UNCHANGED <<registered, rated, run, diffs, clock, faults>>

(* A delivery that outlived its lease stores the row once more.            *)
DeliverAgain(m) ==
    /\ outbox[m] = "sent" /\ stored[m] = 1 /\ Fault
    /\ stored' = [stored EXCEPT ![m] = 2]
    /\ Move(m)
    /\ UNCHANGED <<registered, rated, outbox, lastSuccess, run, diffs, clock>>

DeadLetter(m) ==
    /\ outbox[m] = "pending" /\ Fault
    /\ outbox' = [outbox EXCEPT ![m] = "dead_letter"]
    /\ Move(m)
    /\ UNCHANGED <<registered, rated, stored, lastSuccess, run, diffs, clock>>

Tick ==
    /\ clock < MaxTime /\ Reading
    /\ clock' = clock + Hour
    /\ UNCHANGED <<registered, rated, outbox, stored, lastSuccess, run, diffs, faults, since>>

-----------------------------------------------------------------------------
(* The run.                                                                *)

Claim(p) ==
    /\ run.status = None /\ Plannable(p)
    /\ run' = [run EXCEPT !.status = "RUNNING", !.plan = p, !.todo = Reads]
    /\ UNCHANGED <<stores, diffs, clock, faults, since>>

(* execute sends the five queries at once; each sees the moment it runs.   *)
Read(r) ==
    LET p == run.plan
        result == CASE r = "postgres" -> LoadPostgres(p)
                    [] r = "clickhouse" -> LoadClickHouse(p)
                    [] r = "pgMark" -> PgMark(p)
                    [] r = "syncMark" -> SyncMark(p)
                    [] r = "chMark" -> ChMark(p) IN
    /\ run.status = "RUNNING" /\ r \in run.todo
    /\ run' = [run EXCEPT !.todo = @ \ {r}, !.read[r] = result]
    /\ UNCHANGED <<stores, diffs, clock, faults, since>>

(* What execute makes of the five results.                                 *)
Compared ==
    ReconcileSnapshots(run.read["postgres"], run.read["clickhouse"],
                       [pgMark |-> run.read["pgMark"], chMark |-> run.read["chMark"], syncMark |-> run.read["syncMark"]],
                       clock)

ReplaceDiffs ==
    /\ run.status = "RUNNING" /\ run.todo = {} /\ run.summary = None
    /\ LET D == {Redacted(x) : x \in Compared} IN
       /\ diffs' = D
       /\ run' = [run EXCEPT !.summary = Summarize(D, run.read["postgres"])]
    /\ UNCHANGED <<stores, clock, faults, since>>

Complete ==
    /\ run.status = "RUNNING" /\ run.summary # None
    /\ run' = [run EXCEPT !.status = "COMPLETED", !.read = [r \in Reads |-> None]]
    /\ UNCHANGED <<stores, diffs, clock, faults, since>>

(* A query or a transaction failed; differences already stored stay.       *)
FailRun ==
    /\ run.status = "RUNNING" /\ Fault
    /\ run' = [run EXCEPT !.status = "FAILED", !.todo = {}, !.read = [r \in Reads |-> None], !.summary = None]
    /\ UNCHANGED <<stores, diffs, clock, since>>

(* replayTypeForDiff, and the rebuild replayDiff asks for in its place.    *)
ReplayTypeForDiff(type) ==
    CASE type \in {"USAGE_NORMALIZATION_MISMATCH", "DUPLICATE_PROJECTION"} -> "rebuild"
      [] type = "PRICE_VERSION_MISMATCH" -> "rerun_provider_cost"
      [] type = "AIU_RATE_VERSION_MISMATCH" -> "rerun_aiu_observe"
      [] OTHER -> "reproject_to_clickhouse"

Next ==
    \/ \E e \in Events : Register(e) \/ Rate(e)
    \/ \E m \in Events \X Kinds : Deliver(m) \/ DeliverAgain(m) \/ DeadLetter(m)
    \/ Tick
    \/ \E p \in Plans : Claim(p)
    \/ (\E r \in Reads : Read(r)) \/ ReplaceDiffs \/ Complete \/ FailRun

Spec == Init /\ [][Next]_vars

-----------------------------------------------------------------------------
(* What a run that completed has shown.                                    *)

InScope(e) == PostgresWhere(run.plan, e)
Group(e) == {f \in registered : InScope(f) /\ PgDimensions(run.plan, f) = PgDimensions(run.plan, e)}
Reported(e, types) ==
    \E x \in diffs : x.type \in types
                    /\ x.dimensions = [PgDimensions(run.plan, e) EXCEPT !.user = <<"hmac", @>>]
Standing(e, k) == <<e, k>> \notin since.rows

(* Both stores name the same model for every event, and nothing was        *)
(* registered or rated while the run read them.                            *)
Settled == since.arrivals = {} /\ \A e \in registered : UsageOf[e].model = UsageOf[e].projected
Single(E) == \A e \in E, k \in Kinds : stored[e, k] <= 1
Charge(e, k) == IF UsageOf[e][k] = None THEN 0 ELSE UsageOf[e][k]

(* What is missing from before the claim to the end is reported for the    *)
(* right bucket, model and user, with an operation that stores it again.   *)
MissingIsReported ==
    \A e \in registered : InScope(e) /\ Settled =>
        /\ stored[e, "raw"] = 0 /\ Standing(e, "raw") => Reported(e, {"CH_MISSING", "USAGE_NORMALIZATION_MISMATCH"})
        /\ \A k \in RatingKinds :
              (/\ e \in rated /\ stored[e, k] = 0 /\ Standing(e, k) /\ Single(Group(e))
               /\ Charge(e, k) > (IF k = "cost" THEN CostTolerance ELSE AiuTolerance))
              => \E type \in {"CH_MISSING", "PROVISIONAL_OFFICIAL_DELTA_PENDING", "LEDGER_PROJECTION_MISSING"} :
                    Reported(e, {type}) /\ ReplayTypeForDiff(type) = "reproject_to_clickhouse"

(* A second copy is reported, and a cost is called provisional only while  *)
(* a message that was not given up could still bring it.                   *)
CausesAreNamed ==
    \A e \in registered : InScope(e) /\ Settled =>
        /\ stored[e, "raw"] = 2 /\ Standing(e, "raw") => Reported(e, {"DUPLICATE_PROJECTION"})
        /\ Reported(e, {"PROVISIONAL_OFFICIAL_DELTA_PENDING"}) =>
              \E f \in Group(e), k \in RatingKinds : outbox[f, k] = "pending" \/ ~Standing(f, k)

(* Stores that agreed throughout are not reported.                         *)
AgreementIsQuiet ==
    LET E == {e \in registered : InScope(e)} IN
    (/\ Settled /\ since.rows = {} /\ E # {} /\ E \subseteq rated
     /\ \A e \in E, k \in Kinds : stored[e, k] = 1)
    => \A x \in diffs : x.type = "WATERMARK_STALLED" /\ ~(run.plan.model = None /\ run.plan.user = None)

(* The stored totals are those of the registry and of these differences.   *)
SummaryIsTrue ==
    /\ run.summary.diffCount = Cardinality(diffs)
    /\ since.arrivals = {} => run.summary.events = Cardinality({e \in registered : InScope(e)})

(* ReconciliationRunner.execute: whatever happens between its queries, a   *)
(* completed run names what was missing or doubled all along, is silent    *)
(* about what agreed, and stores totals that fit.                          *)
ComparisonIsSound ==
    run.status = "COMPLETED" => MissingIsReported /\ CausesAreNamed /\ AgreementIsQuiet /\ SummaryIsTrue
=============================================================================
