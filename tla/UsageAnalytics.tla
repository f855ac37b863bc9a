--------------------------- MODULE UsageAnalytics ---------------------------
(***************************************************************************)
(* Usage in ClickHouse: the rows an outbox message becomes, the views that *)
(* add them up by minute, hour and day, merges and expiry in the           *)
(* background, and the queries by which the console, the user pages, the   *)
(* export, the metrics endpoint and reconciliation read the same numbers.  *)
(*                                                                         *)
(* A tick is the unit of time; a minute, an hour and a day are the given   *)
(* numbers of ticks.  Amounts are small integers.  Delivery itself, with   *)
(* leases and retries, is in ClickHouseOutbox: here a message arrives in   *)
(* any order, once or, as an overlapping delivery leaves it, twice.        *)
(***************************************************************************)
EXTENDS Integers, Sequences, FiniteSets, FiniteSetsExt, Bags

CONSTANTS
    Events,     \* events that were committed
    AllModels, AllUsers, Currencies,
    Queries,    \* what may be asked
    All,        \* of a query that is not restricted
    Usages,     \* what the events may carry
    Minute, Hour, Day,
    Retention,  \* ticks that raw rows and minute sums are kept
    MaxTime,    \* the last tick
    MaxFaults,  \* second deliveries, views that fail, and merges
    None

VARIABLES
    usage,      \* the committed events
    pending,    \* messages of the outbox that were not delivered yet
    raw, lines, ratings,    \* tables of rows, as bags
    minute, hourly, daily,  \* tables of sums, as bags
    clock, faults,
    skipped,    \* events with rows that the views did not see
    merges      \* of the tables of sums, so far

vars == <<usage, pending, raw, lines, ratings, minute, hourly, daily, clock, faults, skipped, merges>>

-----------------------------------------------------------------------------
(* From a message to rows.                                                 *)

(* An event that no model of the catalogue matched is not rated at all.    *)
Kinds(e) == {"raw", "lines"} \cup (IF usage[e].model = None THEN {} ELSE {"cost", "aiu"})

(* The resolved model, or whatever the client called it.                   *)
ModelId(e) == IF usage[e].model = None THEN usage[e].claimed ELSE usage[e].model

UsageBase(e) == [event |-> e, time |-> usage[e].time, request |-> usage[e].request,
                 user |-> usage[e].user, model |-> ModelId(e), status |-> usage[e].status]

MapUsageLines(e) ==
    {[base |-> UsageBase(e), type |-> t, quantity |-> usage[e].tokens[t]] : t \in DOMAIN usage[e].tokens}

AttemptOutcome(status) ==
    IF status \in {"success", "failure", "cancelled", "timeout"} THEN status ELSE "unknown"

RatingBase(e, kind, status, index) ==
    [event |-> e, time |-> usage[e].time, user |-> usage[e].user, model |-> usage[e].model,
     outcome |-> AttemptOutcome(usage[e].status), kind |-> kind, status |-> status, index |-> index]

MapProviderRating(e) ==
    LET cost == usage[e].cost IN
    {[base |-> RatingBase(e, "provider_cost", IF cost = None THEN "unpriced" ELSE "official", 0),
      type |-> "", currency |-> IF cost = None THEN None ELSE cost.currency,
      amount |-> IF cost = None THEN None ELSE cost.amount]}

(* One row for each line, or one for the total when there is no line.      *)
MapAiuRating(e) ==
    LET aiu == usage[e].aiu
        line(type, micros, index) ==
            [base |-> RatingBase(e, "aiu", aiu.status, index), type |-> type, currency |-> None,
             amount |-> micros]
    IN  IF aiu.lines = <<>> THEN {line("", aiu.total, 1)}
        ELSE {line(aiu.lines[i].type, aiu.lines[i].micros, i) : i \in DOMAIN aiu.lines}

-----------------------------------------------------------------------------
(* The views.                                                              *)

Measures == {"attempts", "success", "errors", "quantity", "cost", "aiu", "unpriced", "unrated"}
Zero == [m \in Measures |-> 0]
One(condition) == IF condition THEN 1 ELSE 0
Known(amount) == IF amount = None THEN 0 ELSE amount

Start(time, length) == time - (time % length)

MinuteKey(base, status, type, currency) ==
    [bucket |-> Start(base.time, Minute), model |-> base.model, status |-> status, type |-> type,
     currency |-> currency]

UsageEventsRawTo1m(r) ==
    [key |-> MinuteKey(r, r.status, "", None),
     sums |-> [Zero EXCEPT !["attempts"] = 1, !["success"] = One(r.status = "success"),
                           !["errors"] = One(r.status \in {"failure", "cancelled", "timeout"})]]

UsageLinesTo1m(r) ==
    [key |-> MinuteKey(r.base, r.base.status, r.type, None), sums |-> [Zero EXCEPT !["quantity"] = r.quantity]]

RatingEventsTo1m(r) ==
    LET cost == r.base.kind = "provider_cost" IN
    [key |-> MinuteKey(r.base, r.base.outcome, r.type, r.currency),
     sums |-> [Zero EXCEPT
                 !["cost"] = IF cost /\ r.base.status = "official" THEN Known(r.amount) ELSE 0,
                 !["aiu"] = IF ~cost /\ r.base.status = "official" THEN Known(r.amount) ELSE 0,
                 !["unpriced"] = One(cost /\ r.base.status = "unpriced"),
                 !["unrated"] = One(~cost /\ r.base.status = "unrated")]]

(* The coarser tables keep neither the status nor the reason of a route.   *)
RolledUp(p, length) ==
    [key |-> [bucket |-> Start(p.key.bucket, length), model |-> p.key.model, type |-> p.key.type,
              currency |-> p.key.currency],
     sums |-> p.sums]

(* GROUP BY: one row of sums for each key.                                 *)
Grouped(rows, Row(_)) ==
    {[key |-> k, sums |-> [m \in Measures |->
          MapThenSumSet(LAMBDA r : Row(r).sums[m], {r \in rows : Row(r).key = k})]] :
        k \in {Row(r).key : r \in rows}}

Rolled(partials, length) == Grouped(partials, LAMBDA p : RolledUp(p, length))

Projected(partials) ==
    /\ minute' = minute (+) SetToBag(partials)
    /\ hourly' = hourly (+) SetToBag(Rolled(partials, Hour))
    /\ daily' = daily (+) SetToBag(Rolled(partials, Day))

(* What the views make of the rows of one message.                         *)
Partials(e, kind) ==
    CASE kind = "raw" -> Grouped({UsageBase(e)}, UsageEventsRawTo1m)
      [] kind = "lines" -> Grouped(MapUsageLines(e), UsageLinesTo1m)
      [] kind = "cost" -> Grouped(MapProviderRating(e), RatingEventsTo1m)
      [] kind = "aiu" -> Grouped(MapAiuRating(e), RatingEventsTo1m)

Stored(e, kind) ==
    /\ raw' = IF kind = "raw" THEN raw (+) SetToBag({UsageBase(e)}) ELSE raw
    /\ lines' = IF kind = "lines" THEN lines (+) SetToBag(MapUsageLines(e)) ELSE lines
    /\ ratings' = CASE kind = "cost" -> ratings (+) SetToBag(MapProviderRating(e))
                    [] kind = "aiu" -> ratings (+) SetToBag(MapAiuRating(e))
                    [] OTHER -> ratings

Deliver(e, kind) ==
    /\ <<e, kind>> \in pending
    /\ pending' = pending \ {<<e, kind>>}
    /\ Stored(e, kind) /\ Projected(Partials(e, kind))
    /\ UNCHANGED <<usage, clock, faults, skipped, merges>>

(* Two owners of a row both found it missing.                              *)
DeliverAgain(e, kind) ==
    /\ <<e, kind>> \notin pending /\ kind \in Kinds(e) /\ faults + merges < MaxFaults
    /\ faults' = faults + 1
    /\ Stored(e, kind) /\ Projected(Partials(e, kind))
    /\ UNCHANGED <<usage, pending, clock, skipped, merges>>

(* The rows are stored and the insert fails in a view; the retry finds the *)
(* rows and does not insert them again.                                    *)
ProjectionFails(e, kind) ==
    /\ <<e, kind>> \in pending /\ faults + merges < MaxFaults
    /\ faults' = faults + 1 /\ skipped' = skipped \cup {e}
    /\ pending' = pending \ {<<e, kind>>}
    /\ Stored(e, kind)
    /\ UNCHANGED <<usage, minute, hourly, daily, clock, merges>>

(* SummingMergeTree: the rows of one key become one; the sorting key is    *)
(* every column that is not a sum.                                         *)
SortingKey(key) == key

MergedRow(table, rows) ==
    [key |-> (CHOOSE r \in rows : TRUE).key,
     sums |-> [m \in Measures |-> MapThenSumSet(LAMBDA r : table[r] * r.sums[m], rows)]]

(* A row whose sums are all zero is dropped.                               *)
Merged(table) ==
    LET rows == {MergedRow(table, {r \in DOMAIN table : SortingKey(r.key) = k}) :
                    k \in {SortingKey(r.key) : r \in DOMAIN table}}
    IN  SetToBag({r \in rows : r.sums # Zero})

Merge ==
    /\ faults + merges < MaxFaults
    /\ merges' = merges + 1
    /\ minute' = Merged(minute) /\ hourly' = Merged(hourly) /\ daily' = Merged(daily)
    /\ <<minute', hourly', daily'>> # <<minute, hourly, daily>>
    /\ UNCHANGED <<usage, pending, raw, lines, ratings, clock, faults, skipped>>

(* Rows past their retention are deleted some time later.  The lines are   *)
(* kept twice as long, ratings and the coarser sums longer than the model  *)
(* lasts.                                                                  *)
KeptLines == {l \in DOMAIN lines : l.base.time + 2 * Retention > clock}

Expire ==
    /\ raw' = [r \in {x \in DOMAIN raw : x.time + Retention > clock} |-> raw[r]]
    /\ minute' = [p \in {x \in DOMAIN minute : x.key.bucket + Retention > clock} |-> minute[p]]
    /\ lines' = [l \in KeptLines |-> lines[l]]
    /\ <<raw', minute', lines'>> # <<raw, minute, lines>>
    /\ UNCHANGED <<usage, pending, ratings, hourly, daily, clock, faults, skipped, merges>>

Tick ==
    /\ clock + Hour <= MaxTime
    /\ clock' = clock + Hour
    /\ UNCHANGED <<usage, pending, raw, lines, ratings, minute, hourly, daily, faults, skipped, merges>>

Init ==
    /\ usage \in Usages
    /\ pending = UNION {{e} \X Kinds(e) : e \in Events}
    /\ raw = EmptyBag /\ lines = EmptyBag /\ ratings = EmptyBag
    /\ minute = EmptyBag /\ hourly = EmptyBag /\ daily = EmptyBag
    /\ clock = 0 /\ faults = 0 /\ skipped = {} /\ merges = 0

Next ==
    \/ \E e \in Events, kind \in {"raw", "lines", "cost", "aiu"} :
          Deliver(e, kind) \/ DeliverAgain(e, kind) \/ ProjectionFails(e, kind)
    \/ Merge
    \/ Expire
    \/ Tick

Spec == Init /\ [][Next]_vars

-----------------------------------------------------------------------------
(* The queries.  A query has a range and may be restricted to one model or *)
(* to one user.                                                            *)

(* Only columns that the rows of ratings and the sums also have may be     *)
(* filtered without the raw row.                                           *)
CanFilterRatingsDirectly(q) == q.user = All

(* Variant: a range that begins or ends within a minute.                   *)
UseMinuteAggregateUnaligned(q) == CanFilterRatingsDirectly(q)

UseMinuteAggregate(q) == CanFilterRatingsDirectly(q) /\ q.from % Minute = 0 /\ q.to % Minute = 0

Ranged(q, time) == q.from <= time /\ time < q.to

Where(q, r) ==
    /\ Ranged(q, r.time)
    /\ q.model \in {All, r.model}
    /\ q.user \in {All, r.user}

Total(table, Keep(_), Value(_)) ==
    MapThenSumSet(LAMBDA r : table[r] * Value(r), {r \in DOMAIN table : Keep(r)})

FilteredEvents(q) == {r.event : r \in {x \in DOMAIN raw : Where(q, x)}}

(* What a row of ratings adds to an amount: AIU, or the cost in a currency.*)
Amount(r, of) ==
    IF of = "aiu" THEN IF r.base.kind = "aiu" THEN Known(r.amount) ELSE 0
    ELSE IF r.base.kind = "provider_cost" /\ r.currency = of THEN Known(r.amount) ELSE 0

OfEvent(e, of) == Total(ratings, LAMBDA r : r.base.event = e, LAMBDA r : Amount(r, of))

(* The sums by minute, where the rows of one amount have its currency.     *)
AggregateEventProjection(q, of, partials) ==
    Total(minute,
          LAMBDA p : /\ Ranged(q, p.key.bucket) /\ q.model \in {All, p.key.model}
                     /\ (of = "aiu" \/ p.key.currency = of) /\ p \in partials,
          LAMBDA p : IF of = "aiu" THEN p.sums["aiu"] ELSE p.sums["cost"])

ScopedIn(q, of) ==
    Total(ratings, LAMBDA r : Ranged(q, r.base.time) /\ r.base.event \in FilteredEvents(q),
          LAMBDA r : Amount(r, of))

(* A join repeats the ratings for every copy of the raw row.               *)
ScopedJoin(q, of, rows) ==
    Total(raw, LAMBDA r : Where(q, r) /\ r \in rows,
          LAMBDA r : Total(ratings, LAMBDA x : x.base.time = r.time /\ x.base.event = r.event,
                           LAMBDA x : Amount(x, of)))

QueryAnalyticsOverview(q, of) ==
    IF UseMinuteAggregate(q) THEN AggregateEventProjection(q, of, DOMAIN minute)
    ELSE IF CanFilterRatingsDirectly(q) THEN Total(ratings, LAMBDA r : Where(q, r.base), LAMBDA r : Amount(r, of))
    ELSE ScopedIn(q, of)

QueryAnalyticsAiu(q) ==
    IF UseMinuteAggregate(q) THEN AggregateEventProjection(q, "aiu", DOMAIN minute) ELSE ScopedIn(q, "aiu")

AiuGroup(q, model) ==
    IF UseMinuteAggregate(q) THEN AggregateEventProjection(q, "aiu", {p \in DOMAIN minute : p.key.model = model})
    ELSE ScopedJoin(q, "aiu", {r \in DOMAIN raw : r.model = model})

QueryAnalyticsProviderCost(q, of) ==
    IF UseMinuteAggregate(q) THEN AggregateEventProjection(q, of, DOMAIN minute)
    ELSE ScopedJoin(q, of, DOMAIN raw)

FailedAttemptCost(q, of) ==
    IF UseMinuteAggregate(q) THEN AggregateEventProjection(q, of, {p \in DOMAIN minute : p.key.status # "success"})
    ELSE ScopedJoin(q, of, {r \in DOMAIN raw : r.status # "success"})

CostGroup(q, of, model) ==
    IF UseMinuteAggregate(q) THEN AggregateEventProjection(q, of, {p \in DOMAIN minute : p.key.model = model})
    ELSE ScopedJoin(q, of, {r \in DOMAIN raw : r.model = model})

(* The latest status of an event's ratings of a kind among some rows; none *)
(* when no row is there.                                                   *)
LatestStatus(kind, e, rows) ==
    LET own == {r \in rows : r.base.kind = kind /\ r.base.event = e} IN
    IF own = {} THEN ""
    ELSE (CHOOSE r \in own : \A x \in own : x.base.index <= r.base.index).base.status

RatingEvidence(q, kind) ==
    LET rows == {r \in DOMAIN ratings :
                    IF CanFilterRatingsDirectly(q) THEN Where(q, r.base)
                    ELSE Ranged(q, r.base.time) /\ r.base.event \in FilteredEvents(q)}
    IN  Cardinality({e \in Events : LatestStatus(kind, e, rows) = "official"})

EventCount(q) == Total(raw, LAMBDA r : Where(q, r), LAMBDA r : 1)

(* Events without a price, or without AIU, as the reports count them.      *)
Lacking(q, kind) == LET n == EventCount(q) - RatingEvidence(q, kind) IN IF n > 0 THEN n ELSE 0

(* The same for all usage, as the worker and the metrics endpoint count it.*)
CountUnpricedUsage ==
    Total(raw, LAMBDA r : LatestStatus("provider_cost", r.event, DOMAIN ratings) # "official", LAMBDA r : 1)

Tokens(e) == Total(lines, LAMBDA l : l.base.event = e, LAMBDA l : l.quantity)

OverviewTokens(q) ==
    Total(lines, LAMBDA l : Ranged(q, l.base.time) /\ l.base.event \in FilteredEvents(q), LAMBDA l : l.quantity)

ActivityTokens(q) == Total(raw, LAMBDA r : Where(q, r), LAMBDA r : Tokens(r.event))

(* The rows of the usage page, which looks ratings up by time and event,   *)
(* and of the export, which looks them up by event.                        *)
UsageItems(q, of) ==
    Total(raw, LAMBDA r : Where(q, r),
          LAMBDA r : Total(ratings, LAMBDA x : x.base.time = r.time /\ x.base.event = r.event,
                           LAMBDA x : Amount(x, of)))

ExportRows(q, of) == Total(raw, LAMBDA r : Ranged(q, r.time), LAMBDA r : OfEvent(r.event, of))

(* Reconciliation's side: everything of one bucket, model and user.        *)
SnapshotGroup(bucket, model, user, of) ==
    Total(raw, LAMBDA r : Start(r.time, Hour) = bucket /\ r.model = model /\ r.user = user,
          LAMBDA r : IF of = "tokens" THEN Tokens(r.event) ELSE OfEvent(r.event, of))

(* The page of one user: the list, and the trend by day.                   *)
UserMetrics(user, of) == Total(ratings, LAMBDA r : r.base.user = user, LAMBDA r : Amount(r, of))

UserTrend(q, of, bucket) ==
    IF of = "tokens"
    THEN Total(lines, LAMBDA l : Where(q, l.base) /\ Start(l.base.time, Day) = bucket, LAMBDA l : l.quantity)
    ELSE Total(ratings, LAMBDA r : Where(q, r.base) /\ Start(r.base.time, Day) = bucket, LAMBDA r : Amount(r, of))

-----------------------------------------------------------------------------
(* Properties.                                                             *)

SumOver(S, Value(_)) == MapThenSumSet(Value, S)
Buckets(length) == {Start(usage[e].time, length) : e \in Events}
Authority(e, of) ==
    IF usage[e].model = None THEN 0
    ELSE IF of = "aiu" THEN Known(usage[e].aiu.total)
    ELSE IF usage[e].cost # None /\ usage[e].cost.currency = of THEN usage[e].cost.amount ELSE 0

(* Nothing in the range has expired, the views saw every row if they are   *)
(* asked, and an event that has other rows has its raw row, once.          *)
Intact(q) ==
    /\ q.from + Retention > clock
    /\ UseMinuteAggregate(q) => \A e \in skipped : ~Ranged(q, usage[e].time)
    /\ \A e \in Events :
          Ranged(q, usage[e].time) /\ (\E kind \in Kinds(e) : <<e, kind>> \notin pending)
              => CopiesIn(UsageBase(e), raw) = 1

DeliveredOnce(q) ==
    faults = 0 /\ \A e \in Events : Ranged(q, usage[e].time) => \A kind \in Kinds(e) : <<e, kind>> \notin pending

AmountsAgree(q, of) ==
    LET amount == QueryAnalyticsOverview(q, of) IN
    /\ amount = IF of = "aiu" THEN QueryAnalyticsAiu(q) ELSE QueryAnalyticsProviderCost(q, of)
    /\ amount = SumOver(AllModels, LAMBDA m : IF of = "aiu" THEN AiuGroup(q, m) ELSE CostGroup(q, of, m))
    /\ amount = UsageItems(q, of)
    /\ of # "aiu" => FailedAttemptCost(q, of) = ScopedJoin(q, of, {r \in DOMAIN raw : r.status # "success"})
    /\ q.model = All /\ q.user = All => amount = ExportRows(q, of)
    /\ q.model = All /\ q.user # All =>
         /\ amount = SumOver(Buckets(Day), LAMBDA b : UserTrend(q, of, b))
         /\ (\A e \in Events : Ranged(q, usage[e].time)) => amount = UserMetrics(q.user, of)
    /\ DeliveredOnce(q) =>
         amount = SumOver({e \in Events : Where(q, UsageBase(e))}, LAMBDA e : Authority(e, of))

TokensAgree(q) ==
    /\ OverviewTokens(q) = ActivityTokens(q)
    /\ q.model = All /\ q.user # All => OverviewTokens(q) = SumOver(Buckets(Day), LAMBDA b : UserTrend(q, "tokens", b))

SnapshotAgrees(q) ==
    q.model # All /\ q.user # All /\ q.from % Hour = 0 /\ q.to % Hour = 0 =>
        LET groups(of) == SumOver({b \in Buckets(Hour) : Ranged(q, b)},
                                  LAMBDA b : SnapshotGroup(b, q.model, q.user, of))
        IN  /\ groups("tokens") = OverviewTokens(q)
            /\ \A of \in Currencies \cup {"aiu"} : groups(of) = QueryAnalyticsOverview(q, of)

CountsAgree(q) ==
    /\ \A kind \in {"provider_cost", "aiu"} :
          Lacking(q, kind) = Cardinality({e \in FilteredEvents(q) : LatestStatus(kind, e, DOMAIN ratings) # "official"})
    /\ q.model = All /\ q.user = All /\ (\A e \in Events : Ranged(q, usage[e].time)) =>
          Lacking(q, "provider_cost") = CountUnpricedUsage

RollupsAgree ==
    \A m \in Measures :
        LET sum(table, from, length) ==
                Total(table, LAMBDA p : from <= p.key.bucket /\ p.key.bucket < from + length, LAMBDA p : p.sums[m])
        IN  /\ \A b \in Buckets(Hour) : b + Retention > clock => sum(minute, b, Hour) = sum(hourly, b, Hour)
            /\ \A b \in Buckets(Day) : sum(hourly, b, Day) = sum(daily, b, Day)

(* However the rows of events arrived, merged and expired, all the ways to *)
(* read them agree within the retention: the overview, whichever of the    *)
(* sums by minute, the ratings or the filtered events it reads; the AIU    *)
(* and cost reports and their groups; the usage page, the export, the      *)
(* pages of a user and reconciliation.  They show what was committed when  *)
(* every row arrived once, a second copy of a rating changes all of them   *)
(* alike, and the sums by hour and day are those of their minutes.         *)
ReportsAgree ==
    /\ skipped = {} => RollupsAgree
    /\ \A q \in Queries : Intact(q) =>
          /\ \A of \in Currencies \cup {"aiu"} : AmountsAgree(q, of)
          /\ TokensAgree(q) /\ SnapshotAgrees(q) /\ CountsAgree(q)
=============================================================================
