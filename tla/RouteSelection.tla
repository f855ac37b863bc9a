--------------------------- MODULE RouteSelection ---------------------------
(***************************************************************************)
(* Which model a request is sent to.  The console keeps the candidates and *)
(* conditions of a virtual model, publishes them as a plan, and simulates  *)
(* requests against the rows themselves; the Node SDK, the Python SDK and  *)
(* the LiteLLM connector each resolve a request against the plan with code *)
(* of their own.                                                           *)
(*                                                                         *)
(* Local time is a weekday and a minute of a day of DayLength minutes, and *)
(* an expiry is past or in the future.  deterministicFraction, the same    *)
(* FNV hash in all four programs, is an arbitrary point below Points.      *)
(***************************************************************************)
EXTENDS Integers, Sequences, FiniteSets, SequencesExt, FiniteSetsExt

CONSTANTS
    Candidates,  \* the candidate models, in fallback order
    Users,       \* external ids of users
    DayLength,   \* minutes of a day
    Points,      \* how many values the hash takes
    None

VARIABLES
    rows,      \* the virtual model: targets, default, conditions
    audience,  \* members of the group, users whose AIU state is "low"
    plan,      \* the published plan, or None
    result     \* what was asked of a plan and what the four programs answered

vars == <<rows, audience, plan, result>>

-----------------------------------------------------------------------------
(* JSON values.  "of" is what String(value) gives in JavaScript.           *)

Absent == [type |-> "absent", of |-> "undefined"]
Text(t) == [type |-> "string", of |-> t]
One == [type |-> "number", of |-> "1"]
True == [type |-> "boolean", of |-> "true"]

(* The member of a one-element list.                                       *)
List(t) == [type |-> "list", of |-> t]

StartsWith(s, p) == s = p \/ p = "" \/ (s = "ab" /\ p = "a")
Includes(s, p) == StartsWith(s, p) \/ (s = "ab" /\ p = "b")

(* Python compares True and 1 as equal; str() spells True with a capital.  *)
PythonEqual(v, w) == v = w \/ {v, w} = {True, One}
PythonString(v) == IF v = True THEN "True" ELSE v.of

JavaScriptEqual(v, w) == v = w
JavaScriptString(v) == v.of

PropertyMatches(condition, current, Equal(_, _), String(_), emptyPrefix) ==
    LET value == condition.value IN
    CASE condition.operator = "is_set" -> current # Absent
      [] condition.operator = "is_not_set" -> current = Absent
      [] condition.operator = "equals" -> Equal(current, value)
      [] condition.operator = "not_equals" -> ~Equal(current, value)
      [] condition.operator = "starts_with" ->
            /\ current.type = "string"
            /\ emptyPrefix \/ String(value) # ""
            /\ StartsWith(current.of, String(value))
      [] condition.operator = "contains" ->
            IF current.type = "string" THEN Includes(current.of, String(value))
            ELSE current.type = "list" /\ value = Text(current.of)

SimulatedProperty(condition, current) ==
    PropertyMatches(condition, current, JavaScriptEqual, JavaScriptString, FALSE)

NodeProperty(condition, current) ==
    PropertyMatches(condition, current, JavaScriptEqual, JavaScriptString, TRUE)

PythonProperty(condition, current) ==
    PropertyMatches(condition, current, PythonEqual, PythonString, TRUE)

(* _json_scalar_equal and _javascript_string imitate the other language.   *)
ConnectorProperty(condition, current) ==
    PropertyMatches(condition, current, JavaScriptEqual, JavaScriptString, FALSE)

-----------------------------------------------------------------------------
(* Schedules.                                                              *)

PreviousWeekday(day) == IF day = 1 THEN 7 ELSE day - 1

(* Mutant of ScheduleMatches: the part after midnight belongs to the day   *)
(* it falls on.                                                            *)
ScheduleMatchesToday(s, clock) ==
    \/ s.from < s.to /\ clock.day \in s.days /\ clock.minute \in s.from..(s.to - 1)
    \/ s.from > s.to /\ clock.day \in s.days /\ (clock.minute >= s.from \/ clock.minute < s.to)

ScheduleMatches(s, clock) ==
    \/ s.from < s.to /\ clock.day \in s.days /\ clock.minute \in s.from..(s.to - 1)
    \/ s.from > s.to /\ \/ clock.day \in s.days /\ clock.minute >= s.from
                        \/ PreviousWeekday(clock.day) \in s.days /\ clock.minute < s.to

-----------------------------------------------------------------------------
(* Publishing.                                                             *)

ActiveTargets == SelectSeq(rows.targets, LAMBDA t : t.active)
Enabled == SelectSeq(rows.rules, LAMBDA r : r.enabled)

(* Conditions about users become lists of users, as they are now.          *)
Resolvable(match) == match.kind = "group" => audience.members # None

ResolveRuntimeMatch(match) ==
    CASE match.kind = "group" -> [kind |-> "user", ids |-> audience.members]
      [] match.kind = "aiu_low" -> [kind |-> "user", ids |-> audience.low]
      [] OTHER -> match

ModelsOf(targets) == {targets[i].model : i \in DOMAIN targets}

(* A target first, then the others in their order.                         *)
Preferred(targets, model) ==
    SelectSeq(targets, LAMBDA t : t.model = model) \o SelectSeq(targets, LAMBDA t : t.model # model)

BuildRules ==
    [i \in DOMAIN Enabled |->
        [priority |-> Enabled[i].priority, match |-> ResolveRuntimeMatch(Enabled[i].match),
         expires |-> Enabled[i].expires, targets |-> Preferred(ActiveTargets, Enabled[i].target)]]

HasIssue ==
    \/ rows.default \notin ModelsOf(ActiveTargets)
    \/ \E i, j \in DOMAIN Enabled : i # j /\ Enabled[i].priority = Enabled[j].priority
    \/ \E i \in DOMAIN Enabled : \/ ~Resolvable(Enabled[i].match)
                                 \/ Enabled[i].target \notin ModelsOf(ActiveTargets)

Mode(targets) == IF \E i \in DOMAIN targets : targets[i].weight # 1 THEN "weighted" ELSE "ordered"

Publish ==
    /\ plan = None /\ result = None /\ ~HasIssue
    /\ plan' = [rules |-> BuildRules, mode |-> Mode(ActiveTargets),
                targets |-> Preferred(ActiveTargets, rows.default), audience |-> audience]
    /\ UNCHANGED <<rows, audience, result>>

-----------------------------------------------------------------------------
(* Selecting a target.                                                     *)

Cumulative(targets, i) == FoldFunctionOnSet(+, 0, [j \in DOMAIN targets |-> targets[j].weight], 1..i)

(* Mutant of OrderedTargets: a point on a boundary counts for both sides.  *)
OrderedTargetsUpTo(targets, mode, point) ==
    IF mode # "weighted" \/ point = None THEN targets
    ELSE LET total == Cumulative(targets, Len(targets))
             hit == {i \in DOMAIN targets : point * total <= Cumulative(targets, i) * Points}
         IN  Preferred(targets, targets[IF hit = {} THEN 1 ELSE Min(hit)].model)

(* The first target whose cumulative weight passes the point; fractions    *)
(* are cross-multiplied.                                                   *)
OrderedTargets(targets, mode, point) ==
    IF mode # "weighted" \/ point = None THEN targets
    ELSE LET total == Cumulative(targets, Len(targets))
             hit == {i \in DOMAIN targets : point * total < Cumulative(targets, i) * Points}
         IN  Preferred(targets, targets[IF hit = {} THEN 1 ELSE Min(hit)].model)

(* What all clients test alike; conditions on properties are their own.    *)
Matches(rule, request, property) ==
    LET match == rule.match IN
    CASE match.kind = "override" -> rule.expires = "future"
      [] match.kind = "user" -> request.user \in match.ids
      [] match.kind = "call_source" -> request.source
      [] match.kind = "schedule" -> ScheduleMatches(match, request.clock)
      [] match.kind = "property" -> property

(* The one matching rule of the highest priority, the default, or an error *)
(* when two share it.                                                      *)
Resolve(matched, point) ==
    LET highest == Max({plan.rules[i].priority : i \in matched})
        winners == {i \in matched : plan.rules[i].priority = highest}
    IN  IF matched = {} THEN OrderedTargets(plan.targets, plan.mode, point)
        ELSE IF Cardinality(winners) # 1 THEN <<>>
        ELSE plan.rules[CHOOSE i \in winners : TRUE].targets

NodeMatches(rule, request) ==
    Matches(rule, request, rule.match.kind = "property" /\ NodeProperty(rule.match, request.property))

ResolveRuntimeRoute(request) ==
    Resolve({i \in DOMAIN plan.rules : NodeMatches(plan.rules[i], request)}, request.point)

PythonMatches(rule, request) ==
    Matches(rule, request, rule.match.kind = "property" /\ PythonProperty(rule.match, request.property))

PythonResolveRuntimeRoute(request) ==
    Resolve({i \in DOMAIN plan.rules : PythonMatches(plan.rules[i], request)}, request.point)

ConnectorMatches(rule, request) ==
    Matches(rule, request, rule.match.kind = "property" /\ ConnectorProperty(rule.match, request.property))

SelectRuntimeRoute(request) ==
    Resolve({i \in DOMAIN plan.rules : ConnectorMatches(plan.rules[i], request)}, request.point)

-----------------------------------------------------------------------------
(* The console's simulation.                                               *)

RuntimeMatchApplies(match, request) ==
    CASE match.kind = "override" -> TRUE
      [] match.kind = "user" -> request.user # None /\ request.user \in match.ids
      [] match.kind = "call_source" -> request.source
      [] match.kind = "schedule" -> ScheduleMatches(match, request.clock)
      [] match.kind = "property" -> SimulatedProperty(match, request.property)

SimulatedRules(request) ==
    {i \in DOMAIN rows.rules :
        /\ rows.rules[i].enabled /\ rows.rules[i].expires # "past"
        /\ Resolvable(rows.rules[i].match)
        /\ RuntimeMatchApplies(ResolveRuntimeMatch(rows.rules[i].match), request)}

(* The hash of the user's id stands in for the request's, which the        *)
(* console does not know; it is the point 0.                               *)
OrderSimulationTargets(targets, request) ==
    OrderedTargets(targets, Mode(targets), IF request.user = None THEN None ELSE 0)

Simulate(request) ==
    LET active == SimulatedRules(request)
        first == CHOOSE i \in active : \A j \in active :
                     \/ rows.rules[i].priority > rows.rules[j].priority
                     \/ rows.rules[i].priority = rows.rules[j].priority /\ i <= j
    IN  IF active = {}
        THEN OrderSimulationTargets(Preferred(rows.targets, rows.default), request)
        ELSE Preferred(rows.targets, rows.rules[first].target)

-----------------------------------------------------------------------------
(* A user joins or leaves the group, or runs low, after the publication.   *)
AudienceChanges ==
    /\ plan # None /\ result = None /\ audience = plan.audience
    /\ rows.rules[1].match.kind \in {"group", "aiu_low"}
    /\ audience' \in [members : {None} \cup SUBSET Users, low : SUBSET Users] \ {audience}
    /\ UNCHANGED <<rows, plan, result>>

Clocks == [day : 1..7, minute : 0..(DayLength - 1)]
Noon == [day |-> 1, minute |-> 0]
PropertyValues == {Absent, Text(""), Text("ab"), Text("1"), Text("true"), One, True, List("a")}

(* Requests that differ in what the first rule looks at.                   *)
Requests ==
    LET kind == rows.rules[1].match.kind IN
    [user : Users \cup {None}, source : IF kind = "call_source" THEN BOOLEAN ELSE {FALSE},
     clock : IF kind = "schedule" THEN Clocks ELSE {Noon},
     property : IF kind = "property" THEN PropertyValues ELSE {Absent},
     point : IF Mode(rows.targets) = "weighted" THEN 0..(Points - 1) ELSE {0}]

Ask(request) ==
    /\ plan # None /\ result = None
    /\ result' = [request |-> request, simulated |-> Simulate(request),
                  node |-> ResolveRuntimeRoute(request),
                  python |-> PythonResolveRuntimeRoute(request),
                  connector |-> SelectRuntimeRoute(request)]
    /\ UNCHANGED <<rows, audience, plan>>

-----------------------------------------------------------------------------
Conditions ==
    {[kind |-> "override"], [kind |-> "user", ids |-> {CHOOSE u \in Users : TRUE}],
     [kind |-> "group"], [kind |-> "aiu_low"], [kind |-> "call_source"]}
    \cup [kind : {"property"}, operator : {"is_set", "is_not_set"}, value : {Absent}]
    \cup [kind : {"property"}, operator : {"equals", "not_equals", "starts_with", "contains"},
          value : {Text(""), Text("a"), Text("true"), One, True}]
    \cup [kind : {"schedule"}, days : {{1}, {7}, {3, 4}}, from : 0..(DayLength - 1), to : 0..(DayLength - 1)]

(* A temporary route must have an expiry; any other condition may.         *)
Rules == {r \in [priority : {1, 2, 3}, match : Conditions, target : {Candidates[2]},
                 expires : {None, "past", "future"}, enabled : BOOLEAN] :
             /\ r.match.kind = "override" => r.expires # None
             /\ r.match.kind \in {"property", "schedule"} => r.enabled /\ r.priority # 2}

SecondRule == [priority |-> 2, match |-> [kind |-> "user", ids |-> {CHOOSE u \in Users : TRUE}],
               target |-> Candidates[3], expires |-> None, enabled |-> TRUE]

Weighting == [DOMAIN Candidates -> {1, 2}]

(* Either the condition varies, or the weights and what is available.      *)
Init ==
    /\ \E rule \in Rules, w \in Weighting, on \in SUBSET DOMAIN Candidates :
       /\ \/ rule.match.kind = "user" /\ rule.expires = None /\ rule.priority = 3
          \/ on = DOMAIN Candidates /\ \A i \in DOMAIN w : w[i] = 1
       /\ rows = [targets |-> [i \in DOMAIN Candidates |->
                                 [model |-> Candidates[i], weight |-> w[i], active |-> i \in on]],
                  default |-> Candidates[1], rules |-> <<rule, SecondRule>>]
    /\ audience \in [members : {None, Users}, low : {{}}]
    /\ plan = None /\ result = None

Next == Publish \/ AudienceChanges \/ \E request \in Requests : Ask(request)

Spec == Init /\ [][Next]_vars

-----------------------------------------------------------------------------
Condition == rows.rules[1].match
EmptyPrefix == Condition.kind = "property" /\ Condition.operator = "starts_with" /\ Condition.value = Text("")

(* The two places where Python's scalars are not JavaScript's.             *)
Coerced ==
    /\ Condition.kind = "property" /\ Condition.operator \in {"equals", "not_equals", "starts_with", "contains"}
    /\ Condition.value.type # "string"

(* Whichever client an application uses, a request is sent to the same     *)
(* models in the same order, also across midnight, at equal priorities and *)
(* for every type of property; the exceptions are an empty prefix, which   *)
(* only the SDKs accept, and a number or boolean that the Python SDK       *)
(* compares or spells in its own way.  The console predicts that order     *)
(* from rows that have not changed, unless a candidate is unavailable or a *)
(* condition that is not an override has expired, which the clients do not *)
(* look at, or the weights decide by the hash of the request.              *)
ClientsAgree ==
    result # None =>
        /\ EmptyPrefix \/ result.node = result.connector
        /\ Coerced \/ result.node = result.python
        /\ \/ EmptyPrefix \/ audience # plan.audience
           \/ \E i \in DOMAIN rows.targets : ~rows.targets[i].active
           \/ rows.rules[1].enabled /\ Condition.kind # "override" /\ rows.rules[1].expires = "past"
           \/ Mode(rows.targets) = "weighted" /\ (result.request.point # 0 \/ result.request.user = None)
           \/ result.simulated = result.connector

WeekMinute(clock) == (clock.day - 1) * DayLength + clock.minute

(* The minutes of a week that a schedule means: from each of its days, for *)
(* as long as it lasts, into the next day if need be.                      *)
Hours(s) ==
    {((d - 1) * DayLength + s.from + i) % (7 * DayLength) :
        d \in s.days, i \in 0..(((s.to - s.from) % DayLength) - 1)}

(* Every route a client takes lists each available model once; of all      *)
(* hash values each model of the default route gets exactly its weight's   *)
(* share; and a schedule covers the minutes of the week it means.          *)
RoutesAreExact ==
    /\ result # None =>
        /\ \A route \in {result.node, result.python, result.connector} :
              ModelsOf(route) = ModelsOf(plan.targets) /\ Len(route) = Len(plan.targets)
        /\ Condition.kind = "schedule" =>
              (ScheduleMatches(Condition, result.request.clock)
                 <=> WeekMinute(result.request.clock) \in Hours(Condition))
    /\ plan # None /\ result = None =>
        \A i \in DOMAIN plan.targets :
            Cardinality({p \in 0..(Points - 1) :
                            OrderedTargets(plan.targets, "weighted", p)[1] = plan.targets[i]})
              * Cumulative(plan.targets, Len(plan.targets)) = plan.targets[i].weight * Points

(* A request is routed the same by every client, as the console predicts,  *)
(* and to models in their published order, share and hours.                *)
RoutingIsConsistent == ClientsAgree /\ RoutesAreExact
=============================================================================
