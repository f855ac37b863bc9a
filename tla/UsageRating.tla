----------------------------- MODULE UsageRating -----------------------------
(***************************************************************************)
(* What one usage event costs and how many AIU it is charged: the rules of *)
(* a cost version and the rates of an AIU version applied by the worker.   *)
(*                                                                         *)
(* Decimals are integers.  A cost is counted in 1/Grid of the last decimal *)
(* place that is stored, an AIU amount in 1/Grid of a micro-AIU, so that   *)
(* both roundings are real.  Texts are 0 (empty), 1 ("B") and 2 ("a"): by  *)
(* code unit 1 comes before 2, in the locale's order 2 before 1.           *)
(***************************************************************************)
EXTENDS Integers, Sequences, FiniteSets, Functions, FiniteSetsExt

CONSTANTS
    Grid,         \* the finest fraction, a multiple of every unit size
    UnitSizes,    \* units an AIU rate is quoted for
    MaxQuantity,  \* usage of one line
    MaxLines,     \* usage lines of one event
    None

VARIABLES input, rated

vars == <<input, rated>>

-----------------------------------------------------------------------------
(* Conditions of a cost rule.                                              *)

Absent == [type |-> "absent"]
Number(n) == [type |-> "number", of |-> n]
Text(n) == [type |-> "string", of |-> n]
List(items) == [type |-> "list", items |-> items]

IsSet(value) ==
    /\ value # Absent
    /\ value.type = "string" => value.of # 0
    /\ value.type = "list" => value.items # {}

Equals(left, right) == left.type = right.type /\ left = right

(* The texts that one of them begins with, or contains.                    *)
Includes(text, part) == part = 0 \/ part = text

LocaleOrder(n) == (3 - n) % 3

(* value - expected, or localeCompare.                                     *)
Order(value, expected) ==
    IF value.type = "number" THEN value.of - expected.of
    ELSE LocaleOrder(value.of) - LocaleOrder(expected.of)

Comparable(value, expected) == value.type = expected.type /\ value.type \in {"number", "string"}

(* Mutant of Between: the upper end is left out.                           *)
BetweenExclusive(value, values) ==
    /\ Comparable(value, values[1]) /\ Comparable(value, values[2])
    /\ value.of >= values[1].of /\ value.of < values[2].of

(* Strings are compared by code unit here.                                 *)
Between(value, values) ==
    /\ Comparable(value, values[1]) /\ Comparable(value, values[2])
    /\ value.of >= values[1].of /\ value.of <= values[2].of

Comparison(value, condition) ==
    LET op == condition.operator
        values == condition.values
        some == \E i \in DOMAIN values : Equals(value, values[i])
        in(item) == item.type = "string" /\ item.of \in value.items
    IN
    CASE op = "is_set" -> IsSet(value)
      [] op = "is_not_set" -> ~IsSet(value)
      [] OTHER ->
         /\ IsSet(value)
         /\ CASE op = "equals" -> Equals(value, values[1])
              [] op = "not_equals" -> ~some
              [] op = "one_of" -> some
              [] op \in {"contains", "starts_with"} ->
                    value.type = "string" /\ values[1].type = "string" /\ Includes(value.of, values[1].of)
              [] op = "contains_any" -> value.type = "list" /\ \E i \in DOMAIN values : in(values[i])
              [] op = "contains_all" -> value.type = "list" /\ \A i \in DOMAIN values : in(values[i])
              [] op = "between" -> Between(value, values)
              [] OTHER ->
                 /\ Comparable(value, values[1])
                 /\ CASE op = "greater_than" -> Order(value, values[1]) > 0
                      [] op = "greater_or_equal" -> Order(value, values[1]) >= 0
                      [] op = "less_than" -> Order(value, values[1]) < 0
                      [] op = "less_or_equal" -> Order(value, values[1]) <= 0

-----------------------------------------------------------------------------
(* Cost.                                                                   *)

RuleMatches(rule, event) ==
    LET matches(i) == Comparison(event.value, rule.conditions[i])
    IN  \/ rule.conditions = <<>>
        \/ rule.match = "any" /\ \E i \in DOMAIN rule.conditions : matches(i)
        \/ rule.match = "all" /\ \A i \in DOMAIN rule.conditions : matches(i)

(* The rules are in the order of their priority.                           *)
MatchingRule(rules, event) ==
    LET matching == {i \in DOMAIN rules : RuleMatches(rules[i], event)}
    IN  IF matching = {} THEN None ELSE rules[Min(matching)]

(* ROUND_HALF_UP to a stored unit.                                         *)
HalfUp(n) == (2 * n + Grid) \div (2 * Grid)

Relevant(line) == line.quantity # 0 /\ line.type # "other"

Unpriced == [status |-> "unpriced", source |-> None, total |-> None, amounts |-> <<>>]

RateApplicationCost(version, event) ==
    LET rule == IF version = None THEN None ELSE MatchingRule(version, event)
        priced == SelectSeq(event.lines, LAMBDA l : Relevant(l) /\ l.type \in DOMAIN rule.rates)
        exact == [i \in DOMAIN priced |-> priced[i].quantity * rule.rates[priced[i].type]]
        fixed == IF rule.fixed = None THEN <<>> ELSE <<rule.fixed * Grid>>
        amounts == fixed \o exact
    IN  IF event.sourceCost # None
        THEN [status |-> "official", source |-> event.sourceCost.kind,
              total |-> HalfUp(event.sourceCost.amount), amounts |-> <<>>]
        ELSE IF rule = None THEN Unpriced
        ELSE [status |-> "official", source |-> "rule", total |-> HalfUp(SumFunction(amounts)),
              amounts |-> [i \in DOMAIN amounts |-> HalfUp(amounts[i])]]

-----------------------------------------------------------------------------
(* AIU.  Every line is rounded down and what the rounded total has more is *)
(* handed out to the largest fractions, the earlier line first.            *)

Fraction(raw) == raw % Grid

(* Mutant of Selected: the lines are taken in their order.                 *)
SelectedInOrder(raws, additions) == {i \in DOMAIN raws : i <= additions}

Selected(raws, additions) ==
    {i \in DOMAIN raws :
        Cardinality({j \in DOMAIN raws :
            \/ Fraction(raws[j]) > Fraction(raws[i])
            \/ Fraction(raws[j]) = Fraction(raws[i]) /\ j < i}) < additions}

RateApplicationAiu(version, lines) ==
    LET drafts == SelectSeq(lines, LAMBDA l : Relevant(l) /\ l.type # "request")
        missing == version = None \/ \E i \in DOMAIN drafts : drafts[i].type \notin DOMAIN version
        raws == [i \in DOMAIN drafts |->
                    drafts[i].quantity * (Grid \div version[drafts[i].type].size)
                      * version[drafts[i].type].micros]
        floors == [i \in DOMAIN raws |-> raws[i] \div Grid]
        target == HalfUp(SumFunction(raws))
        selected == Selected(raws, target - SumFunction(floors))
    IN  IF missing THEN [status |-> "unrated", total |-> None, raws |-> <<>>, charged |-> <<>>]
        ELSE [status |-> "official", total |-> target, raws |-> raws,
              charged |-> [i \in DOMAIN raws |-> floors[i] + IF i \in selected THEN 1 ELSE 0]]

-----------------------------------------------------------------------------
Scalars == {Number(n) : n \in 0..2} \cup {Text(n) : n \in 0..2}
Values == {Absent} \cup Scalars \cup {List(items) : items \in SUBSET {1, 2}}

Condition(op, values) == [operator |-> op, values |-> values]

Conditions ==
    {Condition(op, <<>>) : op \in {"is_set", "is_not_set"}}
    \cup {Condition(op, <<v>>) : v \in Scalars, op \in {"equals", "not_equals", "contains", "starts_with",
              "greater_than", "greater_or_equal", "less_than", "less_or_equal"}}
    \cup {Condition(op, <<v, w>>) : v, w \in Scalars,
              op \in {"not_equals", "one_of", "contains_any", "contains_all", "between"}}

Lines(types) == [type : types, quantity : 0..MaxQuantity]
Bounded(S) == UNION {[1..n -> S] : n \in 0..MaxLines}

Rule(match, conditions, fixed) ==
    [match |-> match, conditions |-> conditions, fixed |-> fixed, rates |-> [t \in {"input"} |-> Grid \div 2]]

CostVersions ==
    {None, <<>>}
    \cup {<<Rule("all", <<c>>, None), Rule("any", <<>>, 1)>> : c \in Conditions}
    \cup {<<Rule(mode, <<Condition("is_set", <<>>), Condition("equals", <<Number(1)>>)>>, 1)>> : mode \in {"any", "all"}}

AiuVersions ==
    {None} \cup UNION {[S -> [size : UnitSizes, micros : {1, 5}]] : S \in SUBSET {"input", "output"}}

CostLines == {<<[type |-> "input", quantity |-> q], [type |-> "other", quantity |-> 1],
                [type |-> "input", quantity |-> 1]>> : q \in 0..MaxQuantity}

(* An event is rated for its cost, or for its AIU.                         *)
Init ==
    /\ \/ \E version \in CostVersions, value \in Values, lines \in CostLines,
             cost \in {None, [kind |-> "reported", amount |-> 7], [kind |-> "reported_estimate", amount |-> 6]} :
             input = [kind |-> "cost", version |-> version,
                      event |-> [value |-> value, sourceCost |-> cost, lines |-> lines]]
       \/ \E version \in AiuVersions, lines \in Bounded(Lines({"input", "output", "request"})) :
             input = [kind |-> "aiu", version |-> version, lines |-> lines]
    /\ rated = None

Rate ==
    /\ rated = None
    /\ rated' = IF input.kind = "cost" THEN RateApplicationCost(input.version, input.event)
                ELSE RateApplicationAiu(input.version, input.lines)
    /\ UNCHANGED input

Next == Rate

Spec == Init /\ [][Next]_vars

-----------------------------------------------------------------------------
Abs(n) == IF n < 0 THEN -n ELSE n

(* The charges of the lines of an AIU rating add up to its total, which is *)
(* the exact amount rounded half up; a line is charged its exact amount    *)
(* rounded up or down, and a whole amount as it is.                        *)
ChargesAddUp ==
    /\ SumFunction(rated.charged) = rated.total
    /\ 2 * Abs(rated.total * Grid - SumFunction(rated.raws)) <= Grid
    /\ \A i \in DOMAIN rated.raws :
          /\ Abs(rated.charged[i] * Grid - rated.raws[i]) < Grid
          /\ \A j \in DOMAIN rated.raws :
                rated.charged[i] * Grid < rated.raws[i] /\ rated.charged[j] * Grid > rated.raws[j]
                  => Fraction(rated.raws[i]) <= Fraction(rated.raws[j])

(* The amounts listed with a cost differ from its total by no more than    *)
(* their own rounding.                                                     *)
AmountsAddUp == 2 * Abs(rated.total - SumFunction(rated.amounts)) <= Len(rated.amounts) + 1

(* On numbers the comparisons mean what their names say of each other.     *)
ComparisonsAgree(value, condition) ==
    LET holds(op) == Comparison(value, [condition EXCEPT !.operator = op])
        one == Len(condition.values) = 1
        first(op) == Comparison(value, Condition(op, <<condition.values[1]>>))
        second(op) == Comparison(value, Condition(op, <<condition.values[2]>>))
    IN  /\ condition.values # <<>> /\ IsSet(value) => holds("one_of") = ~holds("not_equals")
        /\ Len(condition.values) = 2 /\ value.type = "number" /\ condition.values[1].type = "number"
              /\ condition.values[2].type = "number" =>
                 holds("between") = (first("greater_or_equal") /\ second("less_or_equal"))
        /\ one /\ Comparable(value, condition.values[1]) /\ IsSet(value) =>
              /\ holds("less_than") = ~holds("greater_or_equal")
              /\ holds("greater_than") = ~holds("less_or_equal")
              /\ holds("equals") = (holds("less_or_equal") /\ holds("greater_or_equal"))

(* A rating is exact to the last unit and explains itself: rateApplication-*)
(* Aiu distributes its rounding over the lines, rateApplicationCost lists  *)
(* the amounts it added, and a rule applies by comparisons that agree with *)
(* each other.                                                             *)
RatingIsExact ==
    /\ rated # None /\ rated.status = "official" =>
          IF input.kind = "aiu" THEN ChargesAddUp ELSE rated.source = "rule" => AmountsAddUp
    /\ input.kind = "cost" /\ input.version \notin {None, <<>>} =>
          \A i \in DOMAIN input.version : \A k \in DOMAIN input.version[i].conditions :
              ComparisonsAgree(input.event.value, input.version[i].conditions[k])
=============================================================================
