---------------------------- MODULE ModelPricing ----------------------------
(***************************************************************************)
(* The numbered versions of a model's cost rules and of its AIU rates.  A  *)
(* save takes the time it began at as the version's effective time, reads  *)
(* the latest number outside a transaction, and then, in a READ COMMITTED  *)
(* transaction, retires what is published and creates the next version.    *)
(* Several administrators save at once while the worker rates events by    *)
(* the version in effect at the time of the event.                         *)
(***************************************************************************)
EXTENDS Integers, Sequences, FiniteSets, FiniteSetsExt

CONSTANTS Admins, MaxTime, MaxSaves, None

VARIABLES
    clock,
    versions,  \* table -> rows of number, status, effectiveFrom
    save,      \* admin -> the request being served
    fields,    \* whether the property a cost rule may look at is active
    saves      \* saves begun

vars == <<clock, versions, save, fields, saves>>

Tables == {"cost", "aiu"}
Idle == [at |-> "idle"]

Init ==
    /\ clock = 1
    /\ versions = [t \in Tables |-> {}]
    /\ save = [a \in Admins |-> Idle]
    /\ fields = TRUE
    /\ saves = 0

Numbers(t) == {v.version : v \in versions[t]}

(* orderBy effectiveFrom desc, version desc.                               *)
First(rows) ==
    IF rows = {} THEN None
    ELSE CHOOSE v \in rows : \A w \in rows :
             v.from > w.from \/ (v.from = w.from /\ v.version >= w.version)

(* What the console shows.                                                 *)
Get(t, at) == First({v \in versions[t] : v.status = "published" /\ v.from <= at})

(* Mutant of RatedBy: a retired version rates nothing.                     *)
RatedByCurrent(t, time) == First({v \in versions[t] : v.status = "published" /\ v.from <= time})

(* What the worker rates an event by.                                      *)
RatedBy(t, time) ==
    First({v \in versions[t] : v.status \in {"published", "retired"} /\ v.from <= time})

Holds(a) == save[a].at = "create"

Begin(a, t, uses) ==
    /\ save[a] = Idle /\ saves < MaxSaves
    /\ save' = [save EXCEPT ![a] = [at |-> "validate", table |-> t, from |-> clock, uses |-> uses]]
    /\ saves' = saves + 1
    /\ UNCHANGED <<clock, versions, fields>>

(* A rule may look only at an active property; the row is not locked.      *)
ValidateCostRuleProperties(a) ==
    /\ save[a].at = "validate" /\ save[a].table = "cost"
    /\ save' = [save EXCEPT ![a] = IF save[a].uses => fields THEN [@ EXCEPT !.at = "latest"] ELSE Idle]
    /\ UNCHANGED <<clock, versions, fields, saves>>

ReadLatestAiu(a) == save[a].at = "validate" /\ save[a].table = "aiu"

ReadLatest(a) ==
    /\ save[a].at = "latest" \/ ReadLatestAiu(a)
    /\ save' = [save EXCEPT ![a] =
          [at |-> "retire", table |-> @.table, from |-> @.from,
           next |-> Max(Numbers(@.table) \cup {0}) + 1]]
    /\ UNCHANGED <<clock, versions, fields, saves>>

(* updateMany waits for a transaction that has rows of its own to retire   *)
(* in this table, and then finds them retired.                             *)
Retire(a) ==
    /\ save[a].at = "retire"
    /\ \A b \in Admins : Holds(b) /\ save[b].table = save[a].table => save[b].rows = {}
    /\ save' = [save EXCEPT ![a] =
          [at |-> "create", table |-> @.table, from |-> @.from, next |-> @.next,
           rows |-> {v \in versions[@.table] : v.status = "published"}]]
    /\ UNCHANGED <<clock, versions, fields, saves>>

Retired(rows, gone) ==
    {IF v \in gone THEN [v EXCEPT !.status = "retired"] ELSE v : v \in rows}

(* Mutant of Unique: no index on the number.                               *)
UniqueNever(a) == TRUE

(* The index on application, model and version.                            *)
Unique(a) == save[a].next \notin Numbers(save[a].table)

(* Commits, or fails on the index and rolls the update back.               *)
Create(a) ==
    /\ Holds(a)
    /\ versions' = IF Unique(a)
                   THEN [versions EXCEPT ![save[a].table] = Retired(@, save[a].rows)
                           \cup {[version |-> save[a].next, status |-> "published", from |-> save[a].from]}]
                   ELSE versions
    /\ save' = [save EXCEPT ![a] = Idle]
    /\ UNCHANGED <<clock, fields, saves>>

Tick == clock < MaxTime /\ clock' = clock + 1 /\ UNCHANGED <<versions, save, fields, saves>>

DeactivateProperty == fields /\ fields' = FALSE /\ UNCHANGED <<clock, versions, save, saves>>

Next ==
    \/ Tick \/ DeactivateProperty
    \/ \E a \in Admins :
        \/ \E t \in Tables, uses \in BOOLEAN : (uses => t = "cost") /\ Begin(a, t, uses)
        \/ ValidateCostRuleProperties(a) \/ ReadLatest(a) \/ Retire(a) \/ Create(a)

Spec == Init /\ [][Next]_vars

-----------------------------------------------------------------------------
(* Whatever saves overlap, the versions of a table are numbered without    *)
(* gaps or doubles and exactly the newest one is published.                *)
NewestIsPublished ==
    \A t \in Tables :
        /\ Cardinality(versions[t]) = Cardinality(Numbers(t))
        /\ Numbers(t) = 1..Cardinality(Numbers(t))
        /\ \A v \in versions[t] : v.status = "published" <=> v.version = Max(Numbers(t))

(* The version that rates an event of the past is settled: it changes only *)
(* by a save that was begun no later than the event.                       *)
PastIsSettled ==
    \A t \in Tables, time \in 1..MaxTime :
        (/\ time < clock
         /\ \A a \in Admins : save[a] # Idle /\ save[a].table = t => save[a].from > time)
        => LET before == RatedBy(t, time)
               after == RatedBy(t, time)'
           IN  IF before = None THEN after = None
               ELSE after # None /\ after.version = before.version

(* saveCostRules and saveAiu keep one published version, the newest, and   *)
(* never change what an event of the past is rated by.                     *)
PricingIsSettled == [][PastIsSettled /\ NewestIsPublished']_vars
=============================================================================
