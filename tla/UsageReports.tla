---- MODULE UsageReports ----
(***************************************************************************)
(* Reports over stored usage: custom fields, filters, pages, exports and   *)
(* saved reports.  A report is read page by page: each request resolves    *)
(* its fields and user groups in PostgreSQL, then asks ClickHouse for the  *)
(* rows after a cursor and, in a second query, for their number, while     *)
(* usage arrives and administrators edit fields and groups.                *)
(* Texts are numbers, 0 the empty text; absent values are None.            *)
(***************************************************************************)
EXTENDS Integers, FiniteSets, FiniteSetsExt, Functions, Sequences, SequencesExt, TLC

CONSTANTS Events,         \* usage rows that may be stored
          Queries,        \* [conditions, match, dim]: what a reader asks for
          PageSizes,      \* page sizes a reader may ask for
          ExportSize,     \* rows of one export page
          MaxExport,      \* rows an export may hold
          FieldKeys,      \* keys of custom fields
          NewFields,      \* definitions an administrator may create
          Patches,        \* changes of a definition
          Memberships,    \* results an evaluation of the user group may have
          Editors,        \* administrators editing a field
          Drafts,         \* [name, kind, metric, uses]: reports that may be saved
          Reports,        \* identifiers of saved reports
          Savers,         \* requests on saved reports
          MaxChanges,     \* rows stored and edits made while reports are read
          MaxWalks,       \* reports read in one behaviour
          None

VARIABLES stored,         \* rows of current_usage_events_raw
          fields,         \* property_definitions by key
          editing,        \* field updates between their read and their write
          group,          \* one user group and its newest evaluation
          walk,           \* the report being read, page after page
          walks,          \* reports begun
          saved,          \* saved_reports by identifier
          cards,          \* dashboard cards: report identifier -> position
          ops,            \* requests on saved reports
          changes

vars == <<stored, fields, editing, group, walk, walks, saved, cards, ops, changes>>

ReportKinds == {"usage", "activity", "provider_cost", "aiu"}
Kinds == ReportKinds \cup {"export", "file", "details"}

-----------------------------------------------------------------------------
(* Custom fields *)

\* What create() stores: a sensitive field is neither searchable nor groupable.
NewField(f) == [f EXCEPT !.searchable = @ /\ ~f.sensitive, !.groupable = @ /\ ~f.sensitive]

\* The keys a reader could have seen unmasked while its request was running.
Opened(w, k, f) == IF w = None \/ f.sensitive THEN w ELSE [w EXCEPT !.open = @ \cup {k}]

CreateField(k) ==
  /\ changes > 0
  /\ fields[k] = None
  /\ \E f \in NewFields :
        /\ f.type = "TEXT_LIST" => ~f.groupable
        /\ fields' = [fields EXCEPT ![k] = NewField(f)]
        /\ walk' = Opened(walk, k, NewField(f))
  /\ changes' = changes - 1
  /\ UNCHANGED <<stored, editing, group, walks, saved, cards, ops>>

\* update() reads the row and decides on what it read ...
BeginUpdateField(x, k) ==
  /\ changes > 0
  /\ editing[x] = None
  /\ fields[k] # None
  /\ \E p \in Patches :
        /\ p.groupable = TRUE => fields[k].type # "TEXT_LIST"
        /\ editing' = [editing EXCEPT ![x] = [key |-> k, current |-> fields[k], patch |-> p]]
  /\ changes' = changes - 1
  /\ UNCHANGED <<stored, fields, group, walk, walks, saved, cards, ops>>

Given(value, current) == IF value = None THEN current ELSE value

\* ... the columns to write: a field it takes for sensitive loses both uses.
Patched(e, row) ==
  LET hidden == Given(e.patch.sensitive, e.current.sensitive)
  IN  [row EXCEPT !.searchable = ~hidden /\ Given(e.patch.searchable, @),
                  !.groupable = ~hidden /\ Given(e.patch.groupable, @),
                  !.sensitive = Given(e.patch.sensitive, @),
                  !.active = Given(e.patch.active, @)]

UpdateField(x) ==
  /\ editing[x] # None
  /\ LET k == editing[x].key
         row == Patched(editing[x], fields[k])
     IN  /\ fields' = [fields EXCEPT ![k] = row]
         /\ walk' = Opened(walk, k, row)
  /\ editing' = [editing EXCEPT ![x] = None]
  /\ UNCHANGED <<stored, group, walks, saved, cards, ops, changes>>

\* A row is stored only with fields that were defined when it was received.
Valid(e) == \A k \in FieldKeys : e.fields[k] # None => fields[k] # None

Store(e) ==
  /\ changes > 0
  /\ e \notin stored
  /\ Valid(e)
  /\ stored' = stored \cup {e}
  /\ changes' = changes - 1
  /\ UNCHANGED <<fields, editing, group, walk, walks, saved, cards, ops>>

\* The user group as reports see it: its definition and its newest evaluation.
RedefineGroup ==
  /\ changes > 0
  /\ group' = [group EXCEPT !.version = @ + 1]
  /\ changes' = changes - 1
  /\ UNCHANGED <<stored, fields, editing, walk, walks, saved, cards, ops>>

EvaluateGroup ==
  /\ changes > 0
  /\ \E m \in Memberships : group' = [group EXCEPT !.evaluated = group.version, !.members = m]
  /\ changes' = changes - 1
  /\ UNCHANGED <<stored, fields, editing, walk, walks, saved, cards, ops>>

-----------------------------------------------------------------------------
(* Filters *)

OperatorsByType ==
  [NUMBER    |-> {"equals", "not_equals", "greater_than", "less_or_equal", "between", "is_set", "is_not_set"},
   TEXT_LIST |-> {"contains_any", "contains_all", "is_set", "is_not_set"}]

IsProperty(c) == c.field \in FieldKeys

\* resolveReportProperties on one condition, with the definitions it read.
Searchable(c) ==
  LET f == fields[c.field]
  IN  /\ f # None
      /\ f.active /\ f.searchable /\ ~f.sensitive
      /\ c.operator \in OperatorsByType[f.type]
      /\ c.operator = "between" => c.values[1] <= c.values[2]

Groupable(k) ==
  LET f == fields[k]
  IN  f # None /\ f.active /\ f.groupable /\ f.type # "TEXT_LIST" /\ ~f.sensitive

\* A group is used with the members of an evaluation of its current definition.
GroupUsable == group.evaluated = group.version

Resolvable(q) ==
  /\ \A i \in DOMAIN q.conditions :
        LET c == q.conditions[i]
        IN  /\ IsProperty(c) => Searchable(c)
            /\ c.field = "user_group" => GroupUsable
  /\ q.dim \in FieldKeys => Groupable(q.dim)

\* The columns and members the resolved query carries to ClickHouse.
Resolved == [types |-> [k \in FieldKeys |-> IF fields[k] = None THEN None ELSE fields[k].type],
             members |-> group.members]

\* comparison(): several values of one condition are alternatives, except for "not_equals".
Comparison(x, op, vs) ==
  /\ x # None
  /\ CASE op = "is_set" -> TRUE
       [] op = "is_not_set" -> FALSE
       [] op = "between" -> vs[1] <= x /\ x <= vs[2]
       [] op \in {"equals", "one_of"} -> x \in Range(vs)
       [] op = "not_equals" -> x \notin Range(vs)
       [] op = "greater_than" -> \E v \in Range(vs) : x > v
       [] op = "less_or_equal" -> \E v \in Range(vs) : x <= v

TextComparison(x, op, vs) ==
  CASE op = "is_set" -> x # 0
    [] op = "is_not_set" -> x = 0
    [] OTHER -> Comparison(x, op, vs)

TagFilter(e, c) ==
  CASE c.operator = "is_set" -> e.tags # {}
    [] c.operator = "is_not_set" -> e.tags = {}
    [] c.operator = "not_equals" -> Range(c.values) \cap e.tags = {}
    [] OTHER -> Range(c.values) \cap e.tags # {}

PropertyFilter(e, c, type) ==
  LET x == e.fields[c.field]
  IN  CASE c.operator = "is_set" -> x # None
        [] c.operator = "is_not_set" -> x = None
        [] type = "TEXT_LIST" -> /\ x # None
                                 /\ IF c.operator = "contains_all" THEN Range(c.values) \subseteq x
                                                                   ELSE Range(c.values) \cap x # {}
        [] OTHER -> Comparison(x, c.operator, c.values)

CompileCondition(e, c, r) ==
  CASE c.field = "user_group" -> (e.user \in r.members) = (c.operator # "not_equals")
    [] c.field = "user_tag" -> TagFilter(e, c)
    [] c.field = "latency_ms" -> Comparison(e.latency, c.operator, c.values)
    [] IsProperty(c) -> PropertyFilter(e, c, r.types[c.field])
    [] OTHER -> TextComparison(e.model, c.operator, c.values)

\* Conditions on one field are alternatives; "match" joins the fields.
ClickHouseFilters(e, q, r) ==
  LET Holds(f) == \E i \in DOMAIN q.conditions :
                     q.conditions[i].field = f /\ CompileCondition(e, q.conditions[i], r)
      asked == {q.conditions[i].field : i \in DOMAIN q.conditions}
  IN  \/ asked = {}
      \/ q.match = "any" /\ \E f \in asked : Holds(f)
      \/ q.match = "all" /\ \A f \in asked : Holds(f)

-----------------------------------------------------------------------------
(* Pages *)

\* groupExpression: an event without tags counts under the empty one.
GroupKeys(e, dim) ==
  CASE dim = "user_tag" -> IF e.tags = {} THEN {0} ELSE e.tags
    [] dim \in FieldKeys -> {Given(e.fields[dim], 0)}
    [] OTHER -> {e.model}

\* The identities of the rows of a report, in the columns it orders by.
RowKeys(w, r) ==
  LET match == {e \in stored : ClickHouseFilters(e, w.query, r)}
  IN  CASE w.kind \in {"usage", "export"} -> {<<e.time, e.id>> : e \in match}
        [] w.kind \in {"file", "details"} -> {<<e.id, 0>> : e \in stored}
        [] w.kind = "provider_cost" ->
             UNION {GroupKeys(e, w.query.dim) \X {e.currency} : e \in {f \in match : f.currency # None}}
        [] OTHER -> UNION {GroupKeys(e, w.query.dim) \X {0} : e \in match}

Ascending(a, b) == a[1] < b[1] \/ (a[1] = b[1] /\ a[2] < b[2])
Precedes(kind, a, b) == IF kind \in {"usage", "export"} THEN Ascending(b, a) ELSE Ascending(a, b)

\* The cursor predicate, ORDER BY and LIMIT of one page.
FromCursor(w, keys) ==
  IF w.cursor = None THEN keys
  ELSE {k \in keys : k = w.cursor.key \/ Precedes(w.kind, w.cursor.key, k)}
AfterCursor(w, keys) ==
  IF w.cursor = None THEN keys ELSE {k \in keys : Precedes(w.kind, w.cursor.key, k)}
PageOf(w, keys) ==
  LET sorted == SetToSortSeq(AfterCursor(w, keys), LAMBDA a, b : Precedes(w.kind, a, b))
  IN  IF w.kind = "details" THEN sorted ELSE SubSeq(sorted, 1, Min({w.size, Len(sorted)}))

\* The queries a request makes, those of one element at the same time.
Plan(kind, first) ==
  CASE kind = "usage" -> <<{"rows", "total", "policy"}>>
    [] kind \in ReportKinds \ {"usage"} -> <<{"rows", "total"}>>
    [] kind = "export" -> IF first THEN <<{"policy"}, {"rows", "total"}>> ELSE <<{"rows"}>>
    [] kind = "file" -> IF first THEN <<{"total"}, {"rows"}>> ELSE <<{"rows"}>>
    [] kind = "details" -> <<{"rows"}, {"policy"}>>

Ended(w) == IF w = None THEN TRUE ELSE w.step \in {"done", "refused", "failed", "stalled"}
Visible == {k \in FieldKeys : fields[k] # None /\ ~fields[k].sensitive}
Hidden == {k \in FieldKeys : fields[k] # None /\ fields[k].sensitive}

\* exportUsage, report, find and generateUsageExport, up to their first query.
Begin(kind, size, q) ==
  /\ walks < MaxWalks
  /\ Ended(walk)
  /\ kind \in {"export", "file"} => size = ExportSize
  /\ kind \in {"file", "details"} => q.conditions = <<>> /\ q.dim \notin FieldKeys
  /\ walk' = [kind |-> kind, size |-> size, query |-> q, cursor |-> None, basis |-> None,
              resolved |-> None, plan |-> <<>>, rows |-> <<>>, counted |-> {}, start |-> {},
              seen |-> <<>>, policy |-> None, shown |-> {}, used |-> {}, open |-> FieldKeys \ Hidden,
              cut |-> FALSE, step |-> "resolve"]
  /\ walks' = walks + 1
  /\ UNCHANGED <<stored, fields, editing, group, saved, cards, ops, changes>>

\* resolveReportProperties, once per page of a report and once per export.
UsedFields(q) == FieldKeys \cap ({q.dim} \cup {q.conditions[i].field : i \in DOMAIN q.conditions})

Resolve ==
  /\ walk # None /\ walk.step = "resolve"
  /\ IF walk.kind \in ReportKinds \cup {"export"} /\ ~Resolvable(walk.query)
       THEN walk' = [walk EXCEPT !.step = "refused"]
       ELSE walk' = [walk EXCEPT !.step = "read", !.resolved = Resolved,
                                 !.plan = Plan(walk.kind, walk.cursor = None),
                                 !.used = @ \cup UsedFields(walk.query),
                                 !.basis = IF @ = None THEN Resolved ELSE @,
                                 !.start = IF walk.cursor = None THEN RowKeys(walk, Resolved) ELSE @]
  /\ UNCHANGED <<stored, fields, editing, group, walks, saved, cards, ops, changes>>

Rest(plan, x) == IF Head(plan) = {x} THEN Tail(plan) ELSE [plan EXCEPT ![1] = @ \ {x}]
Asks(x) == walk # None /\ walk.step = "read" /\ walk.plan # <<>> /\ x \in Head(walk.plan)

ReadRows ==
  /\ Asks("rows")
  /\ walk' = [walk EXCEPT !.plan = Rest(@, "rows"), !.rows = PageOf(walk, RowKeys(walk, walk.resolved))]
  /\ UNCHANGED <<stored, fields, editing, group, walks, saved, cards, ops, changes>>

\* "counted" are the rows count() saw: only their number is used.
ReadTotal ==
  /\ Asks("total")
  /\ LET keys == RowKeys(walk, walk.resolved)
     IN  walk' = [walk EXCEPT !.plan = Rest(@, "total"), !.counted = keys,
                              !.start = IF walk.kind = "file" THEN keys ELSE @,
                              !.step = IF walk.kind = "file" /\ Cardinality(keys) > MaxExport THEN "failed" ELSE @]
  /\ UNCHANGED <<stored, fields, editing, group, walks, saved, cards, ops, changes>>

\* loadUsageOutputPolicy: the keys to mask and the columns of a file.
LoadPolicy ==
  /\ Asks("policy")
  /\ walk' = [walk EXCEPT !.plan = Rest(@, "policy"),
                          !.policy = [columns |-> Visible,
                                      hidden |-> Hidden]]
  /\ UNCHANGED <<stored, fields, editing, group, walks, saved, cards, ops, changes>>

\* Fields of the rows of a page whose values leave the service.
Shown(w) ==
  LET rows == {e \in stored : (IF w.kind = "details" THEN <<e.id, 0>> ELSE <<e.time, e.id>>) \in Range(w.rows)}
      present == {k \in FieldKeys : \E e \in rows : e.fields[k] # None}
  IN  CASE w.kind \in {"usage", "details"} -> present \ w.policy.hidden
        [] w.kind = "export" -> present \cap w.policy.columns
        [] OTHER -> {}

Position(w) == (IF w.cursor = None THEN 0 ELSE w.cursor.position) + Len(w.rows)
MorePages(w) == w.rows # <<>> /\ Position(w) < Cardinality(w.counted)

\* The activity report takes an empty last key for no key at all.
CutShort(w) ==
  /\ w.kind = "activity" /\ MorePages(w)
  /\ w.query.dim \notin FieldKeys /\ Last(w.rows)[1] = 0

NextCursor(w) ==
  IF MorePages(w) /\ ~CutShort(w)
    THEN [kind |-> w.kind, dim |-> IF w.kind \in {"usage", "export"} THEN None ELSE w.query.dim,
          key |-> Last(w.rows), position |-> Position(w)]
    ELSE None

Answered(w) == [w EXCEPT !.seen = @ \o w.rows, !.rows = <<>>, !.shown = @ \cup Shown(w),
                         !.cut = CutShort(w), !.cursor = NextCursor(w)]

AnswerReport ==
  /\ walk # None /\ walk.step = "read" /\ walk.plan = <<>> /\ walk.kind \in ReportKinds
  /\ walk' = [Answered(walk) EXCEPT !.step = IF NextCursor(walk) = None THEN "done" ELSE "idle"]
  /\ UNCHANGED <<stored, fields, editing, group, walks, saved, cards, ops, changes>>

\* The next page is asked for with the cursor, which fits one report and grouping.
Continue(kind, dim) ==
  /\ walk # None /\ walk.step = "idle"
  /\ LET fits == kind = walk.cursor.kind /\ (kind = "usage" \/ dim = walk.cursor.dim)
     IN  walk' = IF fits THEN [walk EXCEPT !.step = "resolve", !.open = FieldKeys \ Hidden, !.shown = {}, !.used = {}]
                         ELSE [walk EXCEPT !.step = "refused"]
  /\ UNCHANGED <<stored, fields, editing, group, walks, saved, cards, ops, changes>>

\* exportUsage's generator: the total of the first page serves all of them.
AnswerExport ==
  /\ walk # None /\ walk.step = "read" /\ walk.plan = <<>> /\ walk.kind = "export"
  /\ walk' = CASE Cardinality(walk.counted) > MaxExport -> [walk EXCEPT !.step = "failed"]
               [] Len(walk.seen) + Len(walk.rows) > MaxExport -> [walk EXCEPT !.step = "failed"]
               [] NextCursor(walk) = None -> [Answered(walk) EXCEPT !.step = "done"]
               [] NextCursor(walk) = walk.cursor -> [Answered(walk) EXCEPT !.step = "stalled"]
               [] OTHER -> [Answered(walk) EXCEPT !.plan = Plan("export", FALSE)]
  /\ UNCHANGED <<stored, fields, editing, group, walks, saved, cards, ops, changes>>

\* generateUsageExport: pages by event id until one is short; then the count must fit.
WritePage ==
  /\ walk # None /\ walk.step = "read" /\ walk.plan = <<>> /\ walk.kind = "file"
  /\ LET w == [walk EXCEPT !.seen = @ \o walk.rows, !.rows = <<>>]
     IN  walk' = CASE Len(walk.rows) = walk.size ->
                        [w EXCEPT !.plan = Plan("file", FALSE), !.cursor = [key |-> Last(walk.rows), position |-> 0]]
                   [] Len(w.seen) = Cardinality(walk.counted) -> [w EXCEPT !.step = "done"]
                   [] OTHER -> [w EXCEPT !.step = "failed"]
  /\ UNCHANGED <<stored, fields, editing, group, walks, saved, cards, ops, changes>>

AnswerDetails ==
  /\ walk # None /\ walk.step = "read" /\ walk.plan = <<>> /\ walk.kind = "details"
  /\ walk' = [walk EXCEPT !.step = IF walk.rows = <<>> THEN "refused" ELSE "done", !.shown = Shown(walk)]
  /\ UNCHANGED <<stored, fields, editing, group, walks, saved, cards, ops, changes>>

-----------------------------------------------------------------------------
(* Saved reports and the dashboard *)

MetricFits(d) ==
  CASE d.kind = "cost" -> d.metric = "provider_cost"
    [] d.kind = "aiu" -> d.metric = "aiu"
    [] OTHER -> d.metric \notin {"provider_cost", "aiu"}

\* assertDefinitionFieldsAvailable
FieldsAvailable(d) ==
  /\ \A k \in d.uses : fields[k] # None /\ fields[k].active /\ fields[k].searchable /\ ~fields[k].sensitive
  /\ d.dim \in FieldKeys => Groupable(d.dim)

\* create, update, addDashboard, updateDashboard: read the row, then check its fields.
BeginSave(s) ==
  /\ changes > 0 /\ ops[s] = None
  /\ \/ \E d \in Drafts : /\ MetricFits(d)
                         /\ ops' = [ops EXCEPT ![s] = [do |-> "create", id |-> None, draft |-> d, step |-> "check"]]
     \/ \E i \in Reports, d \in Drafts :
          /\ saved[i] # None
          /\ MetricFits([d EXCEPT !.kind = saved[i].kind])
          /\ ops' = [ops EXCEPT ![s] = [do |-> "update", id |-> i, draft |-> d, step |-> "check"]]
     \/ \E i \in Reports : /\ saved[i] # None
                          /\ ops' = [ops EXCEPT ![s] = [do |-> "card", id |-> i, draft |-> saved[i], step |-> "check"]]
     \/ \E i \in Reports : /\ saved[i] # None
                          /\ ops' = [ops EXCEPT ![s] = [do |-> "remove", id |-> i, draft |-> saved[i], step |-> "cards"]]
  /\ changes' = changes - 1
  /\ UNCHANGED <<stored, fields, editing, group, walk, walks, saved, cards>>

CheckFields(s) ==
  /\ ops[s] # None /\ ops[s].step = "check"
  /\ ops' = [ops EXCEPT ![s] = IF FieldsAvailable(@.draft) THEN [@ EXCEPT !.step = "write"] ELSE None]
  /\ UNCHANGED <<stored, fields, editing, group, walk, walks, saved, cards, changes>>

\* Identifiers are new: no request holds the one of a report to come.
Fresh(i) == saved[i] = None /\ \A s \in {t \in Savers : ops[t] # None} : ops[s].id # i

NameFree(name, i) == \A j \in Reports \ {i} : saved[j] = None \/ saved[j].name # name

\* The insert or update, unless the unique name or the row's absence stops it.
SaveReport(s) ==
  /\ ops[s] # None /\ ops[s].step = "write" /\ ops[s].do \in {"create", "update"}
  /\ LET o == ops[s]
     IN  \E i \in Reports :
           /\ IF o.do = "update" THEN i = o.id ELSE Fresh(i)
           /\ saved' = IF ~NameFree(o.draft.name, i) \/ (o.do = "update" /\ saved[i] = None) THEN saved
                       ELSE [saved EXCEPT ![i] = IF o.do = "create" THEN o.draft
                                                 ELSE [o.draft EXCEPT !.kind = saved[i].kind]]
  /\ ops' = [ops EXCEPT ![s] = None]
  /\ UNCHANGED <<stored, fields, editing, group, walk, walks, cards, changes>>

\* A card's row, once deleted by a transaction, is locked until that commits.
CardLocked(i) == \E s \in Savers : ops[s] # None /\ ops[s].id = i /\ ops[s].step = "report"

\* addDashboard: the foreign key and the unique report decide.
AddCard(s) ==
  /\ ops[s] # None /\ ops[s].step = "write" /\ ops[s].do = "card"
  /\ LET i == ops[s].id
     IN  /\ ~(CardLocked(i) /\ cards[i] # None)
         /\ cards' = IF saved[i] = None \/ cards[i] # None THEN cards
                     ELSE [cards EXCEPT ![i] = Cardinality({j \in Reports : cards[j] # None})]
  /\ ops' = [ops EXCEPT ![s] = None]
  /\ UNCHANGED <<stored, fields, editing, group, walk, walks, saved, changes>>

RemoveCard(i) ==
  /\ changes > 0 /\ cards[i] # None /\ ~CardLocked(i)
  /\ cards' = [cards EXCEPT ![i] = None]
  /\ changes' = changes - 1
  /\ UNCHANGED <<stored, fields, editing, group, walk, walks, saved, ops>>

\* remove(): the cards, then the report, in one transaction.
DeleteCards(s) ==
  /\ ops[s] # None /\ ops[s].step = "cards"
  /\ ~CardLocked(ops[s].id)
  /\ ops' = [ops EXCEPT ![s].step = "report", ![s].draft = cards[ops[s].id]]
  /\ UNCHANGED <<stored, fields, editing, group, walk, walks, saved, cards, changes>>

\* A card that appeared after the first statement makes the second one fail.
Referenced(i, deleted) == cards[i] # None /\ deleted = None

DeleteReport(s) ==
  /\ ops[s] # None /\ ops[s].step = "report"
  /\ LET i == ops[s].id
     IN  IF Referenced(i, ops[s].draft) THEN UNCHANGED <<saved, cards>>
         ELSE saved' = [saved EXCEPT ![i] = None] /\ cards' = [cards EXCEPT ![i] = None]
  /\ ops' = [ops EXCEPT ![s] = None]
  /\ UNCHANGED <<stored, fields, editing, group, walk, walks, changes>>

-----------------------------------------------------------------------------
FieldSteps == \/ \E k \in FieldKeys : CreateField(k) \/ \E x \in Editors : BeginUpdateField(x, k)
              \/ \E x \in Editors : UpdateField(x)

DataSteps == (\E e \in Events : Store(e)) \/ RedefineGroup \/ EvaluateGroup

ReadSteps ==
  \/ \E kind \in Kinds, n \in PageSizes, q \in Queries : Begin(kind, n, q)
  \/ Resolve \/ ReadRows \/ ReadTotal \/ LoadPolicy
  \/ AnswerReport \/ AnswerExport \/ WritePage \/ AnswerDetails
  \/ \E kind \in ReportKinds, q \in Queries : Continue(kind, q.dim)

SaveSteps ==
  \/ \E s \in Savers : \/ BeginSave(s) \/ CheckFields(s) \/ SaveReport(s)
                       \/ AddCard(s) \/ DeleteCards(s) \/ DeleteReport(s)
  \/ \E i \in Reports : RemoveCard(i)

Init ==
  /\ fields \in [FieldKeys -> {None} \cup {NewField(f) : f \in NewFields}]
  /\ stored \in SUBSET {e \in Events : Valid(e)}
  /\ editing = [x \in Editors |-> None]
  /\ group = [version |-> 1, evaluated |-> 0, members |-> {}]
  /\ walk = None /\ walks = 0
  /\ saved = [i \in Reports |-> None]
  /\ cards = [i \in Reports |-> None]
  /\ ops = [s \in Savers |-> None]
  /\ changes \in 1..MaxChanges

Next == FieldSteps \/ DataSteps \/ ReadSteps \/ SaveSteps

Spec == Init /\ [][Next]_vars

-----------------------------------------------------------------------------
(* Properties *)

\* No page repeats or reorders what an earlier page of the same report showed.
PagesInOrder ==
  \A i, j \in DOMAIN walk.seen : i < j => Precedes(walk.kind, walk.seen[i], walk.seen[j])

\* A report read to its last page misses at most as many of the rows that were there when it
\* began as it shows rows that its last count had not seen; nothing is missed when nothing arrives.
PagesAreComplete ==
  (/\ walk.step = "done" /\ walk.kind \in ReportKinds \cup {"export"}
   /\ walk.resolved = walk.basis /\ ~walk.cut)
     => LET shown == Range(walk.seen)
        IN  Cardinality(walk.start \ shown) <= Cardinality(shown \ walk.counted)

\* A finished file of the worker holds exactly the rows that were counted first.
FilesAreExact == walk.step = "done" /\ walk.kind = "file" => Range(walk.seen) = walk.counted

ExportsAreBounded ==
  /\ walk.kind \in {"export", "file"} /\ walk.step = "done" => Len(walk.seen) <= MaxExport
  /\ walk.step # "stalled"

\* A field that stays sensitive while a request runs is neither shown, nor filtered, nor grouped by.
SensitiveStaysHidden == (walk.shown \cup walk.used) \subseteq walk.open

\* Saved reports have distinct names and a metric of their kind; every card shows one of them.
SavedReportsFit ==
  /\ \A i \in Reports : saved[i] # None => NameFree(saved[i].name, i) /\ MetricFits(saved[i])
  /\ \A i \in Reports : cards[i] # None => saved[i] # None

\* Reports read page by page, files and saved reports are what queryAnalyticsUsage, the grouped
\* reports, exportUsage, generateUsageExport, maskUsageItem and SavedReportService promise,
\* whatever is stored, edited or removed between their queries.
ReportingIsSound ==
  /\ walk # None => /\ PagesInOrder /\ PagesAreComplete /\ FilesAreExact
                    /\ ExportsAreBounded /\ SensitiveStaysHidden
  /\ SavedReportsFit
====
