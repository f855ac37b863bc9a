--------------------------- MODULE UserDirectory ---------------------------
(***************************************************************************)
(* The users of an application, the copy of their profiles that the        *)
(* reports and the groups are computed from, and user groups.              *)
(*                                                                         *)
(* A user's row changes in PostgreSQL in a transaction that also enqueues  *)
(* a profile message; the id of the message is the version of the profile  *)
(* in ClickHouse, whatever the order in which messages arrive.  A group is *)
(* evaluated by the API or by the worker's refresher: both read the group, *)
(* load the profiles from ClickHouse, and store who matched in a           *)
(* transaction of their own.  A group action blocks or unblocks the        *)
(* members of the latest evaluation.                                       *)
(*                                                                         *)
(* One group stands for all of them.  A user has tags, a status and the    *)
(* time of the last event; every other field of a condition is compared    *)
(* the same way.                                                           *)
(***************************************************************************)
EXTENDS Integers, FiniteSets, FiniteSetsExt, Functions, Sequences, TLC

CONSTANTS Users,          \* external ids
          Existing,       \* rows a user may have at the start, projected already
          Changes,        \* changes the console asks for: [tags, status], None = left alone
          Definitions,    \* group definitions the console saves
          Requests,       \* console requests that change users
          Callers,        \* API requests that evaluate the group
          Workers,        \* worker processes that refresh it
          RefreshMinutes,
          MaxTime, MaxChanges, MaxEvaluations, MaxFaults,
          None

VARIABLES users,          \* application_users: None or [tags, status, lastSeen]
          open,           \* console requests under way
          nextId,         \* the outbox id sequence
          outbox,         \* committed profile messages
          sent,           \* ids of those ClickHouse holds
          inbox,          \* users of accepted events that are not committed yet
          committing,     \* the event whose official commit is under way
          definitions,    \* every definition the group has had, by version
          group,          \* application_user_groups: [enabled, evaluatedAt]
          evaluations,    \* application_user_group_evaluations with their members
          jobs,           \* evaluations under way
          lock,           \* the Redis key of the refresher
          actions,        \* application_user_group_bulk_actions
          clock, changes, faults

directory == <<users, open, nextId, outbox, inbox, committing, changes>>
cohorts == <<definitions, group, evaluations, jobs, lock>>
vars == <<directory, cohorts, sent, actions, clock, faults>>

----------------------------------------------------------------------------
(* Profiles                                                                *)

Applied(row, change) ==
  [row EXCEPT !.tags = IF change.tags = None THEN @ ELSE change.tags,
              !.status = IF change.status = None THEN @ ELSE change.status]

\* Rows another open transaction has written are locked until it commits.
RowsFree(r, targets) ==
  \A q \in Requests \ {r} : open[q] # None => targets \cap DOMAIN open[q].rows = {}

Rows(targets, change) == [u \in targets |-> Applied(users[u], change)]

\* The payload of a profile message, mutated: the row read before the transaction.
ProfileOfCurrent(r, u) == open[r].current[u]

ProfilePayload(r, u) == open[r].rows[u]

BeginUpdate(r, u, change) ==
  /\ open[r] = None /\ changes < MaxChanges
  /\ users[u] # None
  /\ open' = [open EXCEPT ![r] = [step |-> "read", targets |-> {u}, change |-> change,
                                  current |-> (u :> users[u]), rows |-> <<>>]]
  /\ changes' = changes + 1
  /\ UNCHANGED <<users, nextId, outbox, inbox, committing, cohorts, sent, actions, clock, faults>>

Write(r) ==
  /\ open[r] # None /\ open[r].step = "read"
  /\ RowsFree(r, open[r].targets)
  /\ open' = [open EXCEPT ![r].step = "written", ![r].rows = Rows(open[r].targets, open[r].change)]
  /\ UNCHANGED <<users, nextId, outbox, inbox, committing, changes, cohorts, sent, actions, clock, faults>>

\* Created rows become visible, and their external id free, at the commit.
Create(r, u) ==
  /\ open[r] = None /\ changes < MaxChanges
  /\ users[u] = None /\ RowsFree(r, {u})
  /\ LET row == [tags |-> {}, status |-> "active", lastSeen |-> clock]
     IN open' = [open EXCEPT ![r] = [step |-> "written", targets |-> {u}, change |-> None,
                                     current |-> (u :> row), rows |-> (u :> row)]]
  /\ changes' = changes + 1
  /\ UNCHANGED <<users, nextId, outbox, inbox, committing, cohorts, sent, actions, clock, faults>>

Message(id, u, row, by, seen) == [id |-> id, user |-> u, row |-> row, by |-> by, seen |-> seen]

Ids == {m.id : m \in outbox}

\* The messages get their ids while the rows are locked, so nothing can tell
\* drawing them from committing.
EnqueueAndCommit(r) ==
  /\ open[r] # None /\ open[r].step = "written"
  /\ users' = open[r].rows @@ users
  /\ \E id \in [open[r].targets -> nextId .. nextId + Cardinality(open[r].targets) - 1] :
       /\ IsInjective(id)
       /\ outbox' = outbox \cup {Message(id[u], u, ProfilePayload(r, u), "console", Ids) : u \in open[r].targets}
  /\ nextId' = nextId + Cardinality(open[r].targets)
  /\ open' = [open EXCEPT ![r] = None]
  /\ UNCHANGED <<inbox, committing, changes, cohorts, sent, actions, clock, faults>>

\* The API accepts an event: the user's row is created or touched, and no profile is enqueued yet.
Ingest(u) ==
  /\ changes < MaxChanges
  /\ u \notin inbox /\ RowsFree(None, {u})
  /\ users' = [users EXCEPT ![u] = IF @ = None THEN [tags |-> {}, status |-> "active", lastSeen |-> clock]
                                   ELSE [@ EXCEPT !.lastSeen = clock]]
  /\ inbox' = inbox \cup {u}
  /\ changes' = changes + 1
  /\ UNCHANGED <<open, nextId, outbox, committing, cohorts, sent, actions, clock, faults>>

\* The worker's official commit: its snapshot of the row, then the messages it enqueues.
ReadUser(u) ==
  /\ committing = None /\ u \in inbox
  /\ committing' = [user |-> u, row |-> users[u], seen |-> Ids]
  /\ UNCHANGED <<users, open, nextId, outbox, inbox, changes, cohorts, sent, actions, clock, faults>>

CommitEvent ==
  /\ committing # None
  /\ outbox' = outbox \cup {Message(nextId, committing.user, committing.row, "event", committing.seen)}
  /\ nextId' = nextId + 1
  /\ inbox' = inbox \ {committing.user}
  /\ committing' = None
  /\ UNCHANGED <<users, open, changes, cohorts, sent, actions, clock, faults>>

Deliver(m) ==
  /\ m \in outbox /\ m.id \notin sent
  /\ sent' = sent \cup {m.id}
  /\ UNCHANGED <<directory, cohorts, actions, clock, faults>>

\* The view resolves the message with the highest id among those that arrived.
Profiles(u) == {m \in outbox : m.user = u /\ m.id \in sent}
CurrentProfile(u) == CHOOSE m \in Profiles(u) : \A n \in Profiles(u) : n.id <= m.id

----------------------------------------------------------------------------
(* Conditions                                                              *)

\* A scalar is a set of one value, an absent one the empty set.
FieldValue(row, field) ==
  CASE field = "tag" -> row.tags
    [] field = "status" -> {row.status}
    [] field = "last_seen_at" -> {row.lastSeen}

Ordered(actual, expected, operator) ==
  CASE operator = "greater_than" -> actual > expected
    [] operator = "at_least" -> actual >= expected
    [] operator = "less_than" -> actual < expected
    [] operator = "at_most" -> actual <= expected

Matches(row, condition) ==
  LET actual == FieldValue(row, condition.field)
  IN CASE condition.operator = "is_set" -> TRUE
       [] condition.operator = "is_not_set" -> FALSE
       [] condition.operator \in {"equals", "contains"} -> condition.value \in actual
       [] condition.operator = "not_equals" -> condition.value \notin actual
       [] condition.operator = "one_of" -> condition.value \cap actual # {}
       [] condition.operator = "between" ->
            \A v \in actual : Ordered(v, condition.value.min, "at_least") /\ Ordered(v, condition.value.max, "at_most")
       [] OTHER -> \A v \in actual : Ordered(v, condition.value, condition.operator)

EvaluateUserGroup(definition, row) ==
  IF definition.match = "all" THEN \A c \in definition.conditions : Matches(row, c)
  ELSE \E c \in definition.conditions : Matches(row, c)

Candidates == {u \in Users : Profiles(u) # {}}

Members(definition) == {u \in Candidates : EvaluateUserGroup(definition, CurrentProfile(u).row)}

----------------------------------------------------------------------------
(* Groups                                                                  *)

Version == Len(definitions)

SaveDefinition(d) ==
  /\ changes < MaxChanges
  /\ definitions' = Append(definitions, d)
  /\ group' = [group EXCEPT !.evaluatedAt = None]
  /\ changes' = changes + 1
  /\ UNCHANGED <<users, open, nextId, outbox, inbox, committing, evaluations, jobs, lock, sent, actions, clock, faults>>

SetEnabled ==
  /\ changes < MaxChanges
  /\ group' = [group EXCEPT !.enabled = ~@]
  /\ changes' = changes + 1
  /\ UNCHANGED <<users, open, nextId, outbox, inbox, committing, definitions, evaluations, jobs, lock, sent,
                 actions, clock, faults>>

IsLatest(e) == e \in evaluations /\ \A f \in evaluations : f.at <= e.at
Latest == IF evaluations = {} THEN {None} ELSE {e \in evaluations : IsLatest(e)}

Job(step, latest) == [step |-> step, version |-> Version, latest |-> latest, now |-> clock, members |-> {}]

MayStart == Cardinality(evaluations) + Cardinality({e \in DOMAIN jobs : jobs[e] # None}) < MaxEvaluations

StartEvaluate(e) ==
  /\ jobs[e] = None /\ group.enabled
  /\ MayStart
  /\ \E latest \in Latest : jobs' = [jobs EXCEPT ![e] = Job("load", latest)]
  /\ UNCHANGED <<directory, definitions, group, evaluations, lock, sent, actions, clock, faults>>

Due == group.enabled /\ IF group.evaluatedAt = None THEN TRUE ELSE group.evaluatedAt + RefreshMinutes <= clock

RefreshDue(w) ==
  /\ jobs[w] = None /\ Due
  /\ MayStart
  /\ jobs' = [jobs EXCEPT ![w] = Job("lock", None)]
  /\ UNCHANGED <<directory, definitions, group, evaluations, lock, sent, actions, clock, faults>>

\* SET NX: a worker that finds the key taken leaves the group to its owner.
AcquireLock(w) ==
  /\ jobs[w] # None /\ jobs[w].step = "lock"
  /\ IF lock = None THEN lock' = w /\ jobs' = [jobs EXCEPT ![w].step = "load"]
     ELSE jobs' = [jobs EXCEPT ![w] = None] /\ UNCHANGED lock
  /\ UNCHANGED <<directory, definitions, group, evaluations, sent, actions, clock, faults>>

LoadCandidates(e) ==
  /\ jobs[e] # None /\ jobs[e].step = "load"
  /\ jobs' = [jobs EXCEPT ![e].step = "store", ![e].members = Members(definitions[jobs[e].version])]
  /\ UNCHANGED <<directory, definitions, group, evaluations, lock, sent, actions, clock, faults>>

EvaluatedAt(latest, now) == IF latest # None /\ latest.at >= now THEN latest.at + 1 ELSE now

Store(e, latest) ==
  LET at == EvaluatedAt(latest, jobs[e].now)
  IN /\ evaluations' = evaluations \cup {[id |-> Cardinality(evaluations) + 1, by |-> e, version |-> jobs[e].version,
                                          members |-> jobs[e].members, at |-> at]}
     /\ group' = [group EXCEPT !.evaluatedAt = at]

\* The API stores what it computed for the version it read.
Evaluate(e) ==
  /\ e \in Callers /\ jobs[e] # None /\ jobs[e].step = "store"
  /\ Store(e, jobs[e].latest)
  /\ jobs' = [jobs EXCEPT ![e] = None]
  /\ UNCHANGED <<directory, definitions, lock, sent, actions, clock, faults>>

Released(w) == IF lock = w THEN None ELSE lock

GroupIsUnchanged(w) == group.enabled /\ jobs[w].version = Version

Refresh(w) ==
  /\ w \in Workers /\ jobs[w] # None /\ jobs[w].step = "store"
  /\ IF GroupIsUnchanged(w) THEN \E latest \in Latest : Store(w, latest)
     ELSE UNCHANGED <<evaluations, group>>
  /\ jobs' = [jobs EXCEPT ![w] = None]
  /\ lock' = Released(w)
  /\ UNCHANGED <<directory, definitions, sent, actions, clock, faults>>

\* A query fails, or the process dies and the key outlives it.
EvaluationFails(e) ==
  /\ jobs[e] # None /\ faults < MaxFaults
  /\ jobs' = [jobs EXCEPT ![e] = None]
  /\ lock' \in {lock, Released(e)}
  /\ faults' = faults + 1
  /\ UNCHANGED <<directory, definitions, group, evaluations, sent, actions, clock>>

LockExpires ==
  /\ lock # None /\ faults < MaxFaults
  /\ lock' = None
  /\ faults' = faults + 1
  /\ UNCHANGED <<directory, definitions, group, evaluations, jobs, sent, actions, clock>>

----------------------------------------------------------------------------
(* Group actions                                                           *)

ActsOn(e) == e # None /\ e.version = Version

\* The group with its latest evaluation; the members are blocked in a transaction that follows.
BeginAction(r, status) ==
  /\ open[r] = None /\ changes < MaxChanges
  /\ \E e \in Latest :
       /\ ActsOn(e)
       /\ open' = [open EXCEPT ![r] = [step |-> "read", targets |-> e.members,
                                       change |-> [tags |-> None, status |-> status],
                                       current |-> [u \in e.members |-> users[u]], rows |-> <<>>]]
       /\ actions' = actions \cup {[version |-> Version, targets |-> e.members]}
  /\ changes' = changes + 1
  /\ UNCHANGED <<users, nextId, outbox, inbox, committing, cohorts, sent, clock, faults>>

Tick ==
  /\ clock < MaxTime
  /\ clock' = clock + 1
  /\ UNCHANGED <<directory, cohorts, sent, actions, faults>>

Evaluators == Callers \cup Workers

Init ==
  /\ users \in [Users -> {None} \cup Existing]
  /\ outbox = {Message(0, u, users[u], "console", {}) : u \in {v \in Users : users[v] # None}}
  /\ sent = {0} /\ nextId = 1 /\ open = [r \in Requests |-> None] /\ inbox = {} /\ committing = None
  /\ definitions = <<CHOOSE d \in Definitions : TRUE>>
  /\ group = [enabled |-> TRUE, evaluatedAt |-> None]
  /\ evaluations = {} /\ jobs = [e \in Evaluators |-> None] /\ lock = None
  /\ actions = {} /\ clock = 0 /\ changes = 0 /\ faults = 0

Next ==
  \/ \E r \in Requests :
       \/ \E u \in Users : Create(r, u) \/ \E c \in Changes : BeginUpdate(r, u, c)
       \/ \E status \in {"active", "blocked"} : BeginAction(r, status)
       \/ Write(r) \/ EnqueueAndCommit(r)
  \/ \E u \in Users : Ingest(u) \/ ReadUser(u)
  \/ CommitEvent
  \/ \E m \in outbox : Deliver(m)
  \/ \E d \in Definitions : SaveDefinition(d)
  \/ SetEnabled
  \/ \E e \in Callers : StartEvaluate(e) \/ Evaluate(e)
  \/ \E w \in Workers : RefreshDue(w) \/ AcquireLock(w) \/ Refresh(w)
  \/ \E e \in Evaluators : LoadCandidates(e) \/ EvaluationFails(e)
  \/ LockExpires
  \/ Tick

Spec == Init /\ [][Next]_vars

----------------------------------------------------------------------------
(* Properties                                                              *)

Newest(u) == CHOOSE m \in outbox : m.user = u /\ \A n \in outbox : n.user = u => n.id <= m.id
Settled(u) ==
  /\ users[u] # None /\ \A r \in Requests : open[r] # None => u \notin open[r].targets
  /\ \E m \in outbox : m.user = u
  /\ \A m \in outbox : m.user = u => m.id \in sent

\* An event's commit that read the row before a change and got its id after the change's.
Overtaken(u) ==
  LET m == Newest(u)
  IN m.by = "event" /\ \E n \in outbox : n.user = u /\ n.by = "console" /\ n.id \notin m.seen /\ n.id < m.id

\* Once a user's messages have arrived, in any order, the profile ClickHouse
\* resolves has the tags and the status of the PostgreSQL row (user.service.ts
\* update, mapper.ts profile_version), unless an event's commit overtook the
\* change (base-outbox-messages.ts reads the row without locking it).
ProfilesFollowUsers ==
  \A u \in Users : Settled(u) /\ ~Overtaken(u) =>
    /\ CurrentProfile(u).row.tags = users[u].tags
    /\ CurrentProfile(u).row.status = users[u].status

\* Whoever an evaluation lists fitted the definition of its version in some
\* profile that was projected, and so did everyone a group action was run on.
MembersFit ==
  LET Fitted(u, version) == \E m \in outbox : m.user = u /\ EvaluateUserGroup(definitions[version], m.row)
  IN /\ \A e \in evaluations : \A u \in e.members : Fitted(u, e.version)
     /\ \A a \in actions : \A u \in a.targets : Fitted(u, a.version)

\* The refresher's evaluation is later than every one stored before it, and its
\* evaluations never go back to an older definition, even when the lock expired
\* under a slow worker (refresher.ts refresh).
RefreshesAreNewest ==
  \A e, f \in evaluations : e.by \in Workers /\ f.id < e.id =>
    f.at < e.at /\ (f.by \in Workers => f.version <= e.version)

\* The user directory and its groups: profiles follow the rows, members fit the
\* definition they are listed under, and refreshes only move forward.
DirectoryIsSound == ProfilesFollowUsers /\ MembersFit /\ RefreshesAreNewest
=============================================================================
