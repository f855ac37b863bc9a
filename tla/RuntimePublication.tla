------------------------- MODULE RuntimePublication -------------------------
(***************************************************************************)
(* The control plane's runtime configuration: the routing catalogue an     *)
(* administrator edits (connections, models, virtual models), the access   *)
(* state (blocked users, the application's own status), and the numbered   *)
(* configuration versions that publish, restore and every access change    *)
(* append for the clients to fetch.                                        *)
(*                                                                         *)
(* Publish and restore read their inputs with several concurrent queries   *)
(* OUTSIDE a transaction and only then open one to retire the old version  *)
(* and insert the new one.  An access change reads inside its own          *)
(* transaction, but that transaction is READ COMMITTED, so each statement  *)
(* sees a different database.  Every such read is a step of its own here.  *)
(* A catalogue edit is one read and one write of a row; it is one step.    *)
(***************************************************************************)
EXTENDS Integers, Sequences, FiniteSets

CONSTANTS
  Connections, Models, VirtualModels,  \* identifiers of catalogue rows
  Users,         \* application users
  Admins,        \* concurrent administration requests
  None,          \* no default model
  Base,          \* the catalogue rows that exist to begin with
  BlockedLimit,  \* blocked users a snapshot may list (50,000)
  MaxEdits,      \* catalogue edits of one behaviour
  MaxRequests,   \* publish, restore and access requests of one behaviour
  MaxOperations  \* edits and requests together

VARIABLES
  connections,   \* connection -> "absent", "on" or "off"
  models,        \* model -> its state and its connection
  virtuals,      \* virtual model -> its state, targets, default, rule targets
  blocked,       \* the users whose status is BLOCKED
  application,   \* the application row: active, archived
  versions,      \* runtime_configuration_versions, indexed by version
  lastPublished, \* virtual model -> lastPublishedVersion, 0 when null
  request,       \* admin -> the request being served
  edits, started \* the two budgets

catalogue == <<connections, models, virtuals>>
access == <<blocked, application>>
published == <<versions, lastPublished>>
vars == <<catalogue, access, published, request, edits, started>>

ASSUME BaseAssumption ==
  /\ Base \subseteq Connections \cup Models \cup VirtualModels
  /\ Connections \cap Base # {} /\ Models \cap Base # {} /\ VirtualModels \cap Base # {}
ASSUME BoundsAssumption == {MaxEdits, MaxRequests, MaxOperations, BlockedLimit} \subseteq Nat

RowStates == {"absent", "on", "off"}
Idle == [call |-> "none"]

Model(state, connection) == [state |-> state, connection |-> connection]
Virtual(state, targets, default, rules) ==
  [state |-> state, targets |-> targets, default |-> default, rules |-> rules]

-----------------------------------------------------------------------------
(* The catalogue.                                                          *)

\* A model a route may name: itself and its connection enabled.
Available(m) == models[m].state = "on" /\ connections[models[m].connection] = "on"

\* What the foreign keys of virtual_models, their targets and rules refer to.
Referenced(m) ==
  \E v \in VirtualModels : m \in virtuals[v].targets \cup virtuals[v].rules \cup {virtuals[v].default}

Within == edits + started < MaxOperations
Edit ==
  /\ edits < MaxEdits /\ Within /\ edits' = edits + 1
  /\ UNCHANGED <<access, versions, request, started>>
KeepPublished == UNCHANGED lastPublished

CreateConnection(c) ==
  /\ Edit /\ KeepPublished
  /\ connections[c] = "absent"
  /\ connections' = [connections EXCEPT ![c] = "on"]
  /\ UNCHANGED <<models, virtuals>>

UpdateConnection(c, state) ==
  /\ Edit /\ KeepPublished
  /\ connections[c] # "absent" /\ state # "absent"
  /\ connections' = [connections EXCEPT ![c] = state]
  /\ UNCHANGED <<models, virtuals>>

DeleteConnection(c) ==
  /\ Edit /\ KeepPublished
  /\ connections[c] # "absent"
  /\ \A m \in Models : models[m].state # "absent" => models[m].connection # c
  /\ connections' = [connections EXCEPT ![c] = "absent"]
  /\ UNCHANGED <<models, virtuals>>

CreateModel(m, c) ==
  /\ Edit /\ KeepPublished
  /\ models[m].state = "absent" /\ connections[c] # "absent"
  /\ models' = [models EXCEPT ![m] = Model("on", c)]
  /\ UNCHANGED <<connections, virtuals>>

UpdateModel(m, state, c) ==
  /\ Edit /\ KeepPublished
  /\ models[m].state # "absent" /\ state # "absent" /\ connections[c] # "absent"
  /\ models' = [models EXCEPT ![m] = Model(state, c)]
  /\ UNCHANGED <<connections, virtuals>>

DeleteModel(m) ==
  /\ Edit /\ KeepPublished
  /\ models[m].state # "absent" /\ ~ Referenced(m)
  /\ models' = [models EXCEPT ![m].state = "absent"]
  /\ UNCHANGED <<connections, virtuals>>

CreateVirtualModel(v, default) ==
  /\ Edit /\ KeepPublished
  /\ virtuals[v].state = "absent"
  /\ default # None => Available(default)
  /\ virtuals' = [virtuals EXCEPT ![v] = Virtual("off", {}, default, {})]
  /\ UNCHANGED <<connections, models>>

\* Enabling needs a target; the default may be any available model.
UpdateVirtualModel(v, state, default) ==
  /\ Edit /\ KeepPublished
  /\ virtuals[v].state # "absent" /\ state # "absent"
  /\ state = "on" /\ virtuals[v].state = "off" => virtuals[v].targets # {}
  /\ default \notin {None, virtuals[v].default} => Available(default)
  /\ virtuals' = [virtuals EXCEPT ![v].state = state, ![v].default = default]
  /\ UNCHANGED <<connections, models>>

AddTarget(v, m) ==
  /\ Edit /\ KeepPublished
  /\ virtuals[v].state # "absent" /\ m \notin virtuals[v].targets
  /\ Available(m)
  /\ virtuals' = [virtuals EXCEPT ![v].targets = @ \cup {m},
                                  ![v].default = IF @ = None THEN m ELSE @]
  /\ UNCHANGED <<connections, models>>

\* Only the removal of the default re-elects one, or disables the model.
RemoveTarget(v, m) ==
  /\ Edit /\ KeepPublished
  /\ m \in virtuals[v].targets
  /\ LET rest == virtuals[v].targets \ {m}
         next == IF rest = {} THEN None ELSE CHOOSE other \in rest : TRUE
         was == virtuals[v]
     IN  virtuals' = [virtuals EXCEPT ![v] =
           IF was.default # m THEN Virtual(was.state, rest, was.default, was.rules)
           ELSE Virtual(IF rest = {} THEN "off" ELSE was.state, rest, next, was.rules)]
  /\ UNCHANGED <<connections, models>>

AddRule(v, m) ==
  /\ Edit /\ KeepPublished
  /\ m \in virtuals[v].targets
  /\ virtuals' = [virtuals EXCEPT ![v].rules = @ \cup {m}]
  /\ UNCHANGED <<connections, models>>

RemoveRule(v, m) ==
  /\ Edit /\ KeepPublished
  /\ m \in virtuals[v].rules
  /\ virtuals' = [virtuals EXCEPT ![v].rules = @ \ {m}]
  /\ UNCHANGED <<connections, models>>

(* A rule is pointed at another candidate; its match, priority and expiry  *)
(* only decide when it applies (RouteSelection).                           *)
UpdateRule(v, m, n) ==
  /\ Edit /\ KeepPublished
  /\ m \in virtuals[v].rules /\ n \in virtuals[v].targets
  /\ virtuals' = [virtuals EXCEPT ![v].rules = (@ \ {m}) \cup {n}]
  /\ UNCHANGED <<connections, models>>

DeleteVirtualModel(v) ==
  /\ Edit
  /\ virtuals[v].state # "absent"
  /\ virtuals' = [virtuals EXCEPT ![v] = Virtual("absent", {}, None, {})]
  /\ lastPublished' = [lastPublished EXCEPT ![v] = 0]
  /\ UNCHANGED <<connections, models>>

EditCatalogue ==
  \/ \E c \in Connections : CreateConnection(c) \/ DeleteConnection(c)
  \/ \E c \in Connections, state \in RowStates : UpdateConnection(c, state)
  \/ \E m \in Models, c \in Connections : CreateModel(m, c)
  \/ \E m \in Models, c \in Connections, state \in RowStates : UpdateModel(m, state, c)
  \/ \E m \in Models : DeleteModel(m)
  \/ \E v \in VirtualModels, m \in Models \cup {None} : CreateVirtualModel(v, m)
  \/ \E v \in VirtualModels, m \in Models \cup {None}, state \in RowStates : UpdateVirtualModel(v, state, m)
  \/ \E v \in VirtualModels, m \in Models : AddTarget(v, m) \/ RemoveTarget(v, m)
  \/ \E v \in VirtualModels, m \in Models : AddRule(v, m) \/ RemoveRule(v, m)
  \/ \E v \in VirtualModels, m, n \in Models : UpdateRule(v, m, n)
  \/ \E v \in VirtualModels : DeleteVirtualModel(v)

-----------------------------------------------------------------------------
(* Configuration versions.                                                 *)

Latest == Len(versions)
Snapshot(routing, carried, enabled, users) ==
  [routing |-> routing, connections |-> carried, enabled |-> enabled, blocked |-> users]
Served == versions[Latest].snapshot

\* activeTargets: the targets a virtual model can be published with, each
\* with the connection its model names.
ActiveTargets(v) ==
  {<<m, models[m].connection>> : m \in {t \in virtuals[v].targets : Available(t)}}

\* The virtual models as findMany returns them, with their usable targets.
EnabledVirtualModels ==
  [v \in {w \in VirtualModels : virtuals[w].state = "on"} |->
     [first |-> virtuals[v].default, targets |-> ActiveTargets(v), rules |-> virtuals[v].rules]]

Ids(targets) == {t[1] : t \in targets}

\* pushVirtualModelIssues: no route, or no usable default.
HasRouteIssue(plan) == plan.targets = {} \/ plan.first \notin Ids(plan.targets)

\* buildRules: a condition whose model is not a usable target.
HasRuleIssue(plan) == ~ (plan.rules \subseteq Ids(plan.targets))

\* The snapshot schema: a target's connection is among those carried.
Closed(routing, carried) ==
  \A v \in DOMAIN routing : \A t \in routing[v].targets : t[2] \in carried

BuildRuntimePublication(routing, carried, users) ==
  /\ DOMAIN routing # {}
  /\ \A v \in DOMAIN routing : ~ HasRouteIssue(routing[v]) /\ ~ HasRuleIssue(routing[v])
  /\ Closed(routing, carried)
  /\ Cardinality(users) <= BlockedLimit

\* The transaction that ends a publication: the PUBLISHED row is retired and
\* the next one inserted, or the unique index on the version refuses it all.
KeptPublished == versions
RetiredInPlace == [i \in 1..Latest |->
  [status |-> "RETIRED", snapshot |-> [versions[i].snapshot EXCEPT !.blocked = blocked]]]
Retired == [i \in 1..Latest |-> [versions[i] EXCEPT !.status = "RETIRED"]]
InsertVersion(snapshot) ==
  versions' = Append(Retired, [status |-> "PUBLISHED", snapshot |-> snapshot])

\* Publishing stamps every virtual model enabled at the commit.
StampVirtualModels ==
  lastPublished' = [v \in VirtualModels |->
                      IF virtuals[v].state = "on" THEN Latest + 1 ELSE lastPublished[v]]

-----------------------------------------------------------------------------
(* Requests of administrators.                                             *)

Begin(a, r) ==
  /\ request[a] = Idle /\ started < MaxRequests /\ Within
  /\ request' = [request EXCEPT ![a] = r]
  /\ started' = started + 1
  /\ UNCHANGED <<catalogue, access, published, edits>>

Finish(a) == request' = [request EXCEPT ![a] = Idle]
Working == UNCHANGED <<catalogue, edits, started>>

PublishReads == {"application", "connections", "virtualModels", "latest", "audience"}
RestoreReads == {"latest", "application", "audience"}

\* The value a query finds now.
Found(what) ==
  CASE what = "application"   -> application.active
    [] what = "connections"   -> {c \in Connections : connections[c] = "on"}
    [] what = "virtualModels" -> EnabledVirtualModels
    [] what = "latest"        -> Latest
    [] what = "audience"      -> blocked

\* What a request has read so far, and one value more.
Learned(got, what, value) ==
  [x \in DOMAIN got \cup {what} |-> IF x = what THEN value ELSE got[x]]

BeginPublish(a) == Begin(a, [call |-> "publish", got |-> <<>>])

\* The queries of one Promise.all, each on its own pooled connection.
ReadForPublish(a) ==
  /\ request[a].call = "publish"
  /\ \E what \in PublishReads \ DOMAIN request[a].got :
       request' = [request EXCEPT ![a].got = Learned(@, what, Found(what))]
  /\ Working /\ UNCHANGED <<access, published>>

Publish(a) ==
  /\ request[a].call = "publish" /\ DOMAIN request[a].got = PublishReads
  /\ LET got == request[a].got
         ok == BuildRuntimePublication(got["virtualModels"], got["connections"], got["audience"])
     IN  \/ /\ ok /\ got["latest"] = Latest
            /\ InsertVersion(Snapshot(got["virtualModels"], got["connections"],
                                      got["application"], got["audience"]))
            /\ StampVirtualModels
         \/ /\ ~ ok \/ got["latest"] # Latest
            /\ UNCHANGED published
  /\ Finish(a) /\ Working /\ UNCHANGED access

BeginRestore(a, source) ==
  source \in 1..Latest /\ Begin(a, [call |-> "restore", source |-> source, got |-> <<>>])

ReadForRestore(a) ==
  /\ request[a].call = "restore"
  /\ \E what \in RestoreReads \ DOMAIN request[a].got :
       request' = [request EXCEPT ![a].got = Learned(@, what, Found(what))]
  /\ Working /\ UNCHANGED <<access, published>>

RoutedModels(routing) == UNION {Ids(routing[v].targets) : v \in DOMAIN routing}

\* Every model the source routes to must still be enabled; the connections
\* and routing are the source's, the access state is the one read above.
CheckRestore(a) ==
  /\ request[a].call = "restore" /\ DOMAIN request[a].got = RestoreReads
  /\ LET source == versions[request[a].source].snapshot
     IN  \/ /\ \A m \in RoutedModels(source.routing) : models[m].state = "on"
            /\ request' = [request EXCEPT ![a].call = "restoring"]
         \/ /\ \E m \in RoutedModels(source.routing) : models[m].state # "on"
            /\ Finish(a)
  /\ Working /\ UNCHANGED <<access, published>>

Restore(a) ==
  /\ request[a].call = "restoring"
  /\ LET got == request[a].got
         source == versions[request[a].source].snapshot
         ok == got["latest"] = Latest /\ Cardinality(got["audience"]) <= BlockedLimit
     IN  \/ /\ ok
            /\ InsertVersion([source EXCEPT !.enabled = got["application"],
                                            !.blocked = got["audience"]])
         \/ ~ ok /\ UNCHANGED versions
  /\ Finish(a) /\ Working /\ UNCHANGED <<access, lastPublished>>

-----------------------------------------------------------------------------
(* Changes of access.                                                      *)

\* A change writes user rows or the application row, and publishes or not.
Change(call, users, block, active, archived, publishes) ==
  [call |-> call, users |-> users, block |-> block, active |-> active,
   archived |-> archived, publishes |-> publishes, got |-> <<>>]

\* user.service update: whether access changes is decided on a row read
\* before the transaction.
BeginUserUpdate(a, u, block) ==
  Begin(a, Change("change", {u}, block, application.active, application.archived,
                  block # (u \in blocked)))

\* user-group-actions setBlocked: the members of the group's evaluation.
BeginGroupAction(a, members, block) ==
  Begin(a, Change("change", members, block, application.active, application.archived, TRUE))

\* application.service update: refused for an archived application, on a row
\* read before the transaction; it never writes the archive mark.
BeginApplicationUpdate(a, active) ==
  /\ ~ application.archived
  /\ Begin(a, Change("application", {}, FALSE, active, FALSE, active # application.active))

BeginArchive(a) == Begin(a, Change("application", {}, FALSE, FALSE, TRUE, TRUE))

InTransaction(a) == request[a].call \in {"change", "application"} /\ DOMAIN request[a].got # {}

\* Row locks: the rows a change writes are free of other open transactions.
RowsUnclaimed(a) ==
  \A b \in Admins \ {a} : request[b].call = "change" => request[a].users \cap request[b].users = {}
RowsFree(a) ==
  \A b \in Admins \ {a} : InTransaction(b) =>
    /\ request[a].users \cap request[b].users = {}
    /\ "application" \notin {request[a].call} \cap {request[b].call}

\* What the transaction's own reads find: the committed rows and its writes.
OwnBlocked(r) == IF r.block THEN blocked \cup r.users ELSE blocked \ r.users
OwnApplication(r) ==
  IF r.call = "change" THEN application
  ELSE [active |-> r.active, archived |-> application.archived \/ r.archived]

\* A change that publishes nothing is one write.
CommitQuietly(a) ==
  /\ request[a].call \in {"change", "application"} /\ ~ request[a].publishes
  /\ RowsFree(a)
  /\ blocked' = OwnBlocked(request[a]) /\ application' = OwnApplication(request[a])
  /\ Finish(a) /\ Working /\ UNCHANGED published

\* The statements of publishWithin, in order; each sees what is committed.
AccessReads == <<"current", "application", "latest", "audience">>
AccessRead(n) == {AccessReads[i] : i \in 1..n}
AccessFound(r, what) ==
  CASE what = "current"     -> Latest
    [] what = "application" -> OwnApplication(r).active
    [] what = "latest"      -> Latest
    [] what = "audience"    -> OwnBlocked(r)

ReadWithin(a) ==
  /\ request[a].call \in {"change", "application"} /\ request[a].publishes
  /\ RowsFree(a)
  /\ \E n \in 1..Len(AccessReads) :
       /\ DOMAIN request[a].got = AccessRead(n - 1)
       /\ n > 1 => request[a].got["current"] > 0
       /\ request' = [request EXCEPT ![a].got =
                        Learned(@, AccessReads[n], AccessFound(request[a], AccessReads[n]))]
  /\ Working /\ UNCHANGED <<access, published>>

\* Without a published version there is nothing to publish: the change alone
\* commits.  Otherwise the new version keeps what the current one routes.
PublishWithin(a) ==
  /\ InTransaction(a)
  /\ LET r == request[a]
         commit == blocked' = OwnBlocked(r) /\ application' = OwnApplication(r)
         read == DOMAIN r.got = AccessRead(Len(AccessReads))
         ok == r.got["latest"] = Latest /\ Cardinality(r.got["audience"]) <= BlockedLimit
     IN  \/ r.got["current"] = 0 /\ commit /\ UNCHANGED published
         \/ /\ read /\ ok /\ commit
            /\ InsertVersion([versions[r.got["current"]].snapshot EXCEPT
                                !.enabled = r.got["application"], !.blocked = r.got["audience"]])
            /\ StampVirtualModels
         \/ read /\ ~ ok /\ UNCHANGED <<access, published>>
  /\ Finish(a) /\ Working

-----------------------------------------------------------------------------
\* The catalogue holds the rows of Base, built by the edits above, and has
\* been published once or not at all.
Init ==
  /\ connections = [c \in Connections |-> IF c \in Base THEN "on" ELSE "absent"]
  /\ models = [m \in Models |-> Model(IF m \in Base THEN "on" ELSE "absent",
                                      CHOOSE c \in Connections \cap Base : TRUE)]
  /\ virtuals = [v \in VirtualModels |->
       IF v \notin Base THEN Virtual("absent", {}, None, {})
       ELSE Virtual("on", Models \cap Base, CHOOSE m \in Models \cap Base : TRUE, {})]
  /\ blocked = {} /\ application = [active |-> TRUE, archived |-> FALSE]
  /\ \/ versions = <<>> /\ lastPublished = [v \in VirtualModels |-> 0]
     \/ /\ versions = <<[status |-> "PUBLISHED",
                         snapshot |-> Snapshot(EnabledVirtualModels, Connections \cap Base, TRUE, {})]>>
        /\ lastPublished = [v \in VirtualModels |-> IF v \in Base THEN 1 ELSE 0]
  /\ request = [a \in Admins |-> Idle]
  /\ edits = 0 /\ started = 0

BeginAccess(a) ==
  \/ \E u \in Users, block \in BOOLEAN : BeginUserUpdate(a, u, block)
  \/ \E members \in SUBSET Users, block \in BOOLEAN : BeginGroupAction(a, members, block)
  \/ \E active \in BOOLEAN : BeginApplicationUpdate(a, active)
  \/ BeginArchive(a)

Serve(a) ==
  \/ ReadForPublish(a) \/ Publish(a)
  \/ ReadForRestore(a) \/ CheckRestore(a) \/ Restore(a)
  \/ CommitQuietly(a) \/ ReadWithin(a) \/ PublishWithin(a)

Next ==
  \/ EditCatalogue
  \/ \E a \in Admins : BeginPublish(a) \/ BeginAccess(a) \/ Serve(a)
  \/ \E a \in Admins, source \in 1..Latest : BeginRestore(a, source)

Spec == Init /\ [][Next]_vars

\* A request that has begun is served to its end by the event loop.
FairSpec == Spec /\ \A a \in Admins : WF_vars(Serve(a))

-----------------------------------------------------------------------------
(* Properties.                                                             *)

SnapshotType ==
  [routing : UNION {[D -> [first : Models, targets : SUBSET (Models \X Connections), rules : SUBSET Models]] :
                      D \in SUBSET VirtualModels},
   connections : SUBSET Connections, enabled : BOOLEAN, blocked : SUBSET Users]

TypeOK ==
  /\ connections \in [Connections -> RowStates]
  /\ models \in [Models -> [state : RowStates, connection : Connections]]
  /\ virtuals \in [VirtualModels -> [state : RowStates, targets : SUBSET Models,
                                     default : Models \cup {None}, rules : SUBSET Models]]
  /\ blocked \subseteq Users /\ application \in [active : BOOLEAN, archived : BOOLEAN]
  /\ \A i \in 1..Latest : /\ versions[i].status \in {"PUBLISHED", "RETIRED"}
                          /\ versions[i].snapshot \in SnapshotType
  /\ lastPublished \in [VirtualModels -> 0..Latest]

\* However publications, restores and access changes overlap, exactly the
\* newest version is PUBLISHED, so snapshot.service serves one and the version
\* it serves never goes back; and every version a client may be sent can be
\* routed: it has a virtual model, each with its default among usable targets,
\* conditions that select one of them, and connections for all, although its
\* rows were read by separate queries while the catalogue was being edited.
Routable(snapshot) ==
  /\ DOMAIN snapshot.routing # {}
  /\ Closed(snapshot.routing, snapshot.connections)
  /\ \A v \in DOMAIN snapshot.routing :
       /\ snapshot.routing[v].first \in Ids(snapshot.routing[v].targets)
       /\ snapshot.routing[v].rules \subseteq Ids(snapshot.routing[v].targets)
PublicationInvariant ==
  /\ TypeOK
  /\ \A i \in 1..Latest : /\ versions[i].status = "PUBLISHED" <=> i = Latest
                          /\ Routable(versions[i].snapshot)
                          /\ Cardinality(versions[i].snapshot.blocked) <= BlockedLimit

\* A version is written once: publish, restore and publishWithin only append,
\* and change nothing of an earlier row but its status, so a version number
\* and ETag a client holds always name the same content.
HistoryIsKept ==
  [][/\ Len(versions') \in {Latest, Latest + 1}
     /\ \A i \in 1..Latest : /\ versions'[i].snapshot = versions[i].snapshot
                             /\ versions[i].status = "RETIRED" => versions'[i] = versions[i]]_vars

\* Every request comes to an end, published or refused: overlapping changes
\* that lock the same rows or race for the same version never wait for ever.
RequestsFinish == \A a \in Admins : request[a] # Idle ~> request[a] = Idle

=============================================================================
