---------------------- MODULE RuntimePublicationProofs ----------------------
(***************************************************************************)
(* Proofs about RuntimePublication, for any catalogue, users, concurrent   *)
(* administrators and bounds.                                              *)
(*                                                                         *)
(* The argument: what a request has read is of the type of what it will    *)
(* publish (GotSound), and the version a restore or an access change takes *)
(* its routing from exists (IsRequest).  The history only grows, so both   *)
(* stay true while others publish.  Every version inserted is then either  *)
(* built by BuildRuntimePublication or repeats the routing of an earlier   *)
(* one, and its insertion retires the one before it.                       *)
(***************************************************************************)
EXTENDS RuntimePublication, FiniteSetTheorems, TLAPS

CatalogueType ==
    /\ connections \in [Connections -> RowStates]
    /\ models \in [Models -> [state : RowStates, connection : Connections]]
    /\ virtuals \in [VirtualModels -> [state : RowStates, targets : SUBSET Models,
                                       default : Models \cup {None}, rules : SUBSET Models]]
AccessType ==
    blocked \subseteq Users /\ application \in [active : BOOLEAN, archived : BOOLEAN]

(* The virtual models as a query finds them: the default may be unusable.  *)
IsRouting(routing) ==
    /\ DOMAIN routing \subseteq VirtualModels
    /\ routing \in [DOMAIN routing -> [first : Models \cup {None}, targets : SUBSET (Models \X Connections),
                                       rules : SUBSET Models]]

IsSnapshot(snapshot) ==
    /\ snapshot \in SnapshotType /\ Routable(snapshot)
    /\ Cardinality(snapshot.blocked) <= BlockedLimit

VersionType == [status : {"PUBLISHED", "RETIRED"}, snapshot : SnapshotType]
VersionsSound(vs) ==
    /\ vs \in Seq(VersionType)
    /\ \A i \in 1..Len(vs) : (vs[i].status = "PUBLISHED" <=> i = Len(vs)) /\ IsSnapshot(vs[i].snapshot)

(* What has been read while there are n versions.                          *)
GotSound(got, n) ==
    /\ "application" \in DOMAIN got => got["application"] \in BOOLEAN
    /\ "connections" \in DOMAIN got => got["connections"] \subseteq Connections
    /\ "virtualModels" \in DOMAIN got => IsRouting(got["virtualModels"])
    /\ "latest" \in DOMAIN got => got["latest"] \in Nat
    /\ "audience" \in DOMAIN got => got["audience"] \subseteq Users
    /\ "current" \in DOMAIN got => got["current"] \in 0..n

IsPublish(r, n) == r = [call |-> "publish", got |-> r.got] /\ GotSound(r.got, n)

IsRestore(r, n) ==
    /\ r = [call |-> r.call, source |-> r.source, got |-> r.got]
    /\ r.source \in 1..n /\ GotSound(r.got, n)
    /\ r.call = "restoring" => DOMAIN r.got = RestoreReads

IsChange(r, n) ==
    /\ r = [call |-> r.call, users |-> r.users, block |-> r.block, active |-> r.active,
            archived |-> r.archived, publishes |-> r.publishes, got |-> r.got]
    /\ r.users \subseteq Users /\ r.active \in BOOLEAN /\ r.archived \in BOOLEAN
    /\ GotSound(r.got, n)
    /\ DOMAIN r.got # {} => "current" \in DOMAIN r.got
    /\ "application" \in DOMAIN r.got => r.got["current"] > 0

IsRequest(r, n) ==
    /\ r.call \in {"none", "publish", "restore", "restoring", "change", "application"}
    /\ r.call = "none" => r = Idle
    /\ r.call = "publish" => IsPublish(r, n)
    /\ r.call \in {"restore", "restoring"} => IsRestore(r, n)
    /\ r.call \in {"change", "application"} => IsChange(r, n)

Requests(q, n) == q = [a \in Admins |-> q[a]] /\ \A a \in Admins : IsRequest(q[a], n)

(* The inductive invariant.                                                *)
PublicationInv ==
    /\ CatalogueType /\ AccessType
    /\ VersionsSound(versions) /\ lastPublished \in [VirtualModels -> 0..Latest]
    /\ Requests(request, Latest)

-----------------------------------------------------------------------------
(* Operators.                                                              *)

(* What was read stays usable while the history grows.                     *)
LEMMA GotGrows ==
    ASSUME NEW got, NEW n \in Nat, NEW m \in Nat, n <= m, GotSound(got, n)
    PROVE  GotSound(got, m)
<1>1. "current" \in DOMAIN got => got["current"] \in 0..m
  BY DEF GotSound
<1> QED BY <1>1, Zenon DEF GotSound

(* So does a whole request.                                                *)
LEMMA RequestGrows ==
    ASSUME NEW r, NEW n \in Nat, NEW m \in Nat, n <= m, IsRequest(r, n)
    PROVE  IsRequest(r, m)
<1>1. GotSound(r.got, n) => GotSound(r.got, m)
  BY GotGrows
<1>2. IsPublish(r, n) => IsPublish(r, m)
  BY <1>1, Zenon DEF IsPublish
<1>3. r.source \in 1..n => r.source \in 1..m
  OBVIOUS
<1>4. IsRestore(r, n) => IsRestore(r, m)
  BY <1>1, <1>3, Zenon DEF IsRestore
<1>5. IsChange(r, n) => IsChange(r, m)
  BY <1>1, Zenon DEF IsChange
<1> QED BY <1>2, <1>4, <1>5, Zenon DEF IsRequest

(* One request moves on while the history grows.                           *)
LEMMA OneRequest ==
    ASSUME NEW q, NEW a \in Admins, NEW r, NEW n \in Nat, NEW m \in Nat, n <= m,
           Requests(q, n), IsRequest(r, m)
    PROVE  Requests([q EXCEPT ![a] = r], m)
<1> DEFINE p == [q EXCEPT ![a] = r]
<1>1. \A b \in Admins : p[b] = IF b = a THEN r ELSE q[b]
  BY DEF Requests
<1>2. p = [b \in Admins |-> p[b]]
  BY DEF Requests
<1>3. \A b \in Admins : IsRequest(q[b], m)
  BY RequestGrows DEF Requests
<1>4. \A b \in Admins : IsRequest(p[b], m)
  <2> TAKE b \in Admins
  <2>1. CASE b = a
    <3>1. p[b] = r BY <1>1, <2>1
    <3> QED BY <3>1, Zenon
  <2>2. CASE b # a
    <3>1. p[b] = q[b] BY <1>1, <2>2
    <3> QED BY <3>1, <1>3, Zenon
  <2> QED BY <2>1, <2>2
<1> HIDE DEF p
<1>5. Requests(p, m)
  BY <1>2, <1>4, Zenon DEF Requests
<1> QED BY <1>5 DEF p

(* An idle request is one.                                                 *)
LEMMA IdleIsRequest ==
    ASSUME NEW n PROVE IsRequest(Idle, n)
BY DEF IsRequest, Idle

(* A request that has just begun has read nothing.                         *)
LEMMA NothingRead ==
    ASSUME NEW n PROVE GotSound(<<>>, n) /\ DOMAIN <<>> = {}
BY DEF GotSound

(* A query result of the right type keeps what was read sound.             *)
LEMMA LearnedValue ==
    ASSUME NEW got, NEW what, NEW value
    PROVE  /\ DOMAIN Learned(got, what, value) = DOMAIN got \cup {what}
           /\ Learned(got, what, value)[what] = value
           /\ \A x \in DOMAIN got : x # what => Learned(got, what, value)[x] = got[x]
BY DEF Learned

(* What EnabledVirtualModels returns, from rows of the catalogue's types.  *)
LEMMA EnabledIsRouting ==
    ASSUME CatalogueType PROVE IsRouting(EnabledVirtualModels)
<1>1. \A v \in VirtualModels : ActiveTargets(v) \in SUBSET (Models \X Connections)
  BY DEF CatalogueType, ActiveTargets
<1>2. \A v \in VirtualModels : virtuals[v].default \in Models \cup {None} /\ virtuals[v].rules \in SUBSET Models
  BY DEF CatalogueType
<1> QED BY <1>1, <1>2 DEF EnabledVirtualModels, IsRouting

(* A query of publish or restore adds a value of the right type.           *)
LEMMA FoundSound ==
    ASSUME PublicationInv, NEW got, GotSound(got, Latest), NEW what \in PublishReads
    PROVE  GotSound(Learned(got, what, Found(what)), Latest)
<1> DEFINE new == Learned(got, what, Found(what))
<1>1. /\ DOMAIN new = DOMAIN got \cup {what} /\ new[what] = Found(what)
      /\ \A x \in DOMAIN got : x # what => new[x] = got[x]
  BY DEF Learned
<1>2. Latest \in Nat
  BY DEF PublicationInv, VersionsSound, Latest
<1>3. what = "application" => Found(what) \in BOOLEAN
  BY DEF Found, PublicationInv, AccessType
<1>4. what = "connections" => Found(what) \subseteq Connections
  BY DEF Found
<1>5. what = "virtualModels" => IsRouting(Found(what))
  <2> SUFFICES ASSUME what = "virtualModels" PROVE IsRouting(Found(what))
    OBVIOUS
  <2>1. Found(what) = EnabledVirtualModels
    BY DEF Found
  <2> QED BY <2>1, EnabledIsRouting, Zenon DEF PublicationInv
<1>6. what = "latest" => Found(what) \in Nat
  BY <1>2 DEF Found
<1>7. what = "audience" => Found(what) \subseteq Users
  BY DEF Found, PublicationInv, AccessType
<1>8. what # "current"
  BY DEF PublishReads
<1> HIDE DEF new
<1>9. GotSound(new, Latest)
  BY <1>1, <1>3, <1>4, <1>5, <1>6, <1>7, <1>8 DEF GotSound
<1> QED BY <1>9 DEF new

(* What an access change's own transaction reads.                          *)
LEMMA OwnTypes ==
    ASSUME AccessType, NEW r, r.users \subseteq Users, r.active \in BOOLEAN, r.archived \in BOOLEAN
    PROVE  OwnBlocked(r) \subseteq Users /\ OwnApplication(r) \in [active : BOOLEAN, archived : BOOLEAN]
<1>1. OwnBlocked(r) \subseteq Users
  BY DEF OwnBlocked, AccessType
<1>2. (application.archived \/ r.archived) \in BOOLEAN
  OBVIOUS
<1>3. OwnApplication(r) \in [active : BOOLEAN, archived : BOOLEAN]
  BY <1>2 DEF OwnApplication, AccessType
<1> QED BY <1>1, <1>3

(* A schema-conforming publication is a snapshot of the right type: its    *)
(* defaults are targets, so they are models.                               *)
LEMMA BuiltIsSnapshot ==
    ASSUME NEW routing, NEW carried, NEW enabled \in BOOLEAN, NEW users,
           IsRouting(routing), carried \subseteq Connections, users \subseteq Users,
           BuildRuntimePublication(routing, carried, users)
    PROVE  IsSnapshot(Snapshot(routing, carried, enabled, users))
<1> DEFINE s == Snapshot(routing, carried, enabled, users)
<1>1. /\ s.routing = routing /\ s.connections = carried /\ s.blocked = users
  BY DEF Snapshot
<1>2. \A v \in DOMAIN routing : /\ routing[v].first \in Ids(routing[v].targets)
                                /\ routing[v].rules \subseteq Ids(routing[v].targets)
  BY DEF BuildRuntimePublication, HasRouteIssue, HasRuleIssue
<1>3. \A v \in DOMAIN routing :
        routing[v] \in [first : Models, targets : SUBSET (Models \X Connections), rules : SUBSET Models]
  <2> TAKE v \in DOMAIN routing
  <2>1. routing[v] \in [first : Models \cup {None}, targets : SUBSET (Models \X Connections),
                        rules : SUBSET Models]
    BY DEF IsRouting
  <2>2. \A t \in routing[v].targets : t[1] \in Models
    BY <2>1
  <2>3. routing[v].first \in Models
    BY <1>2, <2>2 DEF Ids
  <2> QED BY <2>1, <2>3
<1>4. routing \in [DOMAIN routing -> [first : Models, targets : SUBSET (Models \X Connections),
                                      rules : SUBSET Models]]
  BY <1>3 DEF IsRouting
<1>5. DOMAIN routing \in SUBSET VirtualModels
  BY DEF IsRouting
<1>6. s \in SnapshotType
  BY <1>4, <1>5 DEF Snapshot, SnapshotType
<1>7. Routable(s)
  BY <1>1, <1>2 DEF Routable, BuildRuntimePublication
<1>8. Cardinality(s.blocked) <= BlockedLimit
  BY <1>1 DEF BuildRuntimePublication
<1> QED BY <1>6, <1>7, <1>8 DEF IsSnapshot

(* An earlier version's routing with another access state.                 *)
LEMMA RepeatedIsSnapshot ==
    ASSUME NEW s, IsSnapshot(s), NEW enabled \in BOOLEAN, NEW users,
           users \subseteq Users, Cardinality(users) <= BlockedLimit
    PROVE  IsSnapshot([s EXCEPT !.enabled = enabled, !.blocked = users])
<1> DEFINE t == [s EXCEPT !.enabled = enabled, !.blocked = users]
<1>1. t \in SnapshotType /\ t.routing = s.routing /\ t.connections = s.connections /\ t.blocked = users
  BY DEF IsSnapshot, SnapshotType
<1> HIDE DEF t
<1>2. Routable(t)
  BY <1>1 DEF IsSnapshot, Routable
<1>3. IsSnapshot(t)
  BY <1>1, <1>2 DEF IsSnapshot
<1> QED BY <1>3 DEF t

(* One version more: the newest alone is PUBLISHED, and what was there     *)
(* keeps its content.                                                      *)
HistoryStep ==
    /\ Len(versions') \in {Latest, Latest + 1}
    /\ \A i \in 1..Latest : /\ versions'[i].snapshot = versions[i].snapshot
                            /\ versions[i].status = "RETIRED" => versions'[i] = versions[i]

LEMMA Inserted ==
    ASSUME VersionsSound(versions), NEW s, IsSnapshot(s), InsertVersion(s)
    PROVE  VersionsSound(versions') /\ Len(versions') = Latest + 1 /\ HistoryStep
<1> DEFINE new == [status |-> "PUBLISHED", snapshot |-> s]
<1>1. Latest \in Nat /\ \A i \in 1..Latest : versions[i] \in VersionType
  BY DEF VersionsSound, Latest
<1>2. \A i \in 1..Latest : /\ Retired[i] \in VersionType /\ Retired[i].status = "RETIRED"
                           /\ Retired[i].snapshot = versions[i].snapshot
                           /\ versions[i].status = "RETIRED" => Retired[i] = versions[i]
  BY <1>1 DEF Retired, VersionType
<1>3. Retired \in Seq(VersionType) /\ Len(Retired) = Latest
  <2>1. Retired = [i \in 1..Latest |-> Retired[i]]
    BY DEF Retired
  <2>2. Retired \in [1..Latest -> VersionType]
    BY <2>1, <1>2
  <2> QED BY <2>2, <1>1
<1>4. new \in VersionType /\ new.status = "PUBLISHED" /\ new.snapshot = s
  BY DEF VersionType, IsSnapshot
<1> HIDE DEF new
<1>5. versions' = Append(Retired, new)
  BY DEF InsertVersion, new
<1>6. /\ versions' \in Seq(VersionType) /\ Len(versions') = Latest + 1
      /\ versions'[Latest + 1] = new
      /\ \A i \in 1..Latest : versions'[i] = Retired[i]
  BY <1>1, <1>3, <1>4, <1>5
<1>7. \A i \in 1..Len(versions') :
        (versions'[i].status = "PUBLISHED" <=> i = Len(versions')) /\ IsSnapshot(versions'[i].snapshot)
  <2> TAKE i \in 1..Len(versions')
  <2>1. CASE i = Latest + 1
    <3>1. versions'[i] = new /\ i = Len(versions')
      BY <2>1, <1>6
    <3>2. versions'[i].snapshot = s /\ versions'[i].status = "PUBLISHED"
      BY <3>1, <1>4
    <3> QED BY <3>1, <3>2, Zenon
  <2>2. CASE i # Latest + 1
    <3>1. i \in 1..Latest /\ versions'[i] = Retired[i] /\ i # Len(versions')
      BY <2>2, <1>1, <1>6
    <3>2. versions'[i].snapshot = versions[i].snapshot /\ versions'[i].status # "PUBLISHED"
      BY <3>1, <1>2
    <3>3. IsSnapshot(versions[i].snapshot)
      BY <3>1, Zenon DEF VersionsSound, Latest
    <3> QED BY <3>1, <3>2, <3>3, Zenon
  <2> QED BY <2>1, <2>2
<1>8. VersionsSound(versions')
  BY <1>6, <1>7, Zenon DEF VersionsSound
<1>9. HistoryStep
  BY <1>2, <1>6 DEF HistoryStep
<1> QED BY <1>6, <1>8, <1>9

-----------------------------------------------------------------------------
(* The initial state, and edits of the catalogue.                          *)

LEMMA InitSound ==
    ASSUME Init PROVE PublicationInv
<1> USE BaseAssumption
<1>1. PICK c0 \in Connections \cap Base : c0 = CHOOSE c \in Connections \cap Base : TRUE
  BY DEF Init
<1>2. PICK m0 \in Models \cap Base : m0 = CHOOSE m \in Models \cap Base : TRUE
  BY DEF Init
<1>3. /\ connections = [c \in Connections |-> IF c \in Base THEN "on" ELSE "absent"]
      /\ models = [m \in Models |-> Model(IF m \in Base THEN "on" ELSE "absent", c0)]
      /\ virtuals = [v \in VirtualModels |->
           IF v \notin Base THEN Virtual("absent", {}, None, {}) ELSE Virtual("on", Models \cap Base, m0, {})]
  BY <1>1, <1>2 DEF Init
<1>4. CatalogueType
  BY <1>3 DEF CatalogueType, RowStates, Model, Virtual
<1>5. AccessType
  BY DEF Init, AccessType
<1>6. Requests(request, Latest)
  <2>1. request = [a \in Admins |-> Idle]
    BY DEF Init
  <2>2. request = [a \in Admins |-> request[a]] /\ \A a \in Admins : request[a] = Idle
    BY <2>1
  <2> QED BY <2>2, IdleIsRequest, Zenon DEF Requests
<1>7. CASE versions = <<>> /\ lastPublished = [v \in VirtualModels |-> 0]
  <2>1. VersionsSound(versions) /\ Latest = 0
    BY <1>7 DEF VersionsSound, Latest
  <2> QED BY <1>4, <1>5, <1>6, <1>7, <2>1 DEF PublicationInv
<1>8. CASE /\ versions = <<[status |-> "PUBLISHED",
                            snapshot |-> Snapshot(EnabledVirtualModels, Connections \cap Base, TRUE, {})]>>
           /\ lastPublished = [v \in VirtualModels |-> IF v \in Base THEN 1 ELSE 0]
  <2> DEFINE carried == Connections \cap Base
             s == Snapshot(EnabledVirtualModels, carried, TRUE, {})
  <2>1. IsRouting(EnabledVirtualModels)
    BY <1>4, EnabledIsRouting
  <2>2. PICK routing : routing = EnabledVirtualModels
    OBVIOUS
  <2>3. \A v \in VirtualModels \cap Base : ActiveTargets(v) = (Models \cap Base) \X {c0}
    BY <1>3 DEF ActiveTargets, Available, Model, Virtual
  <2>4. DOMAIN routing = VirtualModels \cap Base
    BY <1>3, <2>2 DEF EnabledVirtualModels, Virtual
  <2>5. \A v \in DOMAIN routing : /\ routing[v].first = m0 /\ routing[v].rules = {}
                                  /\ routing[v].targets = (Models \cap Base) \X {c0}
    BY <1>3, <2>2, <2>3, <2>4 DEF EnabledVirtualModels, Virtual
  <2>6. \A v \in DOMAIN routing : /\ <<m0, c0>> \in routing[v].targets
                                  /\ m0 \in Ids(routing[v].targets)
                                  /\ \A t \in routing[v].targets : t[2] = c0
    BY <2>5 DEF Ids
  <2>7. Closed(routing, carried)
    BY <2>6 DEF Closed
  <2>8. Cardinality({}) <= BlockedLimit
    BY FS_EmptySet, BoundsAssumption
  <2>9. BuildRuntimePublication(routing, carried, {})
    BY <2>4, <2>5, <2>6, <2>7, <2>8 DEF BuildRuntimePublication, HasRouteIssue, HasRuleIssue
  <2>10. carried \subseteq Connections /\ {} \subseteq Users /\ TRUE \in BOOLEAN
    OBVIOUS
  <2>11. IsSnapshot(Snapshot(routing, carried, TRUE, {}))
    <3> HIDE DEF carried
    <3> QED BY <2>1, <2>2, <2>9, <2>10, BuiltIsSnapshot
  <2>12. IsSnapshot(s)
    BY <2>2, <2>11
  <2> HIDE DEF s
  <2>13. versions = <<[status |-> "PUBLISHED", snapshot |-> s]>>
    BY <1>8 DEF s
  <2>14. Latest = 1 /\ versions \in Seq(VersionType) /\ versions[1].status = "PUBLISHED" /\ versions[1].snapshot = s
    BY <2>12, <2>13 DEF Latest, VersionType, IsSnapshot
  <2>15. VersionsSound(versions)
    BY <2>12, <2>14 DEF VersionsSound, Latest
  <2> QED BY <1>4, <1>5, <1>6, <1>8, <2>14, <2>15 DEF PublicationInv
<1> QED BY <1>7, <1>8 DEF Init

(* An edit keeps the rows' types and touches no version and no request.    *)
LEMMA EditSound ==
    ASSUME PublicationInv, EditCatalogue
    PROVE  PublicationInv' /\ HistoryStep
<1> USE DEF PublicationInv, CatalogueType
<1>1. Edit
  BY DEF EditCatalogue, CreateConnection, UpdateConnection, DeleteConnection, CreateModel, UpdateModel,
         DeleteModel, CreateVirtualModel, UpdateVirtualModel, AddTarget, RemoveTarget, AddRule, RemoveRule,
         UpdateRule, DeleteVirtualModel
<1>2. UNCHANGED <<blocked, application, versions, request>>
  BY <1>1 DEF Edit, access
<1>3. ASSUME NEW c \in Connections, CreateConnection(c) \/ DeleteConnection(c)
      PROVE  CatalogueType' /\ UNCHANGED lastPublished
  BY <1>3 DEF CreateConnection, DeleteConnection, KeepPublished, RowStates
<1>4. ASSUME NEW c \in Connections, NEW state \in RowStates, UpdateConnection(c, state)
      PROVE  CatalogueType' /\ UNCHANGED lastPublished
  BY <1>4 DEF UpdateConnection, KeepPublished
<1>5. ASSUME NEW m \in Models, NEW c \in Connections, CreateModel(m, c)
      PROVE  CatalogueType' /\ UNCHANGED lastPublished
  BY <1>5 DEF CreateModel, Model, KeepPublished, RowStates
<1>6. ASSUME NEW m \in Models, NEW c \in Connections, NEW state \in RowStates, UpdateModel(m, state, c)
      PROVE  CatalogueType' /\ UNCHANGED lastPublished
  BY <1>6 DEF UpdateModel, Model, KeepPublished
<1>7. ASSUME NEW m \in Models, DeleteModel(m)
      PROVE  CatalogueType' /\ UNCHANGED lastPublished
  BY <1>7 DEF DeleteModel, KeepPublished, RowStates
<1>8. ASSUME NEW v \in VirtualModels, NEW m \in Models \cup {None}, CreateVirtualModel(v, m)
      PROVE  CatalogueType' /\ UNCHANGED lastPublished
  BY <1>8 DEF CreateVirtualModel, Virtual, KeepPublished, RowStates
<1>9. ASSUME NEW v \in VirtualModels, NEW m \in Models \cup {None}, NEW state \in RowStates,
             UpdateVirtualModel(v, state, m)
      PROVE  CatalogueType' /\ UNCHANGED lastPublished
  BY <1>9 DEF UpdateVirtualModel, KeepPublished
<1>10. ASSUME NEW v \in VirtualModels, NEW m \in Models, AddTarget(v, m)
       PROVE  CatalogueType' /\ UNCHANGED lastPublished
  <2>1. virtuals[v].targets \cup {m} \in SUBSET Models
    OBVIOUS
  <2>2. PICK default \in Models \cup {None} :
          default = IF virtuals[v].default = None THEN m ELSE virtuals[v].default
    OBVIOUS
  <2>3. PICK targets \in SUBSET Models : targets = virtuals[v].targets \cup {m}
    BY <2>1
  <2>4. virtuals' = [virtuals EXCEPT ![v].targets = targets, ![v].default = default]
    BY <1>10, <2>2, <2>3 DEF AddTarget
  <2>5. UNCHANGED <<connections, models, lastPublished>>
    BY <1>10 DEF AddTarget, KeepPublished
  <2> QED BY <2>4, <2>5
<1>11. ASSUME NEW v \in VirtualModels, NEW m \in Models, RemoveTarget(v, m)
       PROVE  CatalogueType' /\ UNCHANGED lastPublished
  <2> DEFINE rest == virtuals[v].targets \ {m}
             was == virtuals[v]
  <2>1. PICK next : next = IF rest = {} THEN None ELSE CHOOSE other \in rest : TRUE
    OBVIOUS
  <2>2. rest \subseteq Models /\ next \in Models \cup {None}
    BY <2>1
  <2>3. PICK row : row = IF was.default # m THEN Virtual(was.state, rest, was.default, was.rules)
                         ELSE Virtual(IF rest = {} THEN "off" ELSE was.state, rest, next, was.rules)
    OBVIOUS
  <2>4. row \in [state : RowStates, targets : SUBSET Models, default : Models \cup {None}, rules : SUBSET Models]
    BY <2>2, <2>3 DEF Virtual, RowStates
  <2>5. virtuals' = [virtuals EXCEPT ![v] = row]
    BY <1>11, <2>1, <2>3 DEF RemoveTarget
  <2>6. UNCHANGED <<connections, models, lastPublished>>
    BY <1>11 DEF RemoveTarget, KeepPublished
  <2> HIDE DEF was, rest
  <2> QED BY <2>4, <2>5, <2>6
<1>12. ASSUME NEW v \in VirtualModels, NEW m \in Models, AddRule(v, m) \/ RemoveRule(v, m)
       PROVE  CatalogueType' /\ UNCHANGED lastPublished
  <2>1. PICK rules \in SUBSET Models : virtuals' = [virtuals EXCEPT ![v].rules = rules]
    <3>1. CASE AddRule(v, m)
      <4>1. virtuals[v].rules \cup {m} \in SUBSET Models
        OBVIOUS
      <4> QED BY <3>1, <4>1 DEF AddRule
    <3>2. CASE RemoveRule(v, m)
      <4>1. virtuals[v].rules \ {m} \in SUBSET Models
        OBVIOUS
      <4> QED BY <3>2, <4>1 DEF RemoveRule
    <3> QED BY <1>12, <3>1, <3>2
  <2>2. UNCHANGED <<connections, models, lastPublished>>
    BY <1>12 DEF AddRule, RemoveRule, KeepPublished
  <2> QED BY <2>1, <2>2
<1>13. ASSUME NEW v \in VirtualModels, DeleteVirtualModel(v)
       PROVE  CatalogueType' /\ lastPublished' \in [VirtualModels -> 0..Latest]
  <2>1. Latest \in Nat
    BY DEF VersionsSound, Latest
  <2> QED BY <1>13, <2>1 DEF DeleteVirtualModel, Virtual, RowStates
<1>14. ASSUME NEW v \in VirtualModels, NEW m \in Models, NEW n \in Models, UpdateRule(v, m, n)
       PROVE  CatalogueType' /\ UNCHANGED lastPublished
  <2>1. (virtuals[v].rules \ {m}) \cup {n} \in SUBSET Models
    OBVIOUS
  <2>2. PICK rules \in SUBSET Models : virtuals' = [virtuals EXCEPT ![v].rules = rules]
    BY <1>14, <2>1 DEF UpdateRule
  <2>3. UNCHANGED <<connections, models, lastPublished>>
    BY <1>14 DEF UpdateRule, KeepPublished
  <2> QED BY <2>2, <2>3
<1>15. CatalogueType' /\ lastPublished' \in [VirtualModels -> 0..Latest]
  BY <1>3, <1>4, <1>5, <1>6, <1>7, <1>8, <1>9, <1>10, <1>11, <1>12, <1>13, <1>14 DEF EditCatalogue
<1>16. Latest' = Latest /\ AccessType'
  BY <1>2 DEF Latest, AccessType
<1>17. HistoryStep
  BY <1>2 DEF HistoryStep, Latest
<1> QED BY <1>2, <1>15, <1>16, <1>17, Zenon

-----------------------------------------------------------------------------
(* Requests.                                                               *)

(* A step that only moves one request.                                     *)
Moves(a, r) ==
    /\ request' = [request EXCEPT ![a] = r] /\ IsRequest(r, Latest)
    /\ UNCHANGED <<connections, models, virtuals, blocked, application, versions, lastPublished>>

LEMMA MoveSound ==
    ASSUME PublicationInv, NEW a \in Admins, NEW r, Moves(a, r)
    PROVE  PublicationInv' /\ HistoryStep
<1>1. Latest \in Nat /\ Latest' = Latest
  BY DEF PublicationInv, VersionsSound, Latest, Moves
<1>2. Requests([request EXCEPT ![a] = r], Latest)
  <2>1. Latest <= Latest
    BY <1>1
  <2> QED BY <1>1, <2>1, OneRequest DEF PublicationInv, Moves
<1>3. Requests(request, Latest)'
  BY <1>1, <1>2 DEF Moves
<1>4. CatalogueType' /\ AccessType'
  BY DEF PublicationInv, Moves, CatalogueType, AccessType
<1>5. VersionsSound(versions)' /\ (lastPublished \in [VirtualModels -> 0..Latest])'
  BY <1>1 DEF PublicationInv, Moves
<1>6. HistoryStep
  BY <1>1 DEF HistoryStep, Moves, Latest
<1> QED BY <1>3, <1>4, <1>5, <1>6 DEF PublicationInv

(* A step that ends one request, commits an access state and leaves the    *)
(* history as it is.                                                       *)
Commits(a) ==
    /\ Finish(a) /\ AccessType'
    /\ UNCHANGED <<connections, models, virtuals, versions, lastPublished>>

LEMMA CommitSound ==
    ASSUME PublicationInv, NEW a \in Admins, Commits(a)
    PROVE  PublicationInv' /\ HistoryStep
<1>1. Latest \in Nat /\ Latest' = Latest /\ Latest <= Latest
  BY DEF PublicationInv, VersionsSound, Latest, Commits
<1>2. Requests([request EXCEPT ![a] = Idle], Latest)
  BY <1>1, OneRequest, IdleIsRequest DEF PublicationInv
<1>3. Requests(request, Latest)'
  BY <1>1, <1>2 DEF Commits, Finish
<1>4. CatalogueType' /\ AccessType'
  BY DEF PublicationInv, Commits, CatalogueType
<1>5. VersionsSound(versions)' /\ (lastPublished \in [VirtualModels -> 0..Latest])'
  BY <1>1 DEF PublicationInv, Commits
<1>6. HistoryStep
  BY <1>1 DEF HistoryStep, Commits, Latest
<1> QED BY <1>3, <1>4, <1>5, <1>6 DEF PublicationInv

(* A step that ends one request with a new version.                        *)
Inserts(a, s) ==
    /\ Finish(a) /\ AccessType' /\ IsSnapshot(s) /\ InsertVersion(s)
    /\ StampVirtualModels \/ UNCHANGED lastPublished
    /\ UNCHANGED <<connections, models, virtuals>>

LEMMA InsertSound ==
    ASSUME PublicationInv, NEW a \in Admins, NEW s, Inserts(a, s)
    PROVE  PublicationInv' /\ HistoryStep
<1>1. Latest \in Nat
  BY DEF PublicationInv, VersionsSound, Latest
<1>2. VersionsSound(versions') /\ Len(versions') = Latest + 1 /\ HistoryStep
  BY Inserted DEF PublicationInv, Inserts
<1>3. Latest' = Latest + 1 /\ Latest' \in Nat /\ Latest <= Latest'
  BY <1>1, <1>2 DEF Latest
<1>4. PICK n : n = Latest'
  OBVIOUS
<1>5. Requests([request EXCEPT ![a] = Idle], n)
  <2>1. n \in Nat /\ Latest <= n
    BY <1>3, <1>4
  <2> QED BY <1>1, <2>1, OneRequest, IdleIsRequest DEF PublicationInv
<1>6. Requests(request, Latest)'
  BY <1>4, <1>5 DEF Inserts, Finish
<1>7. CatalogueType' /\ AccessType'
  BY DEF PublicationInv, Inserts, CatalogueType
<1>8. lastPublished' \in [VirtualModels -> 0..n]
  BY <1>1, <1>3, <1>4 DEF PublicationInv, Inserts, StampVirtualModels
<1> QED BY <1>2, <1>4, <1>6, <1>7, <1>8 DEF PublicationInv

(* A request begins.                                                       *)
LEMMA BeginSound ==
    ASSUME PublicationInv, NEW a \in Admins, NEW r, IsRequest(r, Latest), Begin(a, r)
    PROVE  PublicationInv' /\ HistoryStep
<1>1. Moves(a, r)
  BY DEF Begin, Moves, catalogue, access, published
<1> QED BY <1>1, MoveSound

LEMMA BeginRequestsSound ==
    ASSUME PublicationInv, NEW a \in Admins,
           \/ BeginPublish(a) \/ BeginAccess(a)
           \/ \E source \in 1..Latest : BeginRestore(a, source)
    PROVE  PublicationInv' /\ HistoryStep
<1>1. CASE BeginPublish(a)
  <2> DEFINE r == [call |-> "publish", got |-> <<>>]
  <2>1. IsPublish(r, Latest)
    BY NothingRead DEF IsPublish
  <2>2. IsRequest(r, Latest)
    BY <2>1 DEF IsRequest
  <2> QED BY <1>1, <2>2, BeginSound DEF BeginPublish
<1>2. ASSUME NEW source \in 1..Latest, BeginRestore(a, source)
      PROVE  PublicationInv' /\ HistoryStep
  <2> DEFINE r == [call |-> "restore", source |-> source, got |-> <<>>]
  <2>1. IsRestore(r, Latest)
    BY NothingRead DEF IsRestore
  <2>2. IsRequest(r, Latest)
    BY <2>1 DEF IsRequest
  <2> QED BY <1>2, <2>2, BeginSound DEF BeginRestore
<1>3. ASSUME NEW call \in {"change", "application"}, NEW users \in SUBSET Users, NEW block,
             NEW active \in BOOLEAN, NEW archived \in BOOLEAN, NEW publishes
      PROVE  IsRequest(Change(call, users, block, active, archived, publishes), Latest)
  <2> DEFINE r == Change(call, users, block, active, archived, publishes)
  <2>1. /\ r = [call |-> r.call, users |-> r.users, block |-> r.block, active |-> r.active,
                archived |-> r.archived, publishes |-> r.publishes, got |-> r.got]
        /\ r.call = call /\ r.users \subseteq Users /\ r.active = active /\ r.archived = archived /\ r.got = <<>>
    BY DEF Change
  <2> HIDE DEF r
  <2>2. IsChange(r, Latest)
    BY <2>1, NothingRead DEF IsChange
  <2>3. IsRequest(r, Latest)
    BY <2>1, <2>2 DEF IsRequest
  <2> QED BY <2>3 DEF r
<1>4. application.active \in BOOLEAN /\ application.archived \in BOOLEAN
  BY DEF PublicationInv, AccessType
<1>5. CASE BeginAccess(a)
  <2>1. ASSUME NEW u \in Users, NEW block \in BOOLEAN, BeginUserUpdate(a, u, block)
        PROVE  PublicationInv' /\ HistoryStep
    <3>1. IsRequest(Change("change", {u}, block, application.active, application.archived,
                           block # (u \in blocked)), Latest)
      BY <1>3, <1>4
    <3> QED BY <2>1, <3>1, BeginSound DEF BeginUserUpdate
  <2>2. ASSUME NEW members \in SUBSET Users, NEW block \in BOOLEAN, BeginGroupAction(a, members, block)
        PROVE  PublicationInv' /\ HistoryStep
    <3>1. IsRequest(Change("change", members, block, application.active, application.archived, TRUE), Latest)
      BY <1>3, <1>4
    <3> QED BY <2>2, <3>1, BeginSound DEF BeginGroupAction
  <2>3. ASSUME NEW active \in BOOLEAN, BeginApplicationUpdate(a, active)
        PROVE  PublicationInv' /\ HistoryStep
    <3>1. IsRequest(Change("application", {}, FALSE, active, FALSE, active # application.active), Latest)
      BY <1>3
    <3> QED BY <2>3, <3>1, BeginSound DEF BeginApplicationUpdate
  <2>4. CASE BeginArchive(a)
    <3>1. IsRequest(Change("application", {}, FALSE, FALSE, TRUE, TRUE), Latest)
      BY <1>3
    <3> QED BY <2>4, <3>1, BeginSound DEF BeginArchive
  <2> QED BY <1>5, <2>1, <2>2, <2>3, <2>4 DEF BeginAccess
<1> QED BY <1>1, <1>2, <1>5

-----------------------------------------------------------------------------
(* Publish and restore.                                                    *)

LEMMA PublishSound ==
    ASSUME PublicationInv, NEW a \in Admins, ReadForPublish(a) \/ Publish(a)
    PROVE  PublicationInv' /\ HistoryStep
<1>1. PICK got : got = request[a].got
  OBVIOUS
<1>2. request[a] = [call |-> "publish", got |-> got] /\ GotSound(got, Latest)
  BY <1>1 DEF PublicationInv, Requests, IsRequest, IsPublish, ReadForPublish, Publish
<1>3. CASE ReadForPublish(a)
  <2>1. PICK what \in PublishReads :
          request' = [request EXCEPT ![a].got = Learned(request[a].got, what, Found(what))]
    BY <1>3 DEF ReadForPublish
  <2>2. PICK new : new = Learned(got, what, Found(what))
    OBVIOUS
  <2>3. GotSound(new, Latest)
    BY <1>2, <2>2, FoundSound
  <2> DEFINE r == [call |-> "publish", got |-> new]
  <2>4. [request[a] EXCEPT !.got = new] = r
    BY <1>2
  <2>5. request' = [request EXCEPT ![a] = r]
    BY <1>1, <2>1, <2>2, <2>4
  <2>6. IsPublish(r, Latest)
    BY <2>3 DEF IsPublish
  <2>7. IsRequest(r, Latest)
    BY <2>6 DEF IsRequest
  <2>8. Moves(a, r)
    BY <1>3, <2>5, <2>7 DEF Moves, ReadForPublish, Working, catalogue, access, published
  <2> QED BY <2>8, MoveSound
<1>4. CASE Publish(a)
  <2>1. /\ Finish(a) /\ UNCHANGED <<connections, models, virtuals, blocked, application>>
        /\ DOMAIN got = PublishReads
    BY <1>1, <1>4 DEF Publish, Working, catalogue, access
  <2>2. AccessType'
    BY <2>1 DEF PublicationInv, AccessType
  <2>3. CASE UNCHANGED published
    <3>1. Commits(a)
      BY <2>1, <2>2, <2>3 DEF Commits, published
    <3> QED BY <3>1, CommitSound
  <2>4. CASE ~ UNCHANGED published
    <3> DEFINE s == Snapshot(got["virtualModels"], got["connections"], got["application"], got["audience"])
    <3>1. /\ BuildRuntimePublication(got["virtualModels"], got["connections"], got["audience"])
          /\ InsertVersion(s) /\ StampVirtualModels
      BY <1>1, <1>4, <2>4 DEF Publish
    <3>2. /\ IsRouting(got["virtualModels"]) /\ got["connections"] \subseteq Connections
          /\ got["application"] \in BOOLEAN /\ got["audience"] \subseteq Users
      BY <1>2, <2>1 DEF GotSound, PublishReads
    <3>3. IsSnapshot(s)
      BY <3>1, <3>2, BuiltIsSnapshot
    <3> HIDE DEF s
    <3>4. Inserts(a, s)
      BY <2>1, <2>2, <3>1, <3>3 DEF Inserts
    <3> QED BY <3>4, InsertSound
  <2> QED BY <2>3, <2>4
<1> QED BY <1>3, <1>4

(* A version of the history, as restore and publishWithin take it.         *)
LEMMA HistoryIsSnapshot ==
    ASSUME PublicationInv, NEW i \in 1..Latest PROVE IsSnapshot(versions[i].snapshot)
BY DEF PublicationInv, VersionsSound, Latest

LEMMA RestoreSound ==
    ASSUME PublicationInv, NEW a \in Admins, ReadForRestore(a) \/ CheckRestore(a) \/ Restore(a)
    PROVE  PublicationInv' /\ HistoryStep
<1>1. PICK got, source, call : got = request[a].got /\ source = request[a].source /\ call = request[a].call
  OBVIOUS
<1>2. call \in {"restore", "restoring"}
  BY <1>1 DEF ReadForRestore, CheckRestore, Restore
<1>3. IsRestore(request[a], Latest)
  BY <1>1, <1>2 DEF PublicationInv, Requests, IsRequest
<1>4. /\ request[a] = [call |-> call, source |-> source, got |-> got] /\ GotSound(got, Latest)
      /\ source \in 1..Latest /\ (call = "restoring" => DOMAIN got = RestoreReads)
  BY <1>1, <1>3 DEF IsRestore
<1>5. ASSUME NEW new, NEW kind \in {"restore", "restoring"}, GotSound(new, Latest),
             kind = "restoring" => DOMAIN new = RestoreReads
      PROVE  IsRequest([call |-> kind, source |-> source, got |-> new], Latest)
  <2>1. IsRestore([call |-> kind, source |-> source, got |-> new], Latest)
    BY <1>4, <1>5 DEF IsRestore
  <2> QED BY <2>1 DEF IsRequest
<1>6. CASE ReadForRestore(a)
  <2>1. PICK what \in PublishReads :
          request' = [request EXCEPT ![a].got = Learned(request[a].got, what, Found(what))]
    BY <1>6 DEF ReadForRestore, RestoreReads, PublishReads
  <2>2. PICK new : new = Learned(got, what, Found(what))
    OBVIOUS
  <2>3. GotSound(new, Latest)
    BY <1>4, <2>2, FoundSound
  <2> DEFINE r == [call |-> "restore", source |-> source, got |-> new]
  <2>4. IsRequest(r, Latest)
    BY <1>5, <2>3
  <2>5. [request[a] EXCEPT !.got = new] = r
    BY <1>1, <1>4, <1>6 DEF ReadForRestore
  <2>6. request' = [request EXCEPT ![a] = r]
    BY <1>1, <2>1, <2>2, <2>5
  <2>7. Moves(a, r)
    BY <1>6, <2>4, <2>6 DEF Moves, ReadForRestore, Working, catalogue, access, published
  <2> QED BY <2>7, MoveSound
<1>7. CASE CheckRestore(a)
  <2>1. DOMAIN got = RestoreReads /\ UNCHANGED <<connections, models, virtuals, blocked, application,
                                                 versions, lastPublished>>
    BY <1>1, <1>7 DEF CheckRestore, Working, catalogue, access, published
  <2>2. CASE request' = [request EXCEPT ![a].call = "restoring"]
    <3> DEFINE r == [call |-> "restoring", source |-> source, got |-> got]
    <3>1. IsRequest(r, Latest)
      BY <1>4, <1>5, <2>1
    <3>2. request' = [request EXCEPT ![a] = r]
      <4>1. [request[a] EXCEPT !.call = "restoring"] = r
        BY <1>4
      <4> QED BY <2>2, <4>1
    <3>3. Moves(a, r)
      BY <2>1, <3>1, <3>2 DEF Moves
    <3> QED BY <3>3, MoveSound
  <2>3. CASE Finish(a)
    <3>1. Commits(a)
      BY <2>1, <2>3 DEF Commits, PublicationInv, AccessType
    <3> QED BY <3>1, CommitSound
  <2> QED BY <1>7, <2>2, <2>3 DEF CheckRestore
<1>8. CASE Restore(a)
  <2>1. /\ Finish(a) /\ UNCHANGED <<connections, models, virtuals, blocked, application, lastPublished>>
        /\ DOMAIN got = RestoreReads
    BY <1>1, <1>4, <1>8 DEF Restore, Working, catalogue, access
  <2>2. AccessType'
    BY <2>1 DEF PublicationInv, AccessType
  <2>3. CASE UNCHANGED versions
    <3>1. Commits(a)
      BY <2>1, <2>2, <2>3 DEF Commits
    <3> QED BY <3>1, CommitSound
  <2>4. CASE ~ UNCHANGED versions
    <3>1. PICK old : old = versions[source].snapshot
      OBVIOUS
    <3> DEFINE s == [old EXCEPT !.enabled = got["application"], !.blocked = got["audience"]]
    <3>2. Cardinality(got["audience"]) <= BlockedLimit /\ InsertVersion(s)
      BY <1>1, <1>8, <2>4, <3>1 DEF Restore
    <3>3. got["application"] \in BOOLEAN /\ got["audience"] \subseteq Users
      BY <1>4, <2>1 DEF GotSound, RestoreReads
    <3>4. IsSnapshot(old)
      BY <1>4, <3>1, HistoryIsSnapshot
    <3>5. IsSnapshot(s)
      BY <3>2, <3>3, <3>4, RepeatedIsSnapshot
    <3> HIDE DEF s
    <3>6. Inserts(a, s)
      BY <2>1, <2>2, <3>2, <3>5 DEF Inserts
    <3> QED BY <3>6, InsertSound
  <2> QED BY <2>3, <2>4
<1> QED BY <1>6, <1>7, <1>8

-----------------------------------------------------------------------------
(* Changes of access.                                                      *)

(* A statement of publishWithin adds a value of the right type, the first  *)
(* one the version whose routing is kept.                                  *)
LEMMA AccessFoundSound ==
    ASSUME PublicationInv, NEW r, IsChange(r, Latest), NEW n \in 1..4,
           DOMAIN r.got = AccessRead(n - 1), n > 1 => r.got["current"] > 0
    PROVE  LET new == Learned(r.got, AccessReads[n], AccessFound(r, AccessReads[n]))
           IN  /\ GotSound(new, Latest) /\ "current" \in DOMAIN new
               /\ "application" \in DOMAIN new => new["current"] > 0
<1>1. PICK what : what = AccessReads[n]
  OBVIOUS
<1>2. PICK value : value = AccessFound(r, what)
  OBVIOUS
<1>3. PICK new : new = Learned(r.got, what, value)
  OBVIOUS
<1>4. /\ DOMAIN new = DOMAIN r.got \cup {what} /\ new[what] = value
      /\ \A x \in DOMAIN r.got : x # what => new[x] = r.got[x]
  BY <1>3 DEF Learned
<1>5. Latest \in Nat
  BY DEF PublicationInv, VersionsSound, Latest
<1>6. OwnBlocked(r) \subseteq Users /\ OwnApplication(r) \in [active : BOOLEAN, archived : BOOLEAN]
  BY OwnTypes DEF PublicationInv, IsChange
<1>7. what = "application" => value \in BOOLEAN
  BY <1>2, <1>6 DEF AccessFound
<1>8. what \in {"current", "latest"} => value = Latest
  BY <1>2 DEF AccessFound
<1>9. what = "audience" => value \subseteq Users
  BY <1>2, <1>6 DEF AccessFound
<1>10. what \in {"current", "application", "latest", "audience"} /\ (n = 1 <=> what = "current")
  BY <1>1 DEF AccessReads
<1>11. n > 1 => "current" \in DOMAIN r.got
  <2> SUFFICES ASSUME n > 1 PROVE "current" \in AccessRead(n - 1)
    OBVIOUS
  <2>1. 1 \in 1..(n - 1) /\ AccessReads[1] = "current"
    BY DEF AccessReads
  <2> QED BY <2>1 DEF AccessRead
<1>12. GotSound(r.got, Latest)
  BY DEF IsChange
<1>13. n = 1 => DOMAIN r.got = {}
  BY DEF AccessRead
<1>14. what = "current" => new["current"] \in 0..Latest
  BY <1>4, <1>5, <1>8
<1>15. GotSound(new, Latest)
  BY <1>4, <1>5, <1>7, <1>8, <1>9, <1>10, <1>12, <1>14 DEF GotSound
<1>16. "current" \in DOMAIN new
  BY <1>4, <1>10, <1>11
<1>17. "application" \in DOMAIN new => new["current"] > 0
  <2>1. CASE n = 1
    BY <2>1, <1>4, <1>10, <1>13
  <2>2. CASE n > 1
    BY <2>2, <1>4, <1>10, <1>11
  <2> QED BY <2>1, <2>2
<1> QED BY <1>1, <1>2, <1>3, <1>15, <1>16, <1>17

LEMMA AccessSound ==
    ASSUME PublicationInv, NEW a \in Admins, CommitQuietly(a) \/ ReadWithin(a) \/ PublishWithin(a)
    PROVE  PublicationInv' /\ HistoryStep
<1>1. PICK r : r = request[a]
  OBVIOUS
<1>2. r.call \in {"change", "application"}
  BY <1>1 DEF CommitQuietly, ReadWithin, PublishWithin, InTransaction
<1>3. IsChange(r, Latest)
  BY <1>1, <1>2 DEF PublicationInv, Requests, IsRequest
<1>4. OwnBlocked(r) \subseteq Users /\ OwnApplication(r) \in [active : BOOLEAN, archived : BOOLEAN]
  BY <1>3, OwnTypes DEF PublicationInv, IsChange
<1>5. blocked' = OwnBlocked(r) /\ application' = OwnApplication(r) => AccessType'
  BY <1>4 DEF AccessType
<1>6. UNCHANGED <<blocked, application>> => AccessType'
  BY DEF PublicationInv, AccessType
<1>7. CASE CommitQuietly(a)
  <2>1. Commits(a)
    BY <1>1, <1>5, <1>7 DEF CommitQuietly, Commits, Working, catalogue, published
  <2> QED BY <2>1, CommitSound
<1>8. CASE ReadWithin(a)
  <2>1. PICK n \in 1..4 :
          /\ DOMAIN r.got = AccessRead(n - 1) /\ (n > 1 => r.got["current"] > 0)
          /\ request' = [request EXCEPT ![a].got = Learned(r.got, AccessReads[n], AccessFound(r, AccessReads[n]))]
    <3>1. Len(AccessReads) = 4
      BY DEF AccessReads
    <3> QED BY <1>1, <1>8, <3>1 DEF ReadWithin
  <2>2. PICK new : new = Learned(r.got, AccessReads[n], AccessFound(r, AccessReads[n]))
    OBVIOUS
  <2>3. /\ GotSound(new, Latest) /\ "current" \in DOMAIN new
        /\ "application" \in DOMAIN new => new["current"] > 0
    BY <1>3, <2>1, <2>2, AccessFoundSound
  <2>4. PICK q : q = [r EXCEPT !.got = new]
    OBVIOUS
  <2>5. /\ q = [call |-> q.call, users |-> q.users, block |-> q.block, active |-> q.active,
                archived |-> q.archived, publishes |-> q.publishes, got |-> q.got]
        /\ q.call = r.call /\ q.users = r.users /\ q.active = r.active /\ q.archived = r.archived /\ q.got = new
    BY <1>3, <2>4 DEF IsChange
  <2>6. IsChange(q, Latest)
    BY <1>3, <2>3, <2>5 DEF IsChange
  <2>7. IsRequest(q, Latest)
    BY <1>2, <2>5, <2>6 DEF IsRequest
  <2>8. request' = [request EXCEPT ![a] = q]
    BY <1>1, <2>1, <2>2, <2>4
  <2>9. Moves(a, q)
    BY <1>8, <2>7, <2>8 DEF Moves, ReadWithin, Working, catalogue, access, published
  <2> QED BY <2>9, MoveSound
<1>9. CASE PublishWithin(a)
  <2>1. Finish(a) /\ UNCHANGED <<connections, models, virtuals>>
    BY <1>9 DEF PublishWithin, Working, catalogue
  <2>2. AccessType'
    BY <1>1, <1>5, <1>6, <1>9 DEF PublishWithin, access
  <2>3. CASE UNCHANGED published
    <3>1. Commits(a)
      BY <2>1, <2>2, <2>3 DEF Commits, published
    <3> QED BY <3>1, CommitSound
  <2>4. CASE ~ UNCHANGED published
    <3>1. PICK old : old = versions[r.got["current"]].snapshot
      OBVIOUS
    <3> DEFINE s == [old EXCEPT !.enabled = r.got["application"], !.blocked = r.got["audience"]]
    <3>2. /\ DOMAIN r.got = AccessRead(Len(AccessReads)) /\ StampVirtualModels
          /\ Cardinality(r.got["audience"]) <= BlockedLimit /\ InsertVersion(s)
      BY <1>1, <1>9, <2>4, <3>1 DEF PublishWithin
    <3>3. AccessRead(Len(AccessReads)) = {"current", "application", "latest", "audience"}
      <4>1. /\ AccessReads[1] = "current" /\ AccessReads[2] = "application"
            /\ AccessReads[3] = "latest" /\ AccessReads[4] = "audience" /\ Len(AccessReads) = 4
        BY DEF AccessReads
      <4>2. 1..4 = {1, 2, 3, 4}
        OBVIOUS
      <4> QED BY <4>1, <4>2 DEF AccessRead
    <3>4. /\ r.got["application"] \in BOOLEAN /\ r.got["audience"] \subseteq Users
          /\ r.got["current"] \in 0..Latest /\ r.got["current"] > 0
      BY <1>3, <3>2, <3>3 DEF IsChange, GotSound
    <3>5. r.got["current"] \in 1..Latest
      BY <3>4
    <3>6. IsSnapshot(old)
      BY <3>1, <3>5, HistoryIsSnapshot
    <3>7. IsSnapshot(s)
      BY <3>2, <3>4, <3>6, RepeatedIsSnapshot
    <3> HIDE DEF s
    <3>8. Inserts(a, s)
      BY <2>1, <2>2, <3>2, <3>7 DEF Inserts
    <3> QED BY <3>8, InsertSound
  <2> QED BY <2>3, <2>4
<1> QED BY <1>7, <1>8, <1>9

-----------------------------------------------------------------------------
(* The theorems.                                                           *)

LEMMA StepSound ==
    ASSUME PublicationInv, [Next]_vars PROVE PublicationInv' /\ HistoryStep
<1>1. CASE EditCatalogue
  BY <1>1, EditSound
<1>2. ASSUME NEW a \in Admins,
             \/ BeginPublish(a) \/ BeginAccess(a)
             \/ \E source \in 1..Latest : BeginRestore(a, source)
      PROVE  PublicationInv' /\ HistoryStep
  BY <1>2, BeginRequestsSound
<1>3. ASSUME NEW a \in Admins, Serve(a) PROVE PublicationInv' /\ HistoryStep
  BY <1>3, PublishSound, RestoreSound, AccessSound DEF Serve
<1>4. CASE UNCHANGED vars
  <2>1. UNCHANGED <<connections, models, virtuals, blocked, application, versions, lastPublished, request>>
    BY <1>4 DEF vars, catalogue, access, published
  <2>2. Latest' = Latest /\ CatalogueType' /\ AccessType'
    BY <2>1 DEF Latest, PublicationInv, CatalogueType, AccessType
  <2>3. HistoryStep
    BY <2>1 DEF HistoryStep, Latest
  <2> QED BY <2>1, <2>2, <2>3 DEF PublicationInv
<1> QED BY <1>1, <1>2, <1>3, <1>4 DEF Next

LEMMA InvariantFollows ==
    ASSUME PublicationInv PROVE PublicationInvariant
<1>1. \A i \in 1..Latest : /\ versions[i] \in VersionType /\ IsSnapshot(versions[i].snapshot)
                           /\ versions[i].status = "PUBLISHED" <=> i = Latest
  BY DEF PublicationInv, VersionsSound, Latest
<1>2. TypeOK
  BY <1>1 DEF TypeOK, PublicationInv, CatalogueType, AccessType, VersionType
<1> QED BY <1>1, <1>2 DEF PublicationInvariant, IsSnapshot

(* However publish, restore and access changes of any number of requests   *)
(* interleave with edits of the catalogue, exactly the newest version is   *)
(* PUBLISHED, and every version can be routed (runtime-publication and     *)
(* runtime-access-snapshot services).                                      *)
THEOREM PublicationIsSound == Spec => []PublicationInvariant
<1>1. Init => PublicationInv
  BY InitSound
<1>2. PublicationInv /\ [Next]_vars => PublicationInv'
  BY StepSound
<1>3. PublicationInv => PublicationInvariant
  BY InvariantFollows
<1> QED BY <1>1, <1>2, <1>3, PTL DEF Spec

(* No step of any request or edit rewrites a version a client may hold:    *)
(* versions are only appended, and an earlier row changes only its status  *)
(* from PUBLISHED to RETIRED.                                              *)
THEOREM HistoryIsOnlyExtended == Spec => HistoryIsKept
<1>1. Init => PublicationInv
  BY InitSound
<1>2. PublicationInv /\ [Next]_vars => PublicationInv'
  BY StepSound
<1>3. PublicationInv /\ [Next]_vars => [HistoryStep]_vars
  BY StepSound
<1>4. Spec => [][HistoryStep]_vars
  BY <1>1, <1>2, <1>3, PTL DEF Spec
<1> QED BY <1>4 DEF HistoryStep, HistoryIsKept

=============================================================================
