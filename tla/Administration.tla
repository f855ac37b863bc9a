--------------------------- MODULE Administration ---------------------------
(***************************************************************************)
(* Administration of an instance: the first setup, sessions, applications  *)
(* and their members, service keys with the guard that admits a request,   *)
(* and the feature flags an operator sets.                                 *)
(*                                                                         *)
(* A change of members runs in a READ COMMITTED transaction, one step per  *)
(* statement; setup and the flags run in serializable ones.  Permissions   *)
(* are those the model tells apart: managing, reading, and sending usage,  *)
(* the one scope here that only keys have.                                 *)
(***************************************************************************)
EXTENDS Integers, FiniteSets, FiniteSetsExt

CONSTANTS People, Slugs, Requests, ServiceKeys,
          Patches,          \* flag assignments an operator makes
          Runtimes,         \* the runtime prerequisites of a process
          RateLimitMax, MaxWindows, MaxChanges,
          None

VARIABLES users,            \* people with an account
          sessions,         \* people with a session that has not expired
          members,          \* application_members by application; None: no such application
          keys,             \* application_api_keys: None or [scopes, status]
          flags,            \* instance_settings: None or the set of flags that are on
          requests,         \* changes under way
          setups,           \* setups that committed
          rate,             \* Redis: requests counted in this window
          window, admitted, \* requests admitted, by window
          overlapped,       \* applications where a change committed between another's reads and its write
          changes

accounts == <<users, sessions, members, setups, overlapped>>
access == <<keys, rate, window, admitted>>
vars == <<accounts, access, flags, requests, changes>>

Roles == {"owner", "admin", "viewer"}
MemberPermissions == {"admin:read", "admin:write"}
Permissions == MemberPermissions \cup {"usage:write"}

RolePermissions == [role \in Roles |-> IF role = "viewer" THEN {"admin:read"} ELSE MemberPermissions]

EffectiveApplicationPermissions(role, stored) == stored \cap RolePermissions[role]

\* Permissions a role does not have are refused, not dropped.
ApplicationPermissionsForWrite(role, permissions) ==
  LET requested == IF permissions = None THEN RolePermissions[role] ELSE permissions
  IN IF EffectiveApplicationPermissions(role, requested) = requested THEN requested ELSE None

Member(role, permissions) == [role |-> role, permissions |-> permissions]
IsMember(slug, p) == members[slug] # None /\ members[slug][p] # None
NewApplication(owner) ==
  [p \in People |-> IF p = owner THEN Member("owner", ApplicationPermissionsForWrite("owner", None)) ELSE None]

May == changes < MaxChanges
Counted == changes' = changes + 1

----------------------------------------------------------------------------
(* Setup and sessions                                                      *)

\* A setup as its serializable transaction sees it: no account exists.
BeginSetup(r, p, slug) ==
  /\ May /\ Counted
  /\ requests[r] = None /\ users = {}
  /\ requests' = [requests EXCEPT ![r] = [kind |-> "setup", person |-> p, slug |-> slug, setups |-> setups]]
  /\ UNCHANGED <<accounts, access, flags>>

Serializes(r) == requests[r].setups = setups

CommitSetup(r) ==
  /\ requests[r] # None /\ requests[r].kind = "setup"
  /\ LET p == requests[r].person
         slug == requests[r].slug
     IN IF Serializes(r) /\ p \notin users /\ members[slug] = None
        THEN /\ users' = users \cup {p}
             /\ members' = [members EXCEPT ![slug] = NewApplication(p)]
             /\ \E k \in ServiceKeys : keys[k] = None /\ keys' = [keys EXCEPT ![k] = [scopes |-> {"usage:write"}, status |-> "active"]]
             /\ sessions' = sessions \cup {p}
             /\ setups' = setups + 1
        ELSE UNCHANGED <<users, members, keys, sessions, setups>>
  /\ requests' = [requests EXCEPT ![r] = None]
  /\ UNCHANGED <<overlapped, rate, window, admitted, flags, changes>>

\* Accounts beyond the first are made outside this code base.
Register(p) ==
  /\ setups > 0 /\ p \notin users
  /\ users' = users \cup {p}
  /\ UNCHANGED <<sessions, members, setups, overlapped, access, flags, requests, changes>>

Login(p) ==
  /\ p \in users /\ p \notin sessions
  /\ sessions' = sessions \cup {p}
  /\ UNCHANGED <<users, members, setups, overlapped, access, flags, requests, changes>>

\* A logout, or eight hours gone by.
EndSession(p) ==
  /\ p \in sessions
  /\ sessions' = sessions \ {p}
  /\ UNCHANGED <<users, members, setups, overlapped, access, flags, requests, changes>>

----------------------------------------------------------------------------
(* Applications and members                                                *)

\* The slug comes from the name; a taken one is retried with a suffix.
CreateApplication(p, slug) ==
  /\ May /\ Counted
  /\ p \in sessions /\ members[slug] = None
  /\ members' = [members EXCEPT ![slug] = NewApplication(p)]
  /\ UNCHANGED <<users, sessions, setups, overlapped, access, flags, requests>>

Owner(p, slug) ==
  /\ IsMember(slug, p) /\ members[slug][p].role = "owner"
  /\ "admin:write" \in EffectiveApplicationPermissions("owner", members[slug][p].permissions)

\* role = None leaves the role as it is, permissions = None asks for the defaults.
BeginMemberChange(r, actor, kind, slug, target, role, permissions) ==
  /\ May /\ Counted
  /\ requests[r] = None
  /\ actor \in sessions /\ Owner(actor, slug)
  /\ CASE kind = "create" -> target \in users /\ role # None
       [] kind = "update" -> role # None \/ permissions # None
       [] kind = "remove" -> role = None /\ permissions = None
  /\ requests' = [requests EXCEPT ![r] = [kind |-> kind, slug |-> slug, person |-> target, role |-> role,
                                          permissions |-> permissions, step |-> "read", current |-> None]]
  /\ UNCHANGED <<accounts, access, flags>>

InStep(r, kinds, step) == requests[r] # None /\ requests[r].kind \in kinds /\ requests[r].step = step
Ended(r) == requests' = [requests EXCEPT ![r] = None]

\* A change that reached the table while another one was between its reads and its write.
Overlaps(r) ==
  \E q \in Requests \ {r} :
    /\ requests[q] # None /\ requests[q].kind \in {"update", "remove"} /\ requests[q].step # "read"
    /\ requests[q].slug = requests[r].slug

Written(r, row) ==
  /\ members' = [members EXCEPT ![requests[r].slug][requests[r].person] = row]
  /\ overlapped' = IF Overlaps(r) THEN overlapped \cup {requests[r].slug} ELSE overlapped
  /\ Ended(r)

CreateMember(r) ==
  /\ InStep(r, {"create"}, "read")
  /\ LET q == requests[r]
         permissions == ApplicationPermissionsForWrite(q.role, q.permissions)
     IN IF permissions # None /\ members[q.slug][q.person] = None THEN Written(r, Member(q.role, permissions))
        ELSE Ended(r) /\ UNCHANGED <<members, overlapped>>
  /\ UNCHANGED <<users, sessions, setups, access, flags, changes>>

ReadMember(r) ==
  /\ InStep(r, {"update", "remove"}, "read")
  /\ LET q == requests[r]
     IN IF members[q.slug][q.person] = None THEN Ended(r)
        ELSE requests' = [requests EXCEPT ![r].step = "count", ![r].current = members[q.slug][q.person]]
  /\ UNCHANGED <<accounts, access, flags, changes>>

NextRole(q) == IF q.role = None THEN q.current.role ELSE q.role
LosesOwner(q) == q.current.role = "owner" /\ (q.kind = "remove" \/ NextRole(q) # "owner")

\* Mutated: the member that is leaving is counted too.
AnyOwner(slug, p) == \E o \in People : IsMember(slug, o) /\ members[slug][o].role = "owner"

AnotherOwner(slug, p) == \E o \in People \ {p} : IsMember(slug, o) /\ members[slug][o].role = "owner"

AssertAnotherOwner(r) ==
  /\ InStep(r, {"update", "remove"}, "count")
  /\ LET q == requests[r]
     IN IF LosesOwner(q) /\ ~AnotherOwner(q.slug, q.person) THEN Ended(r)
        ELSE requests' = [requests EXCEPT ![r].step = "write"]
  /\ UNCHANGED <<accounts, access, flags, changes>>

NextPermissions(q) ==
  ApplicationPermissionsForWrite(NextRole(q),
    IF q.permissions # None THEN q.permissions ELSE IF q.role = None THEN q.current.permissions ELSE None)

UpdateMember(r) ==
  /\ InStep(r, {"update"}, "write")
  /\ LET q == requests[r]
         role == NextRole(q)
         permissions == NextPermissions(q)
         refused == permissions = None \/ (role = "owner" /\ "admin:write" \notin permissions)
     IN IF ~refused /\ members[q.slug][q.person] # None THEN Written(r, Member(role, permissions))
        ELSE Ended(r) /\ UNCHANGED <<members, overlapped>>
  /\ UNCHANGED <<users, sessions, setups, access, flags, changes>>

RemoveMember(r) ==
  /\ InStep(r, {"remove"}, "write")
  /\ IF members[requests[r].slug][requests[r].person] # None THEN Written(r, None)
     ELSE Ended(r) /\ UNCHANGED <<members, overlapped>>
  /\ UNCHANGED <<users, sessions, setups, access, flags, changes>>

----------------------------------------------------------------------------
(* Service keys and the guard                                              *)

MachineScopes == {"usage:write"}
AdminScopes == MemberPermissions
ScopesUseSingleAccessPlane(scopes) == scopes \cap MachineScopes = {} \/ scopes \cap AdminScopes = {}

CreateKey(p, slug, k, scopes) ==
  /\ May /\ Counted
  /\ p \in sessions /\ IsMember(slug, p)
  /\ "admin:write" \in EffectiveApplicationPermissions(members[slug][p].role, members[slug][p].permissions)
  /\ keys[k] = None
  /\ scopes # {} /\ ScopesUseSingleAccessPlane(scopes)
  /\ keys' = [keys EXCEPT ![k] = [scopes |-> scopes, status |-> "active"]]
  /\ UNCHANGED <<accounts, rate, window, admitted, flags, requests>>

RevokeKey(p, slug, k) ==
  /\ p \in sessions /\ IsMember(slug, p)
  /\ "admin:write" \in EffectiveApplicationPermissions(members[slug][p].role, members[slug][p].permissions)
  /\ keys[k] # None
  /\ keys' = [keys EXCEPT ![k].status = "revoked"]
  /\ UNCHANGED <<accounts, rate, window, admitted, flags, requests, changes>>

\* INCR answers the count that includes this request.
EnforceRateLimit(scope) ==
  /\ May /\ Counted
  /\ rate' = rate + 1
  /\ admitted' = IF rate + 1 > RateLimitMax THEN admitted
                 ELSE admitted \cup {[window |-> window, scope |-> scope, number |-> rate + 1]}
  /\ UNCHANGED <<accounts, keys, window, flags, requests>>

CanActivateKey(k, scope) ==
  /\ keys[k] # None /\ keys[k].status = "active"
  /\ scope \in keys[k].scopes
  /\ ScopesUseSingleAccessPlane(keys[k].scopes)
  /\ EnforceRateLimit(scope)

CanActivateSession(p, slug, scope) ==
  /\ p \in sessions /\ scope \in MemberPermissions
  /\ IsMember(slug, p)
  /\ scope \in EffectiveApplicationPermissions(members[slug][p].role, members[slug][p].permissions)
  /\ EnforceRateLimit(scope)

NextWindow ==
  /\ window < MaxWindows
  /\ window' = window + 1 /\ rate' = 0
  /\ UNCHANGED <<accounts, keys, admitted, flags, requests, changes>>

----------------------------------------------------------------------------
(* Feature flags                                                           *)

InstanceFeatureConfigurationIssues(on, runtime) ==
  \/ "quota" \in on /\ "aiu" \notin on
  \/ "hard_limit" \in on /\ ~({"aiu", "quota"} \subseteq on)
  \/ "aiu" \in on /\ runtime.mode = "disabled"
  \/ "hard_limit" \in on /\ runtime.mode # "hard_limit"
  \/ "reconciliation" \in on /\ ~runtime.scheduled

\* What the environment of the API may ask for as the defaults of a new instance.
RefineFeatureFlagDefaults(on, runtime) ==
  /\ "aiu" \in on => runtime.mode # "disabled"
  /\ "quota" \in on => "aiu" \in on
  /\ "hard_limit" \in on => "quota" \in on /\ runtime.mode = "hard_limit"
  /\ "reconciliation" \in on => runtime.scheduled

\* The row is created with the defaults before it is validated, and kept when that fails.
EnsureInstanceSettings(defaults, runtime) ==
  /\ flags = None /\ RefineFeatureFlagDefaults(defaults, runtime)
  /\ flags' = defaults
  /\ UNCHANGED <<accounts, access, requests, changes>>

SetInstanceFeatureFlags(patch, runtime) ==
  /\ May /\ Counted
  /\ flags # None
  /\ LET after == (flags \ patch.off) \cup patch.on
     IN ~InstanceFeatureConfigurationIssues(after, runtime) /\ flags' = after
  /\ UNCHANGED <<accounts, access, requests>>

----------------------------------------------------------------------------
Init ==
  /\ users = {} /\ sessions = {} /\ setups = 0 /\ overlapped = {}
  /\ members = [s \in Slugs |-> None] /\ keys = [k \in ServiceKeys |-> None]
  /\ flags = None /\ requests = [r \in Requests |-> None]
  /\ rate = 0 /\ window = 1 /\ admitted = {} /\ changes = 0

SetupSteps ==
  \/ \E r \in Requests :
       \/ \E p \in People, slug \in Slugs : BeginSetup(r, p, slug)
       \/ CommitSetup(r)
  \/ \E p \in People : Register(p) \/ Login(p) \/ EndSession(p) \/ \E slug \in Slugs : CreateApplication(p, slug)

MemberSteps ==
  \E r \in Requests :
    \/ \E actor, target \in People, slug \in Slugs, kind \in {"create", "update", "remove"},
          role \in Roles \cup {None}, permissions \in {None, {"admin:read"}} :
         BeginMemberChange(r, actor, kind, slug, target, role, permissions)
    \/ CreateMember(r) \/ ReadMember(r) \/ AssertAnotherOwner(r) \/ UpdateMember(r) \/ RemoveMember(r)

AccessSteps ==
  \/ \E p \in People, slug \in Slugs :
       \/ \E k \in ServiceKeys : RevokeKey(p, slug, k) \/ \E scopes \in SUBSET Permissions : CreateKey(p, slug, k, scopes)
       \/ \E scope \in MemberPermissions : CanActivateSession(p, slug, scope)
  \/ \E k \in ServiceKeys, scope \in Permissions : CanActivateKey(k, scope)
  \/ NextWindow

FlagSteps ==
  \E runtime \in Runtimes, patch \in Patches :
    SetInstanceFeatureFlags(patch, runtime) \/ EnsureInstanceSettings(patch.on, runtime)

Next == SetupSteps \/ MemberSteps \/ AccessSteps \/ FlagSteps

Spec == Init /\ [][Next]_vars

----------------------------------------------------------------------------
(* Properties                                                              *)

\* Of setups that overlap one succeeds, with an owner and a key (web-auth-setup.ts).
SetupHappensOnce == setups <= 1

\* An application keeps an owner (application-members.service.ts
\* assertAnotherOwner), unless a change committed between the reads and the
\* write of another: the transactions are not serializable.
OwnersRemain ==
  \A slug \in Slugs \ overlapped : members[slug] # None => AnyOwner(slug, None)

\* Whatever changes of members overlap, nobody holds a permission the role does not have.
PermissionsFitRoles ==
  \A slug \in Slugs, p \in People :
    IsMember(slug, p) => members[slug][p].permissions \subseteq RolePermissions[members[slug][p].role]

\* The stored flags depend on nothing that is off, whichever operators set them
\* and whichever runtime each of them has (feature-flag-operator.ts, bootstrap.service.ts).
FlagsAreConsistent ==
  flags # None => \E runtime \in Runtimes : ~InstanceFeatureConfigurationIssues(flags, runtime)

\* No window admits more requests of an identity than the limit (auth.ts enforceRateLimit).
RateIsBounded ==
  \A w \in 1 .. window : Cardinality({a \in admitted : a.window = w}) <= RateLimitMax

\* The administration of the instance as a whole.
AdministrationIsSound ==
  SetupHappensOnce /\ OwnersRemain /\ PermissionsFitRoles /\ FlagsAreConsistent /\ RateIsBounded
=============================================================================
