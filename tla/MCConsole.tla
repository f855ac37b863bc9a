------------------------------ MODULE MCConsole ------------------------------
(***************************************************************************)
(* What the console administers, side by side.  A behaviour is one of      *)
(*   "members", "access", "flags": Administration, members raced by        *)
(*               members, keys and sessions, or instance flags;            *)
(*   "directory", "outages": UserDirectory, without and with failures;     *)
(*   "quota", "shared": UserAiuQuota, one user under every kind of rule,   *)
(*               or two users under the rules they share;                  *)
(*   "pages", "fields", "saves": UsageReports, readers of pages, readers   *)
(*               raced by field updates, or saved reports;                 *)
(* and leaves the other parts as they are.                                 *)
(***************************************************************************)
EXTENDS MCUserAiuQuota

CONSTANTS People, Slugs, Requests, ServiceKeys, RateLimitMax, MaxWindows, MaxChanges,
          Workers, Reports

VARIABLES part,
          users, sessions, members, keys, flags, requests, setups, rate, window, admitted,
          overlapped, changes,
          directoryUsers, open, nextId, outbox, sent, inbox, committing,
          definitions, cohort, evaluations, jobs, lock, actions, clock,
          profileChanges, faults,
          time, rules, segment, balance, rated, reset, segmentReset, edits,
          stored, fields, editing, reportGroup, walk, walks, saved, cards, ops,
          fieldChanges

directoryVars == <<directoryUsers, open, nextId, outbox, sent, inbox, committing,
    definitions, cohort, evaluations, jobs, lock, actions, clock, profileChanges, faults>>
sharedVars == <<time, rules, segment, balance, rated, reset, segmentReset, edits>>
reportVars == <<stored, fields, editing, reportGroup, walk, walks, saved, cards, ops,
    fieldChanges>>

-----------------------------------------------------------------------------
(* Administration: patches and environments of the feature flags.          *)
MCPatches ==
  {[on |-> {"aiu"}, off |-> {}], [on |-> {"quota", "hard_limit"}, off |-> {}],
   [on |-> {}, off |-> {"aiu"}], [on |-> {"reconciliation"}, off |-> {"hard_limit"}]}
MCRuntimes ==
  {[mode |-> "disabled", scheduled |-> TRUE], [mode |-> "hard_limit", scheduled |-> FALSE],
   [mode |-> "soft_limit", scheduled |-> TRUE]}

Admin == INSTANCE Administration WITH Patches <- MCPatches, Runtimes <- MCRuntimes

adminVars == <<users, sessions, members, keys, flags, requests, setups, rate, window, admitted,
    overlapped, changes>>

(* UserDirectory: one user, who loses the tag the group asks for; two      *)
(* changes race two evaluations, or one does while evaluations fail and    *)
(* the lock runs out.                                                      *)
Customers == {[tags |-> {"vip"}, status |-> "active", lastSeen |-> 0]}
ProfileChanges == {[tags |-> {}, status |-> None]}
Vip == [field |-> "tag", operator |-> "equals", value |-> "vip"]
Inactive == [field |-> "status", operator |-> "not_equals", value |-> "active"]
Recent == [field |-> "last_seen_at", operator |-> "between", value |-> [min |-> 1, max |-> 2]]
Segments == {[match |-> "all", conditions |-> {Vip}],
             [match |-> "any", conditions |-> {Inactive, Recent}]}
Callers == {o1}

Directory == INSTANCE UserDirectory WITH
  Users <- {u1}, Existing <- Customers, Changes <- ProfileChanges,
  Definitions <- Segments, RefreshMinutes <- 1, MaxTime <- 1, MaxChanges <- 2,
  MaxEvaluations <- 2, MaxFaults <- 0,
  users <- directoryUsers, group <- cohort, changes <- profileChanges
Outages == INSTANCE UserDirectory WITH
  Users <- {u1}, Existing <- Customers, Changes <- ProfileChanges,
  Definitions <- Segments, RefreshMinutes <- 1, MaxTime <- 1, MaxChanges <- 1,
  MaxEvaluations <- 2, MaxFaults <- 1,
  users <- directoryUsers, group <- cohort, changes <- profileChanges

(* UserAiuQuota: two users under application and group rules, hard or      *)
(* soft; the first event names the reservation, the second names none.     *)
SharedEvents == {e1, e2}
SharedCalendar == {Rule(2, TRUE, "CALENDAR"), Rule(1, FALSE, "CALENDAR")}

Pooled == INSTANCE UserAiuQuota WITH
  Users <- {u1, u2}, Operations <- {o1}, Events <- SharedEvents,
  EventUser <- [e \in SharedEvents |-> u1],
  EventOperation <- [e \in SharedEvents |-> IF e = e1 THEN o1 ELSE None],
  Amounts <- {1}, UserRules <- {}, SharedRules <- SharedCalendar,
  Memberships <- SUBSET {u1, u2}, PeriodLength <- 2, FixedEnd <- 2, Ttl <- 1, MaxTime <- 1,
  MaxAdmin <- 3,
  now <- time, policies <- rules, group <- segment, account <- balance, rating <- rated,
  resetting <- reset, bulk <- segmentReset, admin <- edits

(* UsageReports: three events, two of one moment and model; queries by     *)
(* model, by the members of a group, and by a property field.              *)
UsageOf(id, at, model, tags, currency, user, value) ==
  [id |-> id, time |-> at, model |-> model, tags |-> tags, currency |-> currency,
   user |-> user, latency |-> None, fields |-> [f |-> value]]
Usages == {UsageOf(1, 2, 0, {}, 1, 1, None), UsageOf(2, 1, 1, {1, 2}, 2, 2, 3),
           UsageOf(3, 1, 1, {1}, 1, 1, None)}
Condition(field, operator, values) ==
  [field |-> field, operator |-> operator, values |-> values]
Query(conditions, match, dim) == [conditions |-> conditions, match |-> match, dim |-> dim]
Queries == {Query(<<>>, "all", "model"),
            Query(<<Condition("user_group", "equals", <<1>>)>>, "all", "user_tag"),
            Query(<<Condition("f", "greater_than", <<0>>),
                    Condition("model", "is_set", <<>>)>>, "any", "f")}
PageSizes == {1, 2}
FieldKeys == {"f"}
Field(searchable, groupable, sensitive) ==
  [type |-> "NUMBER", searchable |-> searchable, groupable |-> groupable,
   sensitive |-> sensitive, active |-> TRUE]
NewFields == {Field(TRUE, TRUE, FALSE), Field(TRUE, FALSE, TRUE)}
FieldPatch(sensitive, searchable, groupable, active) ==
  [sensitive |-> sensitive, searchable |-> searchable, groupable |-> groupable,
   active |-> active]
FieldPatches == {FieldPatch(TRUE, None, None, None), FieldPatch(None, TRUE, TRUE, None),
                 FieldPatch(FALSE, None, None, FALSE)}
Segmented == {{1}, {2}}
Draft(name, kind, metric, uses, dim) ==
  [name |-> name, kind |-> kind, metric |-> metric, uses |-> uses, dim |-> dim]
Drafts == {Draft(1, "usage", "tokens", {"f"}, "model"), Draft(1, "aiu", "aiu", {}, "model"),
           Draft(2, "cost", "provider_cost", {}, "f")}

Reporting == INSTANCE UsageReports WITH
  Events <- Usages, ExportSize <- 1, MaxExport <- 3, Patches <- FieldPatches,
  Memberships <- Segmented, MaxChanges <- 4, MaxWalks <- 1,
  Editors <- Requests, Savers <- Requests, group <- reportGroup, changes <- fieldChanges

-----------------------------------------------------------------------------
Directories == {"directory", "outages"}
Administered == {"members", "access", "flags"}
Reported == {"pages", "fields", "saves"}

(* A part with several initial states has one in the others' behaviours.   *)
ConsoleInit ==
  /\ part \in Administered \cup Reported \cup Directories \cup {"quota", "shared"}
  /\ Init /\ Admin!Init /\ Directory!Init /\ Pooled!Init /\ Reporting!Init
  /\ part # "quota" => ~group.current
  /\ ~segment.current
  /\ part \notin Directories => directoryUsers[u1] = None
  /\ part \notin {"pages", "fields"} => stored = {}
  /\ part \notin Reported => fields["f"] = None
  /\ part = "pages" => fields["f"] # None /\ ~fields["f"].sensitive
  /\ part = "fields" => \A e \in stored : e.id = 2
  /\ fieldChanges = IF part = "saves" THEN 4 ELSE 2

ConsoleNext ==
  /\ UNCHANGED part
  /\ \/ /\ \/ part \in {"members", "access"} /\ Admin!SetupSteps
           \/ part = "members" /\ Admin!MemberSteps
           \/ part = "access" /\ Admin!AccessSteps
           \/ part = "flags" /\ Admin!FlagSteps
        /\ UNCHANGED <<vars, directoryVars, sharedVars, reportVars>>
     \/ /\ \/ part = "directory" /\ Directory!Next
           \/ part = "outages" /\ Outages!Next
        /\ UNCHANGED <<vars, adminVars, sharedVars, reportVars>>
     \/ /\ part = "quota" /\ Next
        /\ UNCHANGED <<adminVars, directoryVars, sharedVars, reportVars>>
     \/ /\ part = "shared" /\ Pooled!Next
        /\ UNCHANGED <<vars, adminVars, directoryVars, reportVars>>
     \/ /\ \/ part \in {"pages", "fields"} /\ (Reporting!DataSteps \/ Reporting!ReadSteps)
           \/ part \in {"fields", "saves"} /\ Reporting!FieldSteps
           \/ part = "saves" /\ Reporting!SaveSteps
        /\ UNCHANGED <<vars, adminVars, directoryVars, sharedVars>>

ConsoleSpec ==
  ConsoleInit
  /\ [][ConsoleNext]_<<part, vars, adminVars, directoryVars, sharedVars, reportVars>>

(* The properties of the other modules, stated there.                      *)
AdministrationIsSound == part \in Administered => Admin!AdministrationIsSound
DirectoryIsSound == part \in Directories => Directory!DirectoryIsSound
SharedUsageIsSound == part = "shared" => Pooled!QuotaInvariant
ReportingIsSound == part \in Reported => Reporting!ReportingIsSound
=============================================================================
