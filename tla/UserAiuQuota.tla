---------------------------- MODULE UserAiuQuota ----------------------------
(***************************************************************************)
(* The AI Unit (AIU) allowance of an application's users: the quota row,   *)
(* the reservations that hold part of it while a model call runs, and the  *)
(* append-only ledger.  These writers share the rows:                      *)
(*   - the runtime API: create, settle and release a reservation;          *)
(*   - the usage worker: settle with rated usage, or consume directly;     *)
(*   - the reservation sweeper: expire what nobody closed;                 *)
(*   - the console: save or reset a user's quota, reset the quotas of a    *)
(*     user group, save or disable a rule of the application or a group;   *)
(*   - the group refresher: replace the members of a user group.           *)
(* All but the quota save run in SERIALIZABLE transactions, and the save   *)
(* writes each row once, so each transaction is one action.  A reset reads *)
(* the quota before its transaction and is two actions.                    *)
(*                                                                         *)
(* account[u] is one user's rows: the quota, one reservation per operation *)
(* id, and the ledger by what is read back from it: the running sums, the  *)
(* balances in the newest entry, and the idempotency keys in use.          *)
(***************************************************************************)
EXTENDS Totals

CONSTANTS
    Users,           \* application users
    Operations,      \* operation ids a client may reserve for
    Events,          \* usage events
    EventUser,       \* the user an event is about
    EventOperation,  \* the operation whose reservation it names, or None
    None,            \* no operation, no rating row
    NoAiu,           \* usage that no AIU version rates
    Amounts,         \* estimates, settlements and rated usage (AIU micros)
    UserRules,       \* quota settings the console may save for a user
    SharedRules,     \* rules it may save for the application or the group
    Memberships,     \* member sets a group refresh may produce
    PeriodLength,    \* length of a calendar period
    FixedEnd,        \* end of a fixed window
    Ttl,             \* lifetime of a reservation
    MaxTime,         \* bound on the clock
    MaxAdmin         \* bound on console and refresher operations

RuleType == [limit : Nat, hardLimit : BOOLEAN,
             period : {"LIFETIME", "CALENDAR", "FIXED_WINDOW"}]

ASSUME QuotaAssumption ==
    /\ IsFiniteSet(Operations) /\ IsFiniteSet(Events)
    /\ None \notin Operations
    /\ Users \cap {"NONE", "USER_GROUP", "APPLICATION"} = {}
    /\ EventUser \in [Events -> Users]
    /\ EventOperation \in [Events -> Operations \cup {None}]
    /\ Amounts \subseteq Nat /\ NoAiu \notin Nat
    /\ UserRules \subseteq RuleType /\ SharedRules \subseteq RuleType
    /\ Memberships \subseteq SUBSET Users
    /\ PeriodLength \in Nat \ {0} /\ FixedEnd \in Nat \ {0}
    /\ Ttl \in Nat \ {0} /\ MaxTime \in Nat /\ MaxAdmin \in Nat

VARIABLES now, policies, group, account, rating, resetting, bulk, admin

vars == <<now, policies, group, account, rating, resetting, bulk, admin>>

Shared == {"USER_GROUP", "APPLICATION"}
Subjects == Users \cup Shared

NoEnd == -1         \* a period that never ends

-----------------------------------------------------------------------------
(* Rows.                                                                   *)

Statuses == {"NONE", "RESERVED", "SETTLED", "RELEASED", "EXPIRED"}

NewQuota == [exists |-> FALSE, policy |-> "NONE", period |-> "LIFETIME",
             start |-> 0, end |-> NoEnd, limit |-> 0, hardLimit |-> FALSE,
             enabled |-> FALSE, consumed |-> 0, reserved |-> 0, version |-> 0]

NewReservation == [status |-> "NONE", reserved |-> 0, settled |-> 0, expiresAt |-> 0]

NewLedger == [charged |-> 0, adjusted |-> 0, reserved |-> 0,
              consumedAfter |-> 0, reservedAfter |-> 0, limitAfter |-> 0,
              consumedBy |-> [e \in Events |-> 0], keys |-> {}]

NewAccount == [quota |-> NewQuota,
               reservations |-> [o \in Operations |-> NewReservation],
               ledger |-> NewLedger]

(* An entry of usage adds to "charged"; every other entry type adds its    *)
(* consumed delta to "adjusted".                                           *)
Usage == {"CONSUME", "SETTLEMENT_DELTA"}

AddEntry(l, e) ==
    [charged |-> l.charged + (IF e.type \in Usage THEN e.consumed ELSE 0),
     adjusted |-> l.adjusted + (IF e.type \in Usage THEN 0 ELSE e.consumed),
     reserved |-> l.reserved + e.reserved,
     consumedAfter |-> e.consumedAfter,
     reservedAfter |-> e.reservedAfter,
     limitAfter |-> e.limitAfter,
     consumedBy |-> l.consumedBy,
     keys |-> l.keys \cup e.keys]

-----------------------------------------------------------------------------
(* Effective rule and period window.                                       *)

(* The subject whose enabled rule governs u: the user's own, then that of  *)
(* a group whose latest evaluation is current and has u, then the          *)
(* application's.                                                          *)
Effective(pol, grp, u) ==
    IF pol[u].enabled THEN u
    ELSE IF pol["USER_GROUP"].enabled /\ grp.current /\ u \in grp.members
         THEN "USER_GROUP"
    ELSE IF pol["APPLICATION"].enabled THEN "APPLICATION"
    ELSE "NONE"

(* The start of a lifetime period is its creation time in the code; nothing *)
(* compares it, and 0 stands for it.                                       *)
Window(period, t) ==
    CASE period = "LIFETIME" -> [start |-> 0, end |-> NoEnd]
      [] period = "FIXED_WINDOW" -> [start |-> 0, end |-> FixedEnd]
      [] OTHER -> LET first == t - (t % PeriodLength)
                  IN  [start |-> first, end |-> first + PeriodLength]

CloseAll(rs, status) ==
    [o \in Operations |->
        IF rs[o].status = "RESERVED" THEN [rs[o] EXCEPT !.status = status] ELSE rs[o]]

(* materializeEffectiveAiuQuotaPolicy for the rule p of subject id: a user *)
(* whom no rule governs keeps the balances and loses the rule; a new       *)
(* period starts from zero and releases what the old one still held.       *)
Materialize(a, id, p, t) ==
    LET q == a.quota
        w == Window(p.period, t)
        periodChanged == \/ q.period # p.period
                         \/ p.period # "LIFETIME" /\ (q.start # w.start \/ q.end # w.end)
        unchanged == /\ q.policy = id /\ q.limit = p.limit
                     /\ q.hardLimit = p.hardLimit /\ q.enabled /\ ~periodChanged
        consumedAfter == IF periodChanged THEN 0 ELSE q.consumed
        reservedAfter == IF periodChanged THEN 0 ELSE q.reserved
        next == [exists |-> TRUE, policy |-> id, period |-> p.period,
                 start |-> IF periodChanged THEN w.start ELSE q.start,
                 end |-> IF periodChanged THEN w.end ELSE q.end,
                 limit |-> p.limit, hardLimit |-> p.hardLimit, enabled |-> TRUE,
                 consumed |-> consumedAfter, reserved |-> reservedAfter,
                 version |-> q.version + 1]
        dropped == [exists |-> TRUE, policy |-> "NONE", period |-> q.period,
                    start |-> q.start, end |-> q.end, limit |-> q.limit,
                    hardLimit |-> q.hardLimit, enabled |-> FALSE, consumed |-> q.consumed,
                    reserved |-> q.reserved, version |-> q.version + 1]
        created == [exists |-> TRUE, policy |-> id, period |-> p.period,
                    start |-> w.start, end |-> w.end, limit |-> p.limit,
                    hardLimit |-> p.hardLimit, enabled |-> TRUE,
                    consumed |-> 0, reserved |-> 0, version |-> 0]
        grant(after) == [type |-> "GRANT", consumed |-> after.consumed - q.consumed,
                         reserved |-> after.reserved - q.reserved,
                         consumedAfter |-> after.consumed, reservedAfter |-> after.reserved,
                         limitAfter |-> after.limit, keys |-> {}]
    IN  IF id = "NONE"
        THEN IF ~q.exists \/ q.policy = "NONE" \/ ~q.enabled THEN a
             ELSE [quota |-> dropped, reservations |-> a.reservations,
                   ledger |-> AddEntry(a.ledger, grant(q))]
        ELSE IF ~q.exists
             THEN [quota |-> created, reservations |-> a.reservations,
                   ledger |-> AddEntry(a.ledger, grant(created))]
        ELSE IF unchanged THEN a
        ELSE [quota |-> next,
              reservations |-> IF periodChanged /\ q.reserved > 0
                               THEN CloseAll(a.reservations, "RELEASED") ELSE a.reservations,
              ledger |-> AddEntry(a.ledger, grant(next))]

RuleOf(pol, id) == IF id = "NONE" THEN [limit |-> 0, hardLimit |-> FALSE, period |-> "LIFETIME"]
                   ELSE pol[id].rule

MaterializeFor(acc, pol, grp, u, t) ==
    LET id == Effective(pol, grp, u) IN Materialize(acc[u], id, RuleOf(pol, id), t)

MaterializeAll(acc, pol, grp, us, t) ==
    [u \in Users |-> IF u \in us THEN MaterializeFor(acc, pol, grp, u, t) ELSE acc[u]]

-----------------------------------------------------------------------------
(* Runtime API: reservations.                                              *)

(* Mutant of Remaining: open reservations do not count.                    *)
RemainingUnreserved(q) == IF q.limit > q.consumed THEN q.limit - q.consumed ELSE 0

Remaining(q) == IF q.limit > q.consumed + q.reserved
                THEN q.limit - q.consumed - q.reserved ELSE 0

(* Mutant of Restart: the row keeps its version.                           *)
RestartSameVersion(q, w) ==
    [q EXCEPT !.start = w.start, !.end = w.end, !.consumed = 0, !.reserved = 0]

(* The row when its balances start over in window w.                       *)
Restart(q, w) ==
    [exists |-> TRUE, policy |-> q.policy, period |-> q.period, start |-> w.start,
     end |-> w.end, limit |-> q.limit, hardLimit |-> q.hardLimit, enabled |-> q.enabled,
     consumed |-> 0, reserved |-> 0, version |-> q.version + 1]

(* rolloverReservationQuota: the period ended after the rule was applied.  *)
Rollover(a, t) ==
    LET q == a.quota
        w == Window(q.period, t)
    IN  IF q.end = NoEnd \/ q.end > t THEN a
        ELSE [quota |-> Restart(q, w),
              reservations |-> CloseAll(a.reservations, "EXPIRED"),
              ledger |-> AddEntry(a.ledger,
                  [type |-> "EXPIRE", consumed |-> - q.consumed, reserved |-> - q.reserved,
                   consumedAfter |-> 0, reservedAfter |-> 0, limitAfter |-> q.limit,
                   keys |-> {<<"period", q.end>>}])]

Reserve(a, o, n, t) ==
    LET q == a.quota
    IN  [quota |-> [q EXCEPT !.reserved = @ + n, !.version = @ + 1],
         reservations |-> [a.reservations EXCEPT ![o] =
             [status |-> "RESERVED", reserved |-> n, settled |-> 0, expiresAt |-> t + Ttl]],
         ledger |-> AddEntry(a.ledger,
             [type |-> "RESERVE", consumed |-> 0, reserved |-> n, consumedAfter |-> q.consumed,
              reservedAfter |-> q.reserved + n, limitAfter |-> q.limit,
              keys |-> {<<"reserve", o>>}])]

(* Only an enabled hard limit whose window has not ended holds reservations. *)
Enforced(q, t) == /\ q.exists /\ q.enabled /\ q.hardLimit
                  /\ ~(q.period = "FIXED_WINDOW" /\ q.end # NoEnd /\ q.end <= t)

(* An operation that already has a reservation: repeating the request, or  *)
(* asking again after it closed, keeps what was applied so far (r); the    *)
(* operation id reused with another estimate rolls back to a.              *)
ExistingReservation(a, r, o, n) == IF r.reservations[o].reserved # n THEN a ELSE r

(* A transaction that applied the rule (m) and looks at the clock again,   *)
(* perhaps later, before it reserves.  A blocked user, a soft or ended     *)
(* quota and an exhausted allowance keep what was applied so far.          *)
CreateFrom(a, m, o, n, t, blocked) ==
    LET r == Rollover(m, t)
    IN  IF blocked \/ ~Enforced(m.quota, t) THEN m
        ELSE IF r.reservations[o].status # "NONE" THEN ExistingReservation(a, r, o, n)
        ELSE IF n > Remaining(r.quota) THEN r
        ELSE Reserve(r, o, n, t)

CreateResult(a, id, p, o, n, t1, t2, blocked) ==
    CreateFrom(a, Materialize(a, id, p, t1), o, n, t2, blocked)

(* Settling, releasing or expiring an open reservation: what it held goes  *)
(* back and what was spent is charged.                                     *)
Close(a, o, status, spent, key) ==
    LET q == a.quota
        row == a.reservations[o]
    IN  [quota |-> [q EXCEPT !.reserved = @ - row.reserved, !.consumed = @ + spent,
                             !.version = @ + 1],
         reservations |-> [a.reservations EXCEPT ![o] =
             [row EXCEPT !.status = status, !.settled = spent]],
         ledger |-> AddEntry(a.ledger,
             [type |-> IF status = "SETTLED" THEN "SETTLEMENT_DELTA" ELSE "RELEASE",
              consumed |-> spent, reserved |-> - row.reserved,
              consumedAfter |-> q.consumed + spent, reservedAfter |-> q.reserved - row.reserved,
              limitAfter |-> q.limit, keys |-> {key}])]

(* Mutant of Closable: the status is not looked at again.                  *)
ClosableAnyStatus(a, o, key) ==
    /\ a.quota.reserved >= a.reservations[o].reserved
    /\ key \notin a.ledger.keys

(* What the database accepts of a closing: reserved AIU may not go below 0 *)
(* and an idempotency key is used once.                                    *)
Closable(a, o, key) ==
    /\ a.reservations[o].status = "RESERVED"
    /\ a.quota.reserved >= a.reservations[o].reserved
    /\ key \notin a.ledger.keys

-----------------------------------------------------------------------------
(* Worker: applyUserAiu, the settlement part of an official commit.        *)

(* A reservation that was settled already is corrected to the rated usage. *)
Correct(a, o, e, n) ==
    LET q == a.quota
        row == a.reservations[o]
        delta == n - row.settled
    IN  [quota |-> [q EXCEPT !.consumed = @ + delta, !.version = @ + 1],
         reservations |-> [a.reservations EXCEPT ![o] = [row EXCEPT !.settled = n]],
         ledger |-> AddEntry(a.ledger,
             [type |-> "SETTLEMENT_DELTA", consumed |-> delta, reserved |-> 0,
              consumedAfter |-> q.consumed + delta, reservedAfter |-> q.reserved,
              limitAfter |-> q.limit, keys |-> {<<"correct", e>>}])]

Consume(a, e, n) ==
    LET q == a.quota
        l == AddEntry(a.ledger, [type |-> "CONSUME", consumed |-> n, reserved |-> 0,
                               consumedAfter |-> q.consumed + n, reservedAfter |-> q.reserved,
                               limitAfter |-> q.limit, keys |-> {<<"consume", e>>}])
    IN  [quota |-> [q EXCEPT !.consumed = @ + n, !.version = @ + 1],
         reservations |-> a.reservations,
         ledger |-> [l EXCEPT !.consumedBy = [a.ledger.consumedBy EXCEPT ![e] = n]]]

(* The transaction fails on a missing or closed reservation, on a negative *)
(* balance and on a key used before.                                       *)
Applicable(a, o, e, n) ==
    o # None =>
        LET row == a.reservations[o]
        IN  \/ Closable(a, o, <<"usage-settle", e>>)
            \/ row.status = "SETTLED" /\ row.settled = n
            \/ /\ row.status = "SETTLED" /\ a.quota.consumed + n - row.settled >= 0
               /\ <<"correct", e>> \notin a.ledger.keys

(* Mutant of ApplyUserAiu: an event consumed before is consumed again.     *)
ApplyUserAiuAgain(a, o, e, actual) ==
    IF o = None /\ actual # NoAiu /\ a.quota.exists /\ a.quota.enabled THEN Consume(a, e, actual)
    ELSE IF o # None /\ a.reservations[o].status = "RESERVED"
         THEN Close(a, o, "SETTLED", IF actual = NoAiu THEN 0 ELSE actual, <<"usage-settle", e>>)
    ELSE a

ApplyUserAiu(a, o, e, actual) ==
    LET n == IF actual = NoAiu THEN 0 ELSE actual
    IN  IF o # None
        THEN IF a.reservations[o].status = "RESERVED"
             THEN Close(a, o, "SETTLED", n, <<"usage-settle", e>>)
             ELSE IF a.reservations[o].settled = n THEN a ELSE Correct(a, o, e, n)
        ELSE IF \/ actual = NoAiu \/ ~a.quota.exists \/ ~a.quota.enabled
                \/ <<"consume", e>> \in a.ledger.keys
             THEN a
             ELSE Consume(a, e, n)

-----------------------------------------------------------------------------
(* Actions.                                                                *)

NoReset == [pending |-> FALSE, at |-> 0, row |-> NewQuota]
NoRule == [saved |-> FALSE, enabled |-> FALSE,
           rule |-> [limit |-> 0, hardLimit |-> FALSE, period |-> "LIFETIME"]]

(* The user group is new, or was evaluated before any rule was saved.      *)
Init == /\ now = 0
        /\ policies = [s \in Subjects |-> NoRule]
        /\ \/ group = [members |-> {}, current |-> FALSE, at |-> 0]
           \/ \E m \in Memberships : group = [members |-> m, current |-> TRUE, at |-> 0]
        /\ account = [u \in Users |-> NewAccount]
        /\ rating = [e \in Events |-> None]
        /\ resetting = [u \in Users |-> NoReset]
        /\ bulk = [u \in Users |-> NoReset]
        /\ admin = 0

Tick == /\ now < MaxTime
        /\ now' = now + 1
        /\ UNCHANGED <<policies, group, account, rating, resetting, bulk, admin>>

Create(u, o, n) ==
    \E t \in {now, now + 1}, blocked \in BOOLEAN :
        LET id == Effective(policies, group, u)
        IN  /\ t + Ttl <= MaxTime
            /\ now' = t
            /\ account' = [account EXCEPT ![u] =
                   CreateResult(@, id, RuleOf(policies, id), o, n, now, t, blocked)]
            /\ UNCHANGED <<policies, group, rating, resetting, bulk, admin>>

(* The API answers a repeated or conflicting settle or release of a closed *)
(* reservation without writing.                                            *)
Settle(u, o, n) ==
    /\ Closable(account[u], o, <<"settle", o>>)
    /\ account' = [account EXCEPT ![u] = Close(@, o, "SETTLED", n, <<"settle", o>>)]
    /\ UNCHANGED <<now, policies, group, rating, resetting, bulk, admin>>

Release(u, o) ==
    /\ Closable(account[u], o, <<"release", o>>)
    /\ account' = [account EXCEPT ![u] = Close(@, o, "RELEASED", 0, <<"release", o>>)]
    /\ UNCHANGED <<now, policies, group, rating, resetting, bulk, admin>>

(* Mutant of Expire: a reservation is not swept at its expiry time.        *)
ExpireLate(u, o) ==
    /\ Closable(account[u], o, <<"expire", o>>)
    /\ account[u].reservations[o].expiresAt < now
    /\ account' = [account EXCEPT ![u] = Close(@, o, "EXPIRED", 0, <<"expire", o>>)]
    /\ UNCHANGED <<now, policies, group, rating, resetting, bulk, admin>>

Expire(u, o) ==
    /\ Closable(account[u], o, <<"expire", o>>)
    /\ account[u].reservations[o].expiresAt <= now
    /\ account' = [account EXCEPT ![u] = Close(@, o, "EXPIRED", 0, <<"expire", o>>)]
    /\ UNCHANGED <<now, policies, group, rating, resetting, bulk, admin>>

(* The official commit of event e, whose usage rates at "actual".  The     *)
(* rating row of an earlier commit is kept.  A failing commit rolls back   *)
(* and changes nothing here.                                               *)
Commit(e, actual) ==
    LET u == EventUser[e]
        o == EventOperation[e]
        a == IF actual = NoAiu THEN account[u]
             ELSE MaterializeFor(account, policies, group, u, now)
    IN  /\ Applicable(a, o, e, IF actual = NoAiu THEN 0 ELSE actual)
        /\ account' = [account EXCEPT ![u] = ApplyUserAiu(a, o, e, actual)]
        /\ rating' = [rating EXCEPT ![e] = IF @ = None THEN actual ELSE @]
        /\ UNCHANGED <<now, policies, group, resetting, bulk, admin>>

(* UserQuotaService.save: the user's own rule, and the quota row with it;  *)
(* balances and the enabled flag of an existing row stay as they are.      *)
SavedQuota(a, id, p, t) ==
    LET q == a.quota
        w == Window(p.period, t)
        next == [exists |-> TRUE, policy |-> id, period |-> p.period,
                 start |-> w.start, end |-> w.end, limit |-> p.limit,
                 hardLimit |-> p.hardLimit,
                 enabled |-> IF q.exists THEN q.enabled ELSE TRUE,
                 consumed |-> q.consumed, reserved |-> q.reserved,
                 version |-> IF q.exists THEN q.version + 1 ELSE 0]
    IN  [quota |-> next, reservations |-> a.reservations,
         ledger |-> AddEntry(a.ledger,
             [type |-> "GRANT", consumed |-> 0, reserved |-> 0, consumedAfter |-> next.consumed,
              reservedAfter |-> next.reserved, limitAfter |-> next.limit, keys |-> {}])]

SaveQuota(u, p) ==
    /\ admin < MaxAdmin /\ admin' = admin + 1
    /\ policies' = [policies EXCEPT ![u] = [saved |-> TRUE, enabled |-> TRUE, rule |-> p]]
    /\ account' = [account EXCEPT ![u] = SavedQuota(@, u, p, now)]
    /\ UNCHANGED <<now, group, rating, resetting, bulk>>

(* A reset reads the row, ...                                              *)
ReadReset(u) ==
    /\ admin < MaxAdmin /\ admin' = admin + 1
    /\ ~resetting[u].pending
    /\ account[u].quota.exists
    /\ resetting' = [resetting EXCEPT ![u] =
           [pending |-> TRUE, at |-> now, row |-> account[u].quota]]
    /\ UNCHANGED <<now, policies, group, account, rating, bulk>>

(* Mutant of ResetAccount: the version read is not compared.               *)
ResetAccountUnchecked(a, row, t) ==
    [quota |-> Restart(a.quota, Window(row.period, t)),
     reservations |-> CloseAll(a.reservations, "RELEASED"),
     ledger |-> AddEntry(a.ledger,
         [type |-> "ADJUSTMENT", consumed |-> - row.consumed, reserved |-> - row.reserved,
          consumedAfter |-> 0, reservedAfter |-> 0, limitAfter |-> row.limit, keys |-> {}])]

(* ... then zeroes it and closes every open reservation, unless the row    *)
(* changed in between: then it fails with a conflict.                      *)
ResetAccount(a, row, t) ==
    LET w == IF row.period = "FIXED_WINDOW" THEN [start |-> row.start, end |-> row.end]
             ELSE Window(row.period, t)
    IN  IF a.quota.version # row.version THEN a
        ELSE [quota |-> Restart(a.quota, w),
              reservations |-> CloseAll(a.reservations, "RELEASED"),
              ledger |-> AddEntry(a.ledger,
                  [type |-> "ADJUSTMENT", consumed |-> - row.consumed, reserved |-> - row.reserved,
                   consumedAfter |-> 0, reservedAfter |-> 0, limitAfter |-> row.limit,
                   keys |-> {}])]

CommitReset(u) ==
    /\ resetting[u].pending
    /\ account' = [account EXCEPT ![u] = ResetAccount(@, resetting[u].row, resetting[u].at)]
    /\ resetting' = [resetting EXCEPT ![u] = NoReset]
    /\ UNCHANGED <<now, policies, group, rating, bulk, admin>>

(* The reset of a whole group (user-group-actions.service.ts) reads the    *)
(* rows of the members before its transaction, as a reset does; the latest *)
(* evaluation must be current, and a member without a row counts as failed. *)
ReadGroupReset ==
    /\ admin < MaxAdmin /\ admin' = admin + 1
    /\ group.current
    /\ \A u \in Users : ~bulk[u].pending
    /\ bulk' = [u \in Users |->
           IF u \in group.members /\ account[u].quota.exists
           THEN [pending |-> TRUE, at |-> now, row |-> account[u].quota] ELSE NoReset]
    /\ UNCHANGED <<now, policies, group, account, rating, resetting>>

(* Its periodEnd counts from the moment of the reset, and ends a fixed     *)
(* window at once; the next reservation applies the rule's own window.     *)
GroupWindow(period, t) ==
    CASE period = "LIFETIME" -> [start |-> 0, end |-> NoEnd]
      [] period = "FIXED_WINDOW" -> [start |-> t, end |-> t]
      [] OTHER -> [start |-> t, end |-> t + PeriodLength]

(* Mutant of GroupReset: the version read is not compared.                 *)
GroupResetUnchecked(a, row, t) ==
    [quota |-> Restart(a.quota, GroupWindow(row.period, t)),
     reservations |-> CloseAll(a.reservations, "RELEASED"),
     ledger |-> AddEntry(a.ledger,
         [type |-> "ADJUSTMENT", consumed |-> - row.consumed, reserved |-> - row.reserved,
          consumedAfter |-> 0, reservedAfter |-> 0, limitAfter |-> row.limit, keys |-> {}])]

(* A member's open reservations are released first.  If the row has changed *)
(* since it was read, the member counts as failed, but the transaction goes *)
(* on and commits the release: the row keeps what the reservations held.   *)
GroupReset(a, row, t) ==
    LET released == CloseAll(a.reservations, "RELEASED")
    IN  IF a.quota.version # row.version THEN [a EXCEPT !.reservations = released]
        ELSE [quota |-> Restart(a.quota, GroupWindow(row.period, t)),
              reservations |-> released,
              ledger |-> AddEntry(a.ledger,
                  [type |-> "ADJUSTMENT", consumed |-> - row.consumed, reserved |-> - row.reserved,
                   consumedAfter |-> 0, reservedAfter |-> 0, limitAfter |-> row.limit,
                   keys |-> {}])]

CommitGroupReset ==
    /\ \E u \in Users : bulk[u].pending
    /\ account' = [u \in Users |->
           IF bulk[u].pending THEN GroupReset(account[u], bulk[u].row, bulk[u].at)
           ELSE account[u]]
    /\ bulk' = [u \in Users |-> NoReset]
    /\ UNCHANGED <<now, policies, group, rating, resetting, admin>>

(* QuotaPolicyService: the rule changes and is applied to every user of the *)
(* application or every member of the group, whose evaluation must be      *)
(* current.                                                                *)
Affected(s) == IF s = "APPLICATION" THEN Users ELSE group.members

WriteRule(s, row) ==
    /\ admin < MaxAdmin /\ admin' = admin + 1
    /\ s = "USER_GROUP" => group.current
    /\ policies' = [policies EXCEPT ![s] = row]
    /\ account' = MaterializeAll(account, policies', group, Affected(s), now)
    /\ UNCHANGED <<now, group, rating, resetting, bulk>>

SaveRule(s, p) == WriteRule(s, [saved |-> TRUE, enabled |-> TRUE, rule |-> p])

DisableRule(s) == /\ policies[s].saved
                  /\ WriteRule(s, [policies[s] EXCEPT !.enabled = FALSE])

(* A group's definition changes: the latest evaluation is out of date.     *)
RedefineGroup ==
    /\ admin < MaxAdmin /\ admin' = admin + 1
    /\ group.current
    /\ group' = [group EXCEPT !.current = FALSE]
    /\ UNCHANGED <<now, policies, account, rating, resetting, bulk>>

(* A refresh of the worker replaces the members; an enabled group rule is  *)
(* applied to those who leave and those who join.  Periods are computed    *)
(* for the time the maintenance run started, which may have passed, but    *)
(* not for one before the previous evaluation.                             *)
RefreshGroup(members, started) ==
    LET at == IF started > group.at THEN started ELSE group.at
    IN  /\ admin < MaxAdmin /\ admin' = admin + 1
        /\ group' = [members |-> members, current |-> TRUE, at |-> at]
        /\ account' = IF policies["USER_GROUP"].enabled
               THEN MaterializeAll(account, policies, group', group.members \cup members, at)
               ELSE account
        /\ UNCHANGED <<now, policies, rating, resetting, bulk>>

Next ==
    \/ Tick
    \/ \E u \in Users, o \in Operations, n \in Amounts : Create(u, o, n) \/ Settle(u, o, n)
    \/ \E u \in Users, o \in Operations : Release(u, o) \/ Expire(u, o)
    \/ \E e \in Events, n \in Amounts \cup {NoAiu} : Commit(e, n)
    \/ \E u \in Users, p \in UserRules : SaveQuota(u, p)
    \/ \E u \in Users : ReadReset(u) \/ CommitReset(u)
    \/ ReadGroupReset \/ CommitGroupReset
    \/ \E s \in Shared, p \in SharedRules : SaveRule(s, p)
    \/ \E s \in Shared : DisableRule(s)
    \/ RedefineGroup
    \/ \E m \in Memberships, t \in 0 .. now : RefreshGroup(m, t)

Spec == Init /\ [][Next]_vars

(* The clock advances, and the maintenance loop of the worker keeps        *)
(* sweeping expired reservations; nobody else is obliged to act.           *)
FairSpec == Spec /\ WF_vars(Tick)
                 /\ \A u \in Users, o \in Operations : WF_vars(Expire(u, o))

-----------------------------------------------------------------------------
(* Properties.                                                             *)

QuotaType == [exists : BOOLEAN, policy : Subjects \cup {"NONE"},
              period : {"LIFETIME", "CALENDAR", "FIXED_WINDOW"}, start : Int, end : Int,
              limit : Nat, hardLimit : BOOLEAN, enabled : BOOLEAN,
              consumed : Nat, reserved : Nat, version : Nat]

ReservationType == [status : Statuses, reserved : Nat, settled : Nat, expiresAt : Nat]

Keys == ({"reserve", "settle", "release", "expire"} \X Operations)
        \cup ({"consume", "usage-settle", "correct"} \X Events)
        \cup ({"period"} \X Int)

LedgerType == [charged : Int, adjusted : Int, reserved : Int, consumedAfter : Int,
               reservedAfter : Int, limitAfter : Int, consumedBy : [Events -> Nat],
               keys : SUBSET Keys]

AccountType == [quota : QuotaType, reservations : [Operations -> ReservationType],
                ledger : LedgerType]

PolicyType == [saved : BOOLEAN, enabled : BOOLEAN, rule : RuleType]

GroupType == [members : SUBSET Users, current : BOOLEAN, at : Nat]

(* Type correctness.  consumed and reserved are never negative, as the     *)
(* CHECK constraints on the quota row demand.                              *)
TypeOK ==
    /\ now \in Nat /\ admin \in Nat
    /\ policies \in [Subjects -> PolicyType]
    /\ group \in GroupType
    /\ account \in [Users -> AccountType]
    /\ rating \in [Events -> Nat \cup {NoAiu, None}]
    /\ resetting \in [Users -> [pending : BOOLEAN, at : Nat, row : QuotaType]]
    /\ bulk \in [Users -> [pending : BOOLEAN, at : Nat, row : QuotaType]]

OpenAmounts(a) ==
    [o \in Operations |->
        IF a.reservations[o].status = "RESERVED" THEN a.reservations[o].reserved ELSE 0]

SettledAmounts(a) == [o \in Operations |-> a.reservations[o].settled]

(* The balance is exactly what the open reservations hold.                 *)
Exact(a) == a.quota.reserved = Total(OpenAmounts(a))

(* The reserved balance of a quota is exactly what its open reservations   *)
(* hold, whoever opened, settled, swept, reset or rolled them over: what   *)
(* ends a reservation also takes its hold out of the balance, as the docs  *)
(* have every reset append the adjustment that does.  The reset of a group *)
(* breaks this for a member whose row changed since it was read.           *)
ReservedMatchesOpenReservations ==
    \A u \in Users : Exact(account[u])

LedgerExplains(l, q) ==
    /\ l.charged + l.adjusted = q.consumed
    /\ l.reserved = q.reserved
    /\ l.consumedAfter = q.consumed
    /\ l.reservedAfter = q.reserved
    /\ l.limitAfter = q.limit

(* The journal explains the quota row: the deltas of all entries add up to *)
(* the balances, and the newest entry shows them.                          *)
LedgerMatchesQuota ==
    \A u \in Users :
        LedgerExplains(account[u].ledger, account[u].quota)

(* Usage is charged once: whatever races between client settlement, worker *)
(* settlement and reprocessed events, the usage entries add up to the one  *)
(* final amount of each settled reservation plus the one amount of each    *)
(* event consumed without a reservation.                                   *)
ChargedOnce ==
    \A u \in Users :
        account[u].ledger.charged = Total(SettledAmounts(account[u]))
                                    + Total(account[u].ledger.consumedBy)

(* An open reservation can always be closed: the sweeper never meets its   *)
(* "reserved balance is inconsistent" error, and no ledger key that        *)
(* settling, releasing, expiring or the worker would write is taken.       *)
OpenReservationsClosable ==
    \A u \in Users, o \in Operations :
        account[u].reservations[o].status = "RESERVED" =>
            /\ \A action \in {"settle", "release", "expire"} :
                   Closable(account[u], o, <<action, o>>)
            /\ \A e \in Events : EventUser[e] = u /\ EventOperation[e] = o =>
                   Closable(account[u], o, <<"usage-settle", e>>)

(* A reservation is admitted only under the rule that governs the user at  *)
(* that moment, inside that rule's current window, and within its limit;   *)
(* an estimate of nothing is admitted even when the limit is exceeded.     *)
AdmissionUsesCurrentRule ==
    [][\A u \in Users, o \in Operations :
          (/\ account[u].reservations[o].status = "NONE"
           /\ account'[u].reservations[o].status = "RESERVED")
          => LET q == account'[u].quota
                 id == Effective(policies, group, u)
             IN  /\ id # "NONE" /\ q.policy = id
                 /\ policies[id].enabled /\ policies[id].rule.hardLimit
                 /\ q.limit = policies[id].rule.limit
                 /\ q.end = NoEnd \/ now' < q.end
                 /\ \/ account'[u].reservations[o].reserved = 0
                    \/ q.consumed + q.reserved <= q.limit]_vars

(* A closed reservation never reopens or closes another way; only the      *)
(* settled amount may still be corrected, and only while it is SETTLED.    *)
ClosedReservationsStayClosed ==
    [][\A u \in Users, o \in Operations :
          LET before == account[u].reservations[o]
              after == account'[u].reservations[o]
          IN  before.status \notin {"NONE", "RESERVED"} =>
                  /\ after.status = before.status
                  /\ before.status # "SETTLED" => after = before]_vars

(* Every reservation is eventually closed, even when its client vanishes.  *)
ReservationsConverge ==
    \A u \in Users, o \in Operations :
        account[u].reservations[o].status = "RESERVED" ~>
            account[u].reservations[o].status # "RESERVED"

-----------------------------------------------------------------------------
(* The inductive invariant behind the properties above.                    *)

(* A key that names a reservation or an event is in the ledger only after  *)
(* the transition it stands for.                                           *)
KeyDiscipline(a) ==
    /\ \A o \in Operations :
           /\ <<"settle", o>> \in a.ledger.keys => a.reservations[o].status = "SETTLED"
           /\ <<"release", o>> \in a.ledger.keys => a.reservations[o].status = "RELEASED"
           /\ <<"expire", o>> \in a.ledger.keys => a.reservations[o].status = "EXPIRED"
    /\ \A e \in Events :
           /\ <<"usage-settle", e>> \in a.ledger.keys =>
                  /\ EventOperation[e] # None
                  /\ a.reservations[EventOperation[e]].status = "SETTLED"
           /\ <<"consume", e>> \notin a.ledger.keys => a.ledger.consumedBy[e] = 0

SoundAccount(a) ==
    /\ a \in AccountType
    /\ ~a.quota.exists => a = NewAccount
    /\ a.quota.reserved >= Total(OpenAmounts(a))
    /\ LedgerExplains(a.ledger, a.quota)
    /\ a.ledger.charged = Total(SettledAmounts(a)) + Total(a.ledger.consumedBy)
    /\ \A o \in Operations :
           a.reservations[o].status # "SETTLED" => a.reservations[o].settled = 0
    /\ KeyDiscipline(a)

(* A reset whose row has kept its version still knows the row.             *)
ResetIsFresh(a, r) ==
    r.pending => /\ a.quota.exists
                 /\ r.row.version <= a.quota.version
                 /\ r.row.version = a.quota.version => r.row = a.quota

(* A row that no rule governs is switched off, so it admits nothing.       *)
Ruled(a) == a.quota.policy = "NONE" => ~a.quota.enabled

(* Every account is sound, every pending reset of a user or a group is     *)
(* either current or bound to find another version, and a row without a    *)
(* rule is off.                                                            *)
QuotaInvariant ==
    /\ TypeOK
    /\ \A u \in Users : /\ SoundAccount(account[u]) /\ Ruled(account[u])
                        /\ ResetIsFresh(account[u], resetting[u])
                        /\ ResetIsFresh(account[u], bulk[u])
=============================================================================
