------------------------- MODULE UserAiuQuotaProofs -------------------------
(***************************************************************************)
(* The theorems about UserAiuQuota, for any users, operations, events,     *)
(* rules and amounts.  The first part is about Total (it is a natural      *)
(* number, changing one value changes it by the difference, it is zero     *)
(* when all values are, and no value exceeds it) and about the ledger      *)
(* entries: closing, zeroing, granting, reserving, correcting and          *)
(* consuming keep a sound account sound.  Every transaction on a user's    *)
(* rows is an operator on accounts made of those entries; each has a lemma *)
(* that it keeps a sound account sound.  Every step evolves the accounts   *)
(* by those transactions, so every account stays sound.                    *)
(***************************************************************************)
EXTENDS UserAiuQuota, FiniteSetTheorems, TLAPS


Block(f, x) == {x} \X (1 .. f[x])

(* One value hands out that many units.                                    *)
LEMMA BlockSize ==
  ASSUME NEW f, NEW x, f[x] \in Nat
  PROVE  /\ IsFiniteSet(Block(f, x))
         /\ Cardinality(Block(f, x)) = f[x]
<1> DEFINE g == [k \in 1 .. f[x] |-> <<x, k>>]
<1>1. IsFiniteSet(1 .. f[x]) /\ Cardinality(1 .. f[x]) = f[x]
  <2>1. 1 \in Int /\ f[x] \in Int /\ (IF 1 > f[x] THEN 0 ELSE f[x] - 1 + 1) = f[x]
    OBVIOUS
  <2> QED
    BY <2>1, FS_Interval
<1>2. g \in Bijection(1 .. f[x], Block(f, x))
  BY DEF Block, Bijection, Injection, Surjection, IsInjective
<1>3. ExistsBijection(1 .. f[x], Block(f, x))
  BY <1>2 DEF ExistsBijection
<1> QED
  BY <1>1, <1>3, FS_Bijection

(* Finitely many values hand out finitely many units (Totals!Units).       *)
LEMMA UnitsFinite ==
  ASSUME NEW S, IsFiniteSet(S), NEW f \in [S -> Nat]
  PROVE  IsFiniteSet(Units(f))
<1> DEFINE B == {Block(f, x) : x \in S}
           g == [x \in S |-> Block(f, x)]
<1>1. g \in Surjection(S, B)
  BY DEF Surjection
<1>2. IsFiniteSet(B)
  BY <1>1, FS_Surjection
<1>3. \A T \in B : IsFiniteSet(T)
  BY BlockSize
<1>4. Units(f) = UNION B
  BY DEF Units, Block
<1> QED
  BY <1>2, <1>3, <1>4, FS_UNION

LEMMA TotalType ==
  ASSUME NEW S, IsFiniteSet(S), NEW f \in [S -> Nat]
  PROVE  Total(f) \in Nat
BY UnitsFinite, FS_CardinalityType DEF Total

(* Units of all arguments but x.                                           *)
Rest(f, x) == UNION {{y} \X (1 .. f[y]) : y \in (DOMAIN f) \ {x}}

LEMMA TotalSplit ==
  ASSUME NEW S, IsFiniteSet(S), NEW f \in [S -> Nat], NEW x \in S
  PROVE  /\ IsFiniteSet(Rest(f, x))
         /\ Cardinality(Rest(f, x)) \in Nat
         /\ Total(f) = Cardinality(Rest(f, x)) + f[x]
<1>1. Units(f) = Rest(f, x) \cup Block(f, x)
  BY DEF Units, Rest, Block
<1>2. Rest(f, x) \cap Block(f, x) = {}
  BY DEF Rest, Block
<1>3. IsFiniteSet(Units(f))
  BY UnitsFinite
<1>4. Rest(f, x) \in SUBSET Units(f)
  BY <1>1
<1>5. IsFiniteSet(Rest(f, x))
  BY <1>3, <1>4, FS_Subset
<1>6. Cardinality(Rest(f, x)) \in Nat
  BY <1>5, FS_CardinalityType
<1>7. IsFiniteSet(Block(f, x)) /\ Cardinality(Block(f, x)) = f[x]
  BY BlockSize
<1>8. Cardinality(Units(f)) = Cardinality(Rest(f, x)) + Cardinality(Block(f, x))
                              - Cardinality(Rest(f, x) \cap Block(f, x))
  BY <1>1, <1>5, <1>7, FS_Union
<1>9. Cardinality(Rest(f, x) \cap Block(f, x)) = 0
  BY <1>2, FS_EmptySet
<1>10. Total(f) = Cardinality(Rest(f, x)) + f[x]
  <2> f[x] \in Nat
    OBVIOUS
  <2> QED
    BY <1>6, <1>7, <1>8, <1>9 DEF Total
<1> QED
  BY <1>5, <1>6, <1>10

(* Changing one value changes the total by the difference.                 *)
LEMMA TotalUpdate ==
  ASSUME NEW S, IsFiniteSet(S), NEW f \in [S -> Nat], NEW g \in [S -> Nat],
         NEW x \in S, \A y \in S \ {x} : g[y] = f[y]
  PROVE  Total(g) = Total(f) - f[x] + g[x]
<1>1. Rest(g, x) = Rest(f, x)
  BY DEF Rest
<1>2. Total(f) = Cardinality(Rest(f, x)) + f[x] /\ Cardinality(Rest(f, x)) \in Nat
  BY TotalSplit
<1>3. Total(g) = Cardinality(Rest(g, x)) + g[x]
  BY TotalSplit
<1> QED
  BY <1>1, <1>2, <1>3

LEMMA TotalZero ==
  ASSUME NEW S, NEW f \in [S -> Nat], \A x \in S : f[x] = 0
  PROVE  Total(f) = 0
<1>1. Units(f) = {}
  BY DEF Units
<1> QED
  BY <1>1, FS_EmptySet DEF Total

LEMMA TotalBound ==
  ASSUME NEW S, IsFiniteSet(S), NEW f \in [S -> Nat], NEW x \in S
  PROVE  f[x] <= Total(f)
BY TotalSplit

-----------------------------------------------------------------------------
(* Ledger entries.                                                        *)

(* The operations are finitely many, so open and settled amounts have      *)
(* totals (Total is a natural number).                                     *)
LEMMA AmountsType ==
  ASSUME NEW a, a \in AccountType
  PROVE  /\ OpenAmounts(a) \in [Operations -> Nat]
         /\ SettledAmounts(a) \in [Operations -> Nat]
         /\ a.ledger.consumedBy \in [Events -> Nat]
         /\ Total(OpenAmounts(a)) \in Nat
         /\ Total(SettledAmounts(a)) \in Nat
         /\ Total(a.ledger.consumedBy) \in Nat
<1>1. OpenAmounts(a) \in [Operations -> Nat] /\ SettledAmounts(a) \in [Operations -> Nat]
  BY DEF OpenAmounts, SettledAmounts, AccountType, ReservationType
<1>2. a.ledger.consumedBy \in [Events -> Nat]
  BY DEF AccountType, LedgerType
<1> QED
  BY <1>1, <1>2, TotalType, QuotaAssumption

(* What a new entry does to the ledger, and that the ledger stays one.      *)
LEMMA EntryFields ==
  ASSUME NEW l \in LedgerType, NEW e, e.consumed \in Int, e.reserved \in Int,
         e.consumedAfter \in Int, e.reservedAfter \in Int, e.limitAfter \in Int,
         e.keys \in SUBSET Keys
  PROVE  /\ AddEntry(l, e) \in LedgerType
         /\ e.type \in Usage => /\ AddEntry(l, e).charged = l.charged + e.consumed
                                /\ AddEntry(l, e).adjusted = l.adjusted
         /\ e.type \notin Usage => /\ AddEntry(l, e).charged = l.charged
                                   /\ AddEntry(l, e).adjusted = l.adjusted + e.consumed
         /\ AddEntry(l, e).reserved = l.reserved + e.reserved
         /\ AddEntry(l, e).consumedAfter = e.consumedAfter
         /\ AddEntry(l, e).reservedAfter = e.reservedAfter
         /\ AddEntry(l, e).limitAfter = e.limitAfter
         /\ AddEntry(l, e).consumedBy = l.consumedBy
         /\ AddEntry(l, e).keys = l.keys \cup e.keys
<1>1. /\ l.charged \in Int /\ l.adjusted \in Int /\ l.reserved \in Int
      /\ l.consumedBy \in [Events -> Nat] /\ l.keys \in SUBSET Keys
  BY DEF LedgerType
<1>2. AddEntry(l, e) \in LedgerType
  BY <1>1 DEF AddEntry, LedgerType
<1>3. /\ e.type \in Usage => /\ AddEntry(l, e).charged = l.charged + e.consumed
                             /\ AddEntry(l, e).adjusted = l.adjusted
      /\ e.type \notin Usage => /\ AddEntry(l, e).charged = l.charged
                                /\ AddEntry(l, e).adjusted = l.adjusted + e.consumed
  BY <1>1 DEF AddEntry
<1> QED
  BY <1>2, <1>3 DEF AddEntry

(* What every transaction on a user's rows respects: a quota row stays and  *)
(* is changed only under a higher version, and a closed reservation keeps   *)
(* its status, and everything else unless it is SETTLED.                    *)
ClosedKept(before, after) ==
    before.status \notin {"NONE", "RESERVED"} =>
        /\ after.status = before.status
        /\ before.status # "SETTLED" => after = before

Kept(a, b) ==
    /\ a.quota.exists => /\ b.quota.exists
                         /\ b.quota = a.quota \/ b.quota.version > a.quota.version
    /\ \A o \in Operations : ClosedKept(a.reservations[o], b.reservations[o])

(* What all of them but the reset of a group also respect: a balance that   *)
(* is exact stays exact.                                                    *)
Evolves(a, b) == Kept(a, b) /\ (Exact(a) => Exact(b))

(* Which ledger key a closing may write: the one that stands for it.       *)
KeyFits(key, o, status) ==
    \/ key = <<"settle", o>> /\ status = "SETTLED"
    \/ key = <<"release", o>> /\ status = "RELEASED"
    \/ key = <<"expire", o>> /\ status = "EXPIRED"
    \/ status = "SETTLED" /\ \E e \in Events : key = <<"usage-settle", e>> /\ EventOperation[e] = o

(* Settling, releasing and expiring (transition, expire, applyUserAiu)     *)
(* keep an account sound.                                                  *)
LEMMA CloseSound ==
  ASSUME NEW a, SoundAccount(a), NEW o \in Operations, NEW n \in Nat,
         NEW status \in {"SETTLED", "RELEASED", "EXPIRED"}, status # "SETTLED" => n = 0,
         NEW key, KeyFits(key, o, status), Closable(a, o, key)
  PROVE  SoundAccount(Close(a, o, status, n, key)) /\ Evolves(a, Close(a, o, status, n, key))
<1> DEFINE b == Close(a, o, status, n, key)
           q == a.quota
           row == a.reservations[o]
<1>1. a \in AccountType /\ q \in QuotaType /\ row \in ReservationType /\ a.ledger \in LedgerType
      /\ a.reservations \in [Operations -> ReservationType]
  BY DEF SoundAccount, AccountType
<1>2. row.status = "RESERVED" /\ q.reserved >= row.reserved /\ key \notin a.ledger.keys
  BY DEF Closable
<1>3. key \in Keys
  BY DEF KeyFits, Keys
<1>4. q.exists
  BY <1>2 DEF SoundAccount, NewAccount, NewReservation
<1>5. /\ b.quota = [q EXCEPT !.reserved = @ - row.reserved,
                              !.consumed = @ + n, !.version = @ + 1]
      /\ b.reservations = [a.reservations EXCEPT ![o] =
                              [row EXCEPT !.status = status, !.settled = n]]
      /\ b.ledger = AddEntry(a.ledger,
             [type |-> IF status = "SETTLED" THEN "SETTLEMENT_DELTA" ELSE "RELEASE",
              consumed |-> n, reserved |-> - row.reserved,
              consumedAfter |-> q.consumed + n, reservedAfter |-> q.reserved - row.reserved,
              limitAfter |-> q.limit, keys |-> {key}])
      /\ b = [quota |-> b.quota, reservations |-> b.reservations, ledger |-> b.ledger]
  BY DEF Close
<1> HIDE DEF b
<1>6. b.quota \in QuotaType
  <2>1. q.reserved - row.reserved \in Nat /\ q.consumed + n \in Nat /\ q.version + 1 \in Nat
    BY <1>1, <1>2 DEF QuotaType, ReservationType
  <2> QED
    BY ZenonT(60), <1>1, <1>5, <2>1 DEF QuotaType
<1>7. b.reservations \in [Operations -> ReservationType]
  BY ZenonT(60), <1>1, <1>5 DEF ReservationType, Statuses
<1>8. b.ledger \in LedgerType
  BY <1>1, <1>3, <1>5 DEF LedgerType, QuotaType, ReservationType, AddEntry, Usage
<1>9. b \in AccountType
  BY <1>5, <1>6, <1>7, <1>8 DEF AccountType
<1>10. b.quota.exists
  BY <1>1, <1>4, <1>5 DEF QuotaType
<1>11. b.quota.reserved >= Total(OpenAmounts(b)) /\ (Exact(a) => Exact(b))
  <2>1. OpenAmounts(b) \in [Operations -> Nat] /\ OpenAmounts(a) \in [Operations -> Nat]
        /\ Total(OpenAmounts(a)) \in Nat
    BY <1>1, <1>9, AmountsType
  <2>2. OpenAmounts(a)[o] = row.reserved /\ OpenAmounts(b)[o] = 0
    BY <1>1, <1>2, <1>5 DEF OpenAmounts, ReservationType
  <2>3. \A x \in Operations \ {o} : OpenAmounts(b)[x] = OpenAmounts(a)[x]
    BY <1>1, <1>5 DEF OpenAmounts
  <2>4. Total(OpenAmounts(b)) = Total(OpenAmounts(a)) - row.reserved + 0
    BY <2>1, <2>2, <2>3, TotalUpdate, QuotaAssumption
  <2>5. b.quota.reserved = q.reserved - row.reserved
    BY <1>1, <1>5 DEF QuotaType
  <2>6. q.reserved \in Nat /\ row.reserved \in Nat /\ q.reserved >= Total(OpenAmounts(a))
    BY <1>1 DEF SoundAccount, QuotaType, ReservationType
  <2> QED
    BY <2>1, <2>4, <2>5, <2>6 DEF Exact
<1>12. LedgerExplains(b.ledger, b.quota)
  <2>1. LedgerExplains(a.ledger, q)
    BY DEF SoundAccount
  <2> QED
    BY SMTT(60), <1>1, <1>5, <2>1 DEF LedgerExplains, AddEntry, Usage, QuotaType, LedgerType, ReservationType
<1>13. b.ledger.charged = Total(SettledAmounts(b)) + Total(b.ledger.consumedBy)
  <2>1. SettledAmounts(b) \in [Operations -> Nat] /\ SettledAmounts(a) \in [Operations -> Nat]
        /\ Total(SettledAmounts(a)) \in Nat /\ Total(a.ledger.consumedBy) \in Nat
    BY <1>1, <1>9, AmountsType
  <2>2. SettledAmounts(a)[o] = 0 /\ SettledAmounts(b)[o] = n
    BY <1>1, <1>2, <1>5 DEF SettledAmounts, ReservationType, SoundAccount
  <2>3. \A x \in Operations \ {o} : SettledAmounts(b)[x] = SettledAmounts(a)[x]
    BY <1>1, <1>5 DEF SettledAmounts
  <2>4. Total(SettledAmounts(b)) = Total(SettledAmounts(a)) - 0 + n
    BY <2>1, <2>2, <2>3, TotalUpdate, QuotaAssumption
  <2>5. b.ledger.charged = a.ledger.charged + n /\ b.ledger.consumedBy = a.ledger.consumedBy
    BY <1>1, <1>5 DEF AddEntry, Usage, LedgerType
  <2> QED
    BY <2>1, <2>4, <2>5 DEF SoundAccount
<1>14. \A x \in Operations :
          b.reservations[x].status # "SETTLED" => b.reservations[x].settled = 0
  BY <1>1, <1>5 DEF SoundAccount, ReservationType
<1>15. b.ledger.keys = a.ledger.keys \cup {key} /\ b.ledger.consumedBy = a.ledger.consumedBy
  BY <1>5 DEF AddEntry, Usage
<1>16. \A x \in Operations : b.reservations[x].status =
          IF x = o THEN status ELSE a.reservations[x].status
  BY <1>1, <1>5 DEF ReservationType
<1>17. KeyDiscipline(b)
  BY <1>2, <1>15, <1>16, QuotaAssumption DEF SoundAccount, KeyDiscipline, KeyFits
<1>18. Evolves(a, b)
  BY <1>1, <1>2, <1>5, <1>10, <1>11 DEF Evolves, Kept, ClosedKept, QuotaType
<1> QED
  BY <1>9, <1>10, <1>11, <1>12, <1>13, <1>14, <1>17, <1>18 DEF SoundAccount, b

(* What starting a period from zero leaves of the reservations: closed ones *)
(* stay, and an open one stays open only if the quota held nothing.         *)
Emptied(a, rs) ==
    /\ rs \in [Operations -> ReservationType]
    /\ \A o \in Operations :
           /\ rs[o].settled = a.reservations[o].settled
           /\ a.reservations[o].status # "RESERVED" => rs[o] = a.reservations[o]
           /\ a.reservations[o].status = "RESERVED" =>
                  rs[o].status \in {"RESERVED", "RELEASED", "EXPIRED"}
           /\ rs[o].status = "RESERVED" => a.quota.reserved = 0 /\ rs[o] = a.reservations[o]

LEMMA CloseAllEmpties ==
  ASSUME NEW a, a.reservations \in [Operations -> ReservationType],
         NEW status \in {"RELEASED", "EXPIRED"}
  PROVE  /\ Emptied(a, CloseAll(a.reservations, status))
         /\ a.quota.reserved = 0 => Emptied(a, a.reservations)
<1>1. CloseAll(a.reservations, status) \in [Operations -> ReservationType]
  BY DEF CloseAll, ReservationType, Statuses
<1>2. Emptied(a, CloseAll(a.reservations, status))
  BY <1>1 DEF Emptied, CloseAll, ReservationType
<1>3. a.quota.reserved = 0 => Emptied(a, a.reservations)
  BY DEF Emptied
<1> QED
  BY <1>2, <1>3

(* Starting a period from zero (Materialize, Rollover, ResetAccount) keeps  *)
(* an account sound: no open reservation, or only empty ones, survives.     *)
LEMMA ZeroSound ==
  ASSUME NEW a, SoundAccount(a), a.quota.exists,
         NEW q2 \in QuotaType, q2.exists, q2.consumed = 0, q2.reserved = 0,
         q2.version > a.quota.version,
         NEW rs, Emptied(a, rs),
         NEW e, e.type \in {"GRANT", "EXPIRE", "ADJUSTMENT"},
         e.consumed = - a.quota.consumed, e.reserved = - a.quota.reserved,
         e.consumedAfter = 0, e.reservedAfter = 0, e.limitAfter = q2.limit,
         e.keys \in SUBSET ({"period"} \X Int)
  PROVE  LET b == [quota |-> q2, reservations |-> rs, ledger |-> AddEntry(a.ledger, e)]
         IN  SoundAccount(b) /\ Evolves(a, b)
<1> DEFINE q == a.quota
           keys == e.keys
           l == AddEntry(a.ledger, e)
           b == [quota |-> q2, reservations |-> rs, ledger |-> l]
<1>1. a \in AccountType /\ q \in QuotaType /\ a.ledger \in LedgerType
      /\ a.reservations \in [Operations -> ReservationType]
  BY DEF SoundAccount, AccountType
<1>2. /\ l \in LedgerType
      /\ l.charged = a.ledger.charged
      /\ l.adjusted = a.ledger.adjusted - q.consumed
      /\ l.reserved = a.ledger.reserved - q.reserved
      /\ l.consumedAfter = 0 /\ l.reservedAfter = 0 /\ l.limitAfter = q2.limit
      /\ l.consumedBy = a.ledger.consumedBy
      /\ l.keys = a.ledger.keys \cup keys
  <2>1. - q.consumed \in Int /\ - q.reserved \in Int /\ q2.limit \in Int /\ keys \in SUBSET Keys
    BY <1>1 DEF QuotaType, Keys
  <2>2. e.type \notin Usage
    BY DEF Usage
  <2>3. /\ l \in LedgerType
        /\ l.charged = a.ledger.charged
        /\ l.adjusted = a.ledger.adjusted + (- q.consumed)
        /\ l.reserved = a.ledger.reserved + (- q.reserved)
        /\ l.consumedAfter = 0 /\ l.reservedAfter = 0 /\ l.limitAfter = q2.limit
        /\ l.consumedBy = a.ledger.consumedBy
        /\ l.keys = a.ledger.keys \cup keys
    BY <1>1, <2>1, <2>2, EntryFields
  <2> QED
    BY <1>1, <2>3 DEF QuotaType, LedgerType
<1>3. b.quota = q2 /\ b.reservations = rs /\ b.ledger = l
  OBVIOUS
<1> HIDE DEF l
<1>5. rs \in [Operations -> ReservationType]
  BY DEF Emptied
<1>6. b \in AccountType
  BY <1>2, <1>5 DEF AccountType
<1>7. \A o \in Operations :
         /\ rs[o].settled = a.reservations[o].settled
         /\ a.reservations[o].status # "RESERVED" => rs[o] = a.reservations[o]
         /\ a.reservations[o].status = "RESERVED" =>
                rs[o].status \in {"RESERVED", "RELEASED", "EXPIRED"}
         /\ rs[o].status = "RESERVED" => a.quota.reserved = 0 /\ rs[o] = a.reservations[o]
  BY DEF Emptied
<1> HIDE DEF b
<1>8. Total(OpenAmounts(b)) = 0
  <2>1. OpenAmounts(b) \in [Operations -> Nat] /\ OpenAmounts(a) \in [Operations -> Nat]
    BY <1>1, <1>6, AmountsType
  <2>2. ASSUME NEW o \in Operations
        PROVE  OpenAmounts(b)[o] = 0
    <3>1. CASE rs[o].status = "RESERVED"
      <4>1. OpenAmounts(b)[o] = OpenAmounts(a)[o]
        BY <1>3, <1>7, <3>1 DEF OpenAmounts
      <4>2. OpenAmounts(a)[o] <= Total(OpenAmounts(a))
        BY <2>1, TotalBound, QuotaAssumption
      <4>3. a.quota.reserved >= Total(OpenAmounts(a)) /\ Total(OpenAmounts(a)) \in Nat
        BY <1>1, AmountsType DEF SoundAccount
      <4> QED
        BY <1>7, <2>1, <3>1, <4>1, <4>2, <4>3
    <3>2. CASE rs[o].status # "RESERVED"
      BY <1>3, <3>2 DEF OpenAmounts
    <3> QED
      BY <3>1, <3>2
  <2> QED
    BY <2>1, <2>2, TotalZero
<1>9. SettledAmounts(b) = SettledAmounts(a)
  BY <1>3, <1>7 DEF SettledAmounts
<1>10. LedgerExplains(b.ledger, b.quota)
  BY <1>1, <1>2, <1>3 DEF SoundAccount, LedgerExplains, LedgerType, QuotaType
<1>11. b.ledger.charged = Total(SettledAmounts(b)) + Total(b.ledger.consumedBy)
  BY <1>2, <1>3, <1>9 DEF SoundAccount
<1>12. \A o \in Operations :
          b.reservations[o].status # "SETTLED" => b.reservations[o].settled = 0
  BY SMTT(60), <1>1, <1>3, <1>7 DEF SoundAccount, ReservationType, Statuses
<1>13. KeyDiscipline(b)
  <2>1. \A o \in Operations : a.reservations[o].status # "RESERVED" =>
                                  b.reservations[o].status = a.reservations[o].status
    BY <1>3, <1>7
  <2>2. \A tag \in {"settle", "release", "expire", "usage-settle", "consume"} : \A x :
            <<tag, x>> \in b.ledger.keys <=> <<tag, x>> \in a.ledger.keys
    BY <1>2, <1>3
  <2> QED
    BY <1>2, <1>3, <2>1, <2>2, QuotaAssumption DEF SoundAccount, KeyDiscipline
<1>14. Evolves(a, b)
  BY <1>3, <1>7, <1>8 DEF Evolves, Kept, ClosedKept, Exact
<1> QED
  BY <1>3, <1>6, <1>8, <1>10, <1>11, <1>12, <1>13, <1>14 DEF SoundAccount, b, l

(* A new rule or setting that keeps the balances (Materialize, SavedQuota)  *)
(* keeps an account sound.                                                  *)
LEMMA GrantSound ==
  ASSUME NEW a, SoundAccount(a),
         NEW q2 \in QuotaType, q2.exists,
         q2.consumed = a.quota.consumed, q2.reserved = a.quota.reserved,
         a.quota.exists => q2.version > a.quota.version,
         NEW e, e.type = "GRANT", e.consumed = 0, e.reserved = 0,
         e.consumedAfter = q2.consumed, e.reservedAfter = q2.reserved,
         e.limitAfter = q2.limit, e.keys = {}
  PROVE  LET b == [quota |-> q2, reservations |-> a.reservations,
                   ledger |-> AddEntry(a.ledger, e)]
         IN  SoundAccount(b) /\ Evolves(a, b)
<1> DEFINE q == a.quota
           l == AddEntry(a.ledger, e)
           b == [quota |-> q2, reservations |-> a.reservations, ledger |-> l]
<1>1. a \in AccountType /\ q \in QuotaType /\ a.ledger \in LedgerType
      /\ a.reservations \in [Operations -> ReservationType]
  BY DEF SoundAccount, AccountType
<1>2. /\ l \in LedgerType
      /\ l.charged = a.ledger.charged /\ l.adjusted = a.ledger.adjusted
      /\ l.reserved = a.ledger.reserved
      /\ l.consumedAfter = q2.consumed /\ l.reservedAfter = q2.reserved
      /\ l.limitAfter = q2.limit /\ l.consumedBy = a.ledger.consumedBy
      /\ l.keys = a.ledger.keys
  <2>1. q2.consumed \in Int /\ q2.reserved \in Int /\ q2.limit \in Int
        /\ e.consumed \in Int /\ e.reserved \in Int /\ e.keys \in SUBSET Keys
    BY DEF QuotaType
  <2>2. e.type \notin Usage
    BY DEF Usage
  <2>3. /\ l \in LedgerType
        /\ l.charged = a.ledger.charged /\ l.adjusted = a.ledger.adjusted + e.consumed
        /\ l.reserved = a.ledger.reserved + e.reserved
        /\ l.consumedAfter = q2.consumed /\ l.reservedAfter = q2.reserved
        /\ l.limitAfter = q2.limit /\ l.consumedBy = a.ledger.consumedBy
        /\ l.keys = a.ledger.keys \cup e.keys
    BY ZenonT(60), <1>1, <2>1, <2>2, EntryFields
  <2> QED
    BY <1>1, <2>3 DEF LedgerType
<1>3. b.quota = q2 /\ b.reservations = a.reservations /\ b.ledger = l
  OBVIOUS
<1> HIDE DEF l
<1>4. b \in AccountType
  BY <1>1, <1>2 DEF AccountType
<1> HIDE DEF b
<1>5. OpenAmounts(b) = OpenAmounts(a) /\ SettledAmounts(b) = SettledAmounts(a)
  BY <1>3 DEF OpenAmounts, SettledAmounts
<1>6. LedgerExplains(b.ledger, b.quota)
  BY <1>1, <1>2, <1>3 DEF SoundAccount, LedgerExplains
<1>7. KeyDiscipline(b)
  BY <1>2, <1>3 DEF SoundAccount, KeyDiscipline
<1>8. Evolves(a, b)
  BY <1>3, <1>5 DEF Evolves, Kept, ClosedKept, Exact
<1> QED
  BY <1>2, <1>3, <1>4, <1>5, <1>6, <1>7, <1>8 DEF SoundAccount, b, l

(* A row that starts a period is a row.                                    *)
LEMMA RestartTyped ==
  ASSUME NEW q \in QuotaType, NEW w, w.start \in Int, w.end \in Int
  PROVE  Restart(q, w) \in QuotaType
BY DEF QuotaType, Restart

(* So is the one that no reset names.                                      *)
LEMMA NoResetTyped == NoReset \in [pending : BOOLEAN, at : Nat, row : QuotaType]
<1>1. NewQuota \in QuotaType
  BY DEF NewQuota, QuotaType, NoEnd
<1> QED
  BY <1>1 DEF NoReset

(* What ZeroSound and GrantSound ask of the new row and the entry.         *)
Zeroing(a, q2, rs, e) ==
    /\ a.quota.exists /\ q2 \in QuotaType
    /\ q2.exists /\ q2.consumed = 0 /\ q2.reserved = 0 /\ q2.version > a.quota.version
    /\ Emptied(a, rs)
    /\ e.type \in {"GRANT", "EXPIRE", "ADJUSTMENT"}
    /\ e.consumed = - a.quota.consumed /\ e.reserved = - a.quota.reserved
    /\ e.consumedAfter = 0 /\ e.reservedAfter = 0 /\ e.limitAfter = q2.limit
    /\ e.keys \in SUBSET ({"period"} \X Int)

Granting(a, q2, e) ==
    /\ q2 \in QuotaType
    /\ q2.exists /\ q2.consumed = a.quota.consumed /\ q2.reserved = a.quota.reserved
    /\ a.quota.exists => q2.version > a.quota.version
    /\ e.type = "GRANT" /\ e.consumed = 0 /\ e.reserved = 0
    /\ e.consumedAfter = q2.consumed /\ e.reservedAfter = q2.reserved
    /\ e.limitAfter = q2.limit /\ e.keys = {}

LEMMA ZeroStep ==
  ASSUME NEW a, SoundAccount(a), NEW q2, NEW rs, NEW e, Zeroing(a, q2, rs, e), NEW m,
         m = [quota |-> q2, reservations |-> rs, ledger |-> AddEntry(a.ledger, e)]
  PROVE  SoundAccount(m) /\ Evolves(a, m)
BY ZeroSound DEF Zeroing

LEMMA GrantStep ==
  ASSUME NEW a, SoundAccount(a), NEW q2, NEW e, Granting(a, q2, e), NEW m,
         m = [quota |-> q2, reservations |-> a.reservations, ledger |-> AddEntry(a.ledger, e)]
  PROVE  SoundAccount(m) /\ Evolves(a, m)
BY GrantSound DEF Granting

(* A new reservation (create) keeps an account sound.                      *)
LEMMA ReserveSound ==
  ASSUME NEW a, SoundAccount(a), a.quota.exists, NEW o \in Operations,
         a.reservations[o].status = "NONE", NEW n \in Nat, NEW t \in Nat
  PROVE  SoundAccount(Reserve(a, o, n, t)) /\ Evolves(a, Reserve(a, o, n, t))
<1> DEFINE b == Reserve(a, o, n, t)
           q == a.quota
           new == [status |-> "RESERVED", reserved |-> n, settled |-> 0, expiresAt |-> t + Ttl]
<1>1. a \in AccountType /\ q \in QuotaType /\ a.ledger \in LedgerType
      /\ a.reservations \in [Operations -> ReservationType]
  BY DEF SoundAccount, AccountType
<1>2. /\ b.quota = [q EXCEPT !.reserved = @ + n, !.version = @ + 1]
      /\ b.reservations = [a.reservations EXCEPT ![o] = new]
      /\ b.ledger = AddEntry(a.ledger,
             [type |-> "RESERVE", consumed |-> 0, reserved |-> n, consumedAfter |-> q.consumed,
              reservedAfter |-> q.reserved + n, limitAfter |-> q.limit,
              keys |-> {<<"reserve", o>>}])
      /\ b = [quota |-> b.quota, reservations |-> b.reservations, ledger |-> b.ledger]
  BY DEF Reserve
<1>3. new \in ReservationType /\ new.status = "RESERVED" /\ new.reserved = n /\ new.settled = 0
  BY QuotaAssumption DEF ReservationType, Statuses
<1> HIDE DEF b, new
<1>4. b.quota \in QuotaType /\ b.quota.exists /\ b.quota.version > q.version
  <2>1. q.reserved + n \in Nat /\ q.version + 1 \in Nat /\ q.version + 1 > q.version
    BY <1>1 DEF QuotaType
  <2> QED
    BY ZenonT(60), <1>1, <1>2, <2>1 DEF QuotaType
<1>5. b.reservations \in [Operations -> ReservationType]
  BY <1>1, <1>2, <1>3
<1>6. b.ledger \in LedgerType
  BY <1>1, <1>2 DEF LedgerType, QuotaType, AddEntry, Usage, Keys
<1>7. b \in AccountType
  BY <1>2, <1>4, <1>5, <1>6 DEF AccountType
<1>8. \A x \in Operations : b.reservations[x] = IF x = o THEN new ELSE a.reservations[x]
  BY <1>1, <1>2
<1>9. b.quota.reserved >= Total(OpenAmounts(b)) /\ (Exact(a) => Exact(b))
  <2>1. OpenAmounts(b) \in [Operations -> Nat] /\ OpenAmounts(a) \in [Operations -> Nat]
        /\ Total(OpenAmounts(a)) \in Nat
    BY <1>1, <1>7, AmountsType
  <2>2. OpenAmounts(a)[o] = 0 /\ OpenAmounts(b)[o] = n
    BY <1>3, <1>8 DEF OpenAmounts
  <2>3. \A x \in Operations \ {o} : OpenAmounts(b)[x] = OpenAmounts(a)[x]
    BY <1>8 DEF OpenAmounts
  <2>4. Total(OpenAmounts(b)) = Total(OpenAmounts(a)) - 0 + n
    BY <2>1, <2>2, <2>3, TotalUpdate, QuotaAssumption
  <2>5. b.quota.reserved = q.reserved + n
    BY <1>1, <1>2 DEF QuotaType
  <2>6. q.reserved \in Nat /\ q.reserved >= Total(OpenAmounts(a))
    BY <1>1 DEF SoundAccount, QuotaType
  <2> QED
    BY <2>1, <2>4, <2>5, <2>6 DEF Exact
<1>10. LedgerExplains(b.ledger, b.quota)
  <2>1. LedgerExplains(a.ledger, q)
    BY DEF SoundAccount
  <2> QED
    BY <1>1, <1>2, <2>1 DEF LedgerExplains, AddEntry, Usage, QuotaType, LedgerType
<1>11. SettledAmounts(b) = SettledAmounts(a)
  BY <1>3, <1>8 DEF SettledAmounts, SoundAccount
<1>12. /\ b.ledger.charged = a.ledger.charged /\ b.ledger.consumedBy = a.ledger.consumedBy
       /\ b.ledger.keys = a.ledger.keys \cup {<<"reserve", o>>}
  BY <1>1, <1>2 DEF AddEntry, Usage, LedgerType
<1>13. \A x \in Operations :
          b.reservations[x].status # "SETTLED" => b.reservations[x].settled = 0
  BY <1>3, <1>8 DEF SoundAccount
<1>14. KeyDiscipline(b)
  BY <1>8, <1>12, QuotaAssumption DEF SoundAccount, KeyDiscipline
<1>15. Evolves(a, b)
  BY SMTT(60), <1>4, <1>8, <1>9 DEF Evolves, Kept, ClosedKept
<1> QED
  BY <1>4, <1>7, <1>9, <1>10, <1>11, <1>12, <1>13, <1>14, <1>15 DEF SoundAccount, b

(* Correcting a settled reservation (applyUserAiu) keeps an account sound.  *)
LEMMA CorrectSound ==
  ASSUME NEW a, SoundAccount(a), NEW o \in Operations, NEW e \in Events, NEW n \in Nat,
         a.reservations[o].status = "SETTLED",
         a.quota.consumed + n - a.reservations[o].settled >= 0
  PROVE  SoundAccount(Correct(a, o, e, n)) /\ Evolves(a, Correct(a, o, e, n))
<1> DEFINE b == Correct(a, o, e, n)
           q == a.quota
           row == a.reservations[o]
           delta == n - row.settled
<1>1. a \in AccountType /\ q \in QuotaType /\ row \in ReservationType /\ a.ledger \in LedgerType
      /\ a.reservations \in [Operations -> ReservationType]
  BY DEF SoundAccount, AccountType
<1>2. /\ b.quota = [q EXCEPT !.consumed = @ + delta, !.version = @ + 1]
      /\ b.reservations = [a.reservations EXCEPT ![o] = [row EXCEPT !.settled = n]]
      /\ b.ledger = AddEntry(a.ledger,
             [type |-> "SETTLEMENT_DELTA", consumed |-> delta, reserved |-> 0,
              consumedAfter |-> q.consumed + delta, reservedAfter |-> q.reserved,
              limitAfter |-> q.limit, keys |-> {<<"correct", e>>}])
      /\ b = [quota |-> b.quota, reservations |-> b.reservations, ledger |-> b.ledger]
  BY DEF Correct
<1>3. delta \in Int /\ q.consumed + delta \in Nat /\ row.settled \in Nat
      /\ n = row.settled + delta
  BY <1>1 DEF QuotaType, ReservationType
<1>4. q.exists
  BY DEF SoundAccount, NewAccount, NewReservation
<1> HIDE DEF b, delta
<1>5. b.quota \in QuotaType /\ b.quota.exists /\ b.quota.version > q.version
      /\ b.quota.reserved = q.reserved
  <2>1. q.version + 1 \in Nat /\ q.version + 1 > q.version
    BY <1>1 DEF QuotaType
  <2> QED
    BY ZenonT(60), <1>1, <1>2, <1>3, <1>4, <2>1 DEF QuotaType
<1>6. b.reservations \in [Operations -> ReservationType]
  BY <1>1, <1>2 DEF ReservationType
<1>7. b.ledger \in LedgerType
  BY <1>1, <1>2, <1>3 DEF LedgerType, QuotaType, AddEntry, Usage, Keys
<1>8. b \in AccountType
  BY <1>2, <1>5, <1>6, <1>7 DEF AccountType
<1>9. \A x \in Operations :
         /\ b.reservations[x].status = a.reservations[x].status
         /\ b.reservations[x].reserved = a.reservations[x].reserved
         /\ b.reservations[x].settled = IF x = o THEN n ELSE a.reservations[x].settled
         /\ x # o => b.reservations[x] = a.reservations[x]
  BY <1>1, <1>2 DEF ReservationType
<1>10. OpenAmounts(b) = OpenAmounts(a)
  BY <1>9 DEF OpenAmounts
<1>11. LedgerExplains(b.ledger, b.quota)
  <2>1. LedgerExplains(a.ledger, q)
    BY DEF SoundAccount
  <2> QED
    BY <1>1, <1>2, <1>3, <2>1 DEF LedgerExplains, AddEntry, Usage, QuotaType, LedgerType
<1>12. /\ b.ledger.charged = a.ledger.charged + delta
       /\ b.ledger.consumedBy = a.ledger.consumedBy
       /\ b.ledger.keys = a.ledger.keys \cup {<<"correct", e>>}
  BY <1>1, <1>2, <1>3 DEF AddEntry, Usage, LedgerType
<1>13. b.ledger.charged = Total(SettledAmounts(b)) + Total(b.ledger.consumedBy)
  <2>1. SettledAmounts(b) \in [Operations -> Nat] /\ SettledAmounts(a) \in [Operations -> Nat]
        /\ Total(SettledAmounts(a)) \in Nat /\ Total(a.ledger.consumedBy) \in Nat
    BY <1>1, <1>8, AmountsType
  <2>2. SettledAmounts(a)[o] = row.settled /\ SettledAmounts(b)[o] = n
    BY <1>9 DEF SettledAmounts
  <2>3. \A x \in Operations \ {o} : SettledAmounts(b)[x] = SettledAmounts(a)[x]
    BY <1>9 DEF SettledAmounts
  <2>4. Total(SettledAmounts(b)) = Total(SettledAmounts(a)) - row.settled + n
    BY <2>1, <2>2, <2>3, TotalUpdate, QuotaAssumption
  <2> QED
    BY <1>3, <1>12, <2>1, <2>4 DEF SoundAccount
<1>14. \A x \in Operations :
          b.reservations[x].status # "SETTLED" => b.reservations[x].settled = 0
  BY SMTT(60), <1>9 DEF SoundAccount
<1>15. KeyDiscipline(b)
  BY <1>9, <1>12, QuotaAssumption DEF SoundAccount, KeyDiscipline
<1>16. Evolves(a, b)
  BY <1>5, <1>9, <1>10 DEF Evolves, Kept, ClosedKept, Exact
<1> QED
  BY <1>5, <1>8, <1>10, <1>11, <1>13, <1>14, <1>15, <1>16 DEF SoundAccount, b

(* Consuming without a reservation (applyUserAiu) keeps an account sound.   *)
LEMMA ConsumeSound ==
  ASSUME NEW a, SoundAccount(a), a.quota.exists, NEW e \in Events, NEW n \in Nat,
         <<"consume", e>> \notin a.ledger.keys
  PROVE  SoundAccount(Consume(a, e, n)) /\ Evolves(a, Consume(a, e, n))
<1> DEFINE b == Consume(a, e, n)
           q == a.quota
           entry == [type |-> "CONSUME", consumed |-> n, reserved |-> 0,
                     consumedAfter |-> q.consumed + n, reservedAfter |-> q.reserved,
                     limitAfter |-> q.limit, keys |-> {<<"consume", e>>}]
           l == AddEntry(a.ledger, entry)
<1>1. a \in AccountType /\ q \in QuotaType /\ a.ledger \in LedgerType
      /\ a.reservations \in [Operations -> ReservationType]
  BY DEF SoundAccount, AccountType
<1>2. /\ b.quota = [q EXCEPT !.consumed = @ + n, !.version = @ + 1]
      /\ b.reservations = a.reservations
      /\ b.ledger = [l EXCEPT !.consumedBy = [a.ledger.consumedBy EXCEPT ![e] = n]]
      /\ b = [quota |-> b.quota, reservations |-> b.reservations, ledger |-> b.ledger]
  BY SMTT(60) DEF Consume
<1>3. /\ l \in LedgerType
      /\ l.charged = a.ledger.charged + n /\ l.adjusted = a.ledger.adjusted
      /\ l.reserved = a.ledger.reserved /\ l.consumedAfter = q.consumed + n
      /\ l.reservedAfter = q.reserved /\ l.limitAfter = q.limit
      /\ l.keys = a.ledger.keys \cup {<<"consume", e>>}
  <2>1. /\ entry.type = "CONSUME" /\ entry.consumed = n /\ entry.reserved = 0
        /\ entry.consumedAfter = q.consumed + n /\ entry.reservedAfter = q.reserved
        /\ entry.limitAfter = q.limit /\ entry.keys = {<<"consume", e>>}
    OBVIOUS
  <2>2. q.consumed \in Nat /\ q.reserved \in Nat /\ q.limit \in Nat
        /\ a.ledger.reserved \in Int
    BY <1>1 DEF QuotaType, LedgerType
  <2>3. {<<"consume", e>>} \in SUBSET Keys /\ "CONSUME" \in Usage
    BY DEF Keys, Usage
  <2> HIDE DEF entry
  <2> QED
    BY <1>1, <2>1, <2>2, <2>3, EntryFields
<1> HIDE DEF b, l
<1>4. b.quota \in QuotaType /\ b.quota.exists /\ b.quota.version > q.version
      /\ b.quota.reserved = q.reserved /\ b.quota.consumed = q.consumed + n
      /\ b.quota.limit = q.limit
  <2>1. q.consumed + n \in Nat /\ q.version + 1 \in Nat /\ q.version + 1 > q.version
    BY <1>1 DEF QuotaType
  <2>2. b.quota \in QuotaType
    BY ZenonT(60), <1>1, <1>2, <2>1 DEF QuotaType
  <2>3. /\ b.quota.version = q.version + 1 /\ b.quota.consumed = q.consumed + n
        /\ b.quota.reserved = q.reserved /\ b.quota.limit = q.limit
        /\ b.quota.exists = q.exists
    BY ZenonT(60), <1>1, <1>2 DEF QuotaType
  <2> QED
    BY <2>1, <2>2, <2>3
<1>5. /\ b.ledger \in LedgerType
      /\ b.ledger.charged = a.ledger.charged + n /\ b.ledger.adjusted = a.ledger.adjusted
      /\ b.ledger.reserved = a.ledger.reserved /\ b.ledger.consumedAfter = q.consumed + n
      /\ b.ledger.reservedAfter = q.reserved /\ b.ledger.limitAfter = q.limit
      /\ b.ledger.keys = a.ledger.keys \cup {<<"consume", e>>}
      /\ b.ledger.consumedBy = [a.ledger.consumedBy EXCEPT ![e] = n]
  BY <1>1, <1>2, <1>3 DEF LedgerType
<1>6. b \in AccountType
  BY <1>1, <1>2, <1>4, <1>5 DEF AccountType
<1>7. OpenAmounts(b) = OpenAmounts(a) /\ SettledAmounts(b) = SettledAmounts(a)
  BY <1>2 DEF OpenAmounts, SettledAmounts
<1>8. LedgerExplains(b.ledger, b.quota)
  <2>1. LedgerExplains(a.ledger, q)
    BY DEF SoundAccount
  <2>2. a.ledger.charged \in Int /\ a.ledger.adjusted \in Int /\ q.consumed \in Int
    BY SMTT(60), <1>1 DEF LedgerType, QuotaType
  <2> QED
    BY <1>4, <1>5, <2>1, <2>2 DEF LedgerExplains
<1>9. b.ledger.charged = Total(SettledAmounts(b)) + Total(b.ledger.consumedBy)
  <2>1. /\ b.ledger.consumedBy \in [Events -> Nat] /\ a.ledger.consumedBy \in [Events -> Nat]
        /\ Total(SettledAmounts(a)) \in Nat /\ Total(a.ledger.consumedBy) \in Nat
    BY SMTT(60), <1>1, <1>6, AmountsType
  <2>2. a.ledger.consumedBy[e] = 0 /\ b.ledger.consumedBy[e] = n
    BY ZenonT(60), <1>5, <2>1 DEF SoundAccount, KeyDiscipline
  <2>3. \A x \in Events \ {e} : b.ledger.consumedBy[x] = a.ledger.consumedBy[x]
    BY <1>5, <2>1
  <2>4. Total(b.ledger.consumedBy) = Total(a.ledger.consumedBy) - 0 + n
    BY <2>1, <2>2, <2>3, TotalUpdate, QuotaAssumption
  <2> QED
    BY <1>5, <1>7, <2>1, <2>4 DEF SoundAccount
<1>10. KeyDiscipline(b)
  <2>1. a.ledger.consumedBy \in [Events -> Nat]
    BY <1>1 DEF LedgerType
  <2> QED
    BY <1>2, <1>5, <2>1 DEF SoundAccount, KeyDiscipline
<1>11. Evolves(a, b)
  BY <1>2, <1>4, <1>7 DEF Evolves, Kept, ClosedKept, Exact
<1> QED
  BY <1>2, <1>4, <1>6, <1>7, <1>8, <1>9, <1>10, <1>11 DEF SoundAccount, b

-----------------------------------------------------------------------------
(* The transactions.                                                       *)

LEMMA WindowType ==
  ASSUME NEW t \in Nat, NEW period \in {"LIFETIME", "CALENDAR", "FIXED_WINDOW"}
  PROVE  /\ Window(period, t).start \in Int /\ Window(period, t).end \in Int
         /\ GroupWindow(period, t).start \in Int /\ GroupWindow(period, t).end \in Int
BY QuotaAssumption DEF Window, GroupWindow, NoEnd

LEMMA EvolvesReflexive ==
  ASSUME NEW a
  PROVE  Evolves(a, a)
BY DEF Evolves, Kept, ClosedKept

LEMMA EvolvesTransitive ==
  ASSUME NEW a, NEW b, NEW c, SoundAccount(a), SoundAccount(b), SoundAccount(c),
         Evolves(a, b), Evolves(b, c)
  PROVE  Evolves(a, c)
<1>1. a.quota.exists => a.quota.version \in Int /\ b.quota.version \in Int
                        /\ c.quota.version \in Int
  BY DEF SoundAccount, AccountType, QuotaType
<1>2. a.quota.exists => c.quota.exists /\ (c.quota = a.quota \/ c.quota.version > a.quota.version)
  BY <1>1 DEF Evolves, Kept
<1>3. \A o \in Operations : ClosedKept(a.reservations[o], c.reservations[o])
  BY DEF Evolves, Kept, ClosedKept
<1> QED
  BY <1>2, <1>3 DEF Evolves, Kept

(* Applying the effective rule (materializeEffectiveAiuQuotaPolicy) keeps   *)
(* an account sound, whichever rule it is and whatever it changes.          *)
LEMMA MaterializeSound ==
  ASSUME NEW a, SoundAccount(a), NEW id \in Subjects \cup {"NONE"},
         NEW p \in RuleType, NEW t \in Nat
  PROVE  SoundAccount(Materialize(a, id, p, t)) /\ Evolves(a, Materialize(a, id, p, t))
<1> DEFINE q == a.quota
           w == Window(p.period, t)
           changed == \/ q.period # p.period
                      \/ p.period # "LIFETIME" /\ (q.start # w.start \/ q.end # w.end)
           unchanged == /\ q.policy = id /\ q.limit = p.limit
                        /\ q.hardLimit = p.hardLimit /\ q.enabled /\ ~changed
           nextOf(c, r) ==
               [exists |-> TRUE, policy |-> id, period |-> p.period,
                start |-> IF changed THEN w.start ELSE q.start,
                end |-> IF changed THEN w.end ELSE q.end,
                limit |-> p.limit, hardLimit |-> p.hardLimit, enabled |-> TRUE,
                consumed |-> c, reserved |-> r, version |-> q.version + 1]
           dropped == [exists |-> TRUE, policy |-> "NONE", period |-> q.period,
                       start |-> q.start, end |-> q.end, limit |-> q.limit,
                       hardLimit |-> q.hardLimit, enabled |-> FALSE, consumed |-> q.consumed,
                       reserved |-> q.reserved, version |-> q.version + 1]
           created == [exists |-> TRUE, policy |-> id, period |-> p.period,
                       start |-> w.start, end |-> w.end, limit |-> p.limit,
                       hardLimit |-> p.hardLimit, enabled |-> TRUE,
                       consumed |-> 0, reserved |-> 0, version |-> 0]
           m == Materialize(a, id, p, t)
           grant(after) == [type |-> "GRANT", consumed |-> after.consumed - q.consumed,
                            reserved |-> after.reserved - q.reserved,
                            consumedAfter |-> after.consumed, reservedAfter |-> after.reserved,
                            limitAfter |-> after.limit, keys |-> {}]
<1>1. q \in QuotaType /\ p.period \in {"LIFETIME", "CALENDAR", "FIXED_WINDOW"}
      /\ p.limit \in Nat /\ p.hardLimit \in BOOLEAN
  BY DEF SoundAccount, AccountType, RuleType
<1>0. q.consumed \in Nat /\ q.reserved \in Nat /\ q.version \in Nat
  BY <1>1 DEF QuotaType
<1>2. w.start \in Int /\ w.end \in Int
  BY <1>1, WindowType
<1>3. CASE id = "NONE" /\ (~q.exists \/ q.policy = "NONE" \/ ~q.enabled)
  <2>1. Materialize(a, id, p, t) = a
    BY Zenon, <1>3 DEF Materialize
  <2> QED
    BY Zenon, <2>1, EvolvesReflexive
<1>4. CASE id = "NONE" /\ ~(~q.exists \/ q.policy = "NONE" \/ ~q.enabled)
  <2> DEFINE e == grant(q)
  <2>1. m = [quota |-> dropped, reservations |-> a.reservations, ledger |-> AddEntry(a.ledger, e)]
    BY ZenonT(60), <1>4 DEF Materialize
  <2> HIDE DEF w, changed, unchanged, nextOf, created, m
  <2>2. dropped \in QuotaType
    BY <1>1 DEF QuotaType
  <2>3. /\ dropped.exists /\ dropped.consumed = q.consumed
        /\ dropped.reserved = q.reserved /\ dropped.limit = q.limit
        /\ dropped.version > q.version
    <3>1. /\ dropped.exists /\ dropped.consumed = q.consumed /\ dropped.reserved = q.reserved
          /\ dropped.limit = q.limit /\ dropped.version = q.version + 1
      BY Zenon
    <3> HIDE DEF dropped
    <3> QED
      BY <1>0, <3>1
  <2>4. /\ e.type = "GRANT" /\ e.consumed = 0 /\ e.reserved = 0 /\ e.limitAfter = q.limit
        /\ e.consumedAfter = q.consumed /\ e.reservedAfter = q.reserved /\ e.keys = {}
    <3>1. q.consumed - q.consumed = 0 /\ q.reserved - q.reserved = 0
      BY <1>0
    <3> QED
      BY Zenon, <3>1
  <2> HIDE DEF m, dropped, e
  <2>5. Granting(a, dropped, e)
    BY Zenon, <2>2, <2>3, <2>4 DEF Granting
  <2> QED
    BY Zenon, <2>1, <2>5, GrantStep DEF m
<1>5. CASE id # "NONE" /\ ~q.exists
  <2> DEFINE e == grant(created)
  <2>1. m = [quota |-> created, reservations |-> a.reservations, ledger |-> AddEntry(a.ledger, e)]
    BY ZenonT(60), <1>5 DEF Materialize
  <2> HIDE DEF w, changed, unchanged, nextOf, dropped, m
  <2>2. q.consumed = 0 /\ q.reserved = 0
    BY SMTT(60), <1>5 DEF SoundAccount, NewAccount, NewQuota
  <2>3. created \in QuotaType
    BY <1>1, <1>2 DEF QuotaType
  <2>4. created.exists /\ created.consumed = 0 /\ created.reserved = 0
    OBVIOUS
  <2> HIDE DEF created
  <2>5. /\ e.type = "GRANT" /\ e.consumed = 0 /\ e.reserved = 0 /\ e.limitAfter = created.limit
        /\ e.consumedAfter = 0 /\ e.reservedAfter = 0 /\ e.keys = {}
    <3>1. 0 - 0 = 0
      OBVIOUS
    <3> QED
      BY Zenon, <2>2, <2>4, <3>1
  <2> HIDE DEF m, e
  <2>6. Granting(a, created, e)
    BY Zenon, <1>5, <2>2, <2>3, <2>4, <2>5 DEF Granting
  <2> QED
    BY Zenon, <2>1, <2>6, GrantStep DEF m
<1>6. CASE id # "NONE" /\ q.exists /\ unchanged
  <2>1. Materialize(a, id, p, t) = a
    BY ZenonT(60), <1>6 DEF Materialize
  <2>2. Evolves(a, a)
    BY EvolvesReflexive
  <2> QED
    BY Zenon, <2>1, <2>2
<1>7. CASE id # "NONE" /\ q.exists /\ ~unchanged /\ changed
  <2> DEFINE next == nextOf(0, 0)
             rs == IF q.reserved > 0 THEN CloseAll(a.reservations, "RELEASED")
                   ELSE a.reservations
             e == grant(next)
  <2>1. m = [quota |-> next, reservations |-> rs, ledger |-> AddEntry(a.ledger, e)]
    BY ZenonT(60), <1>7 DEF Materialize
  <2> HIDE DEF w, changed, unchanged, created, dropped, m, rs
  <2>2. next \in QuotaType
    BY <1>1, <1>2 DEF QuotaType
  <2>3. next.exists /\ next.consumed = 0 /\ next.reserved = 0 /\ next.version = q.version + 1
    BY Zenon
  <2> HIDE DEF next
  <2>4. Emptied(a, rs)
    <3>1. a.reservations \in [Operations -> ReservationType]
      BY DEF SoundAccount, AccountType
    <3>2. q.reserved > 0 \/ q.reserved = 0
      BY <1>0
    <3> QED
      BY Zenon, <3>1, <3>2, CloseAllEmpties DEF rs
  <2>5. /\ e.type = "GRANT" /\ e.consumed = - q.consumed /\ e.reserved = - q.reserved
        /\ e.consumedAfter = 0 /\ e.reservedAfter = 0 /\ e.limitAfter = next.limit /\ e.keys = {}
    <3>1. /\ e.type = "GRANT" /\ e.consumed = 0 - q.consumed /\ e.reserved = 0 - q.reserved
          /\ e.consumedAfter = 0 /\ e.reservedAfter = 0 /\ e.limitAfter = next.limit /\ e.keys = {}
      BY Zenon, <2>3
    <3>2. 0 - q.consumed = - q.consumed /\ 0 - q.reserved = - q.reserved
      BY <1>0
    <3> QED
      BY Zenon, <3>1, <3>2
  <2>6. next.version > q.version
    BY <1>0, <2>3
  <2>7. /\ e.keys \in SUBSET ({"period"} \X Int) /\ e.type \in {"GRANT", "EXPIRE", "ADJUSTMENT"}
        /\ q.exists
    BY Zenon, <1>7, <2>5
  <2> HIDE DEF m, rs, e
  <2>8. Zeroing(a, next, rs, e)
    BY Zenon, <2>2, <2>3, <2>4, <2>5, <2>6, <2>7 DEF Zeroing
  <2> QED
    BY Zenon, <2>1, <2>8, ZeroStep DEF m
<1>8. CASE id # "NONE" /\ q.exists /\ ~unchanged /\ ~changed
  <2> DEFINE next == nextOf(q.consumed, q.reserved)
             e == grant(next)
  <2>1. m = [quota |-> next, reservations |-> a.reservations, ledger |-> AddEntry(a.ledger, e)]
    BY ZenonT(60), <1>8 DEF Materialize
  <2> HIDE DEF w, changed, unchanged, created, dropped, m
  <2>2. next \in QuotaType
    BY SMTT(60), <1>1, <1>2 DEF QuotaType
  <2>3. /\ next.exists /\ next.consumed = q.consumed /\ next.reserved = q.reserved
        /\ next.version = q.version + 1
    BY Zenon
  <2> HIDE DEF next
  <2>4. /\ e.type = "GRANT" /\ e.consumed = 0 /\ e.reserved = 0 /\ e.limitAfter = next.limit
        /\ e.consumedAfter = next.consumed /\ e.reservedAfter = next.reserved /\ e.keys = {}
    <3>1. q.consumed - q.consumed = 0 /\ q.reserved - q.reserved = 0
      BY <1>0
    <3> QED
      BY Zenon, <2>3, <3>1
  <2>5. next.version > q.version
    BY <1>0, <2>3
  <2> HIDE DEF m, e
  <2>6. Granting(a, next, e)
    BY Zenon, <2>2, <2>3, <2>4, <2>5 DEF Granting
  <2> QED
    BY Zenon, <2>1, <2>6, GrantStep DEF m
<1> QED
  BY <1>3, <1>4, <1>5, <1>6, <1>7, <1>8

(* Rolling an ended period over keeps an account sound.                    *)
LEMMA RolloverSound ==
  ASSUME NEW a, SoundAccount(a), a.quota.exists, NEW t \in Nat
  PROVE  /\ SoundAccount(Rollover(a, t)) /\ Evolves(a, Rollover(a, t))
         /\ Rollover(a, t).quota.exists
<1> DEFINE q == a.quota
           w == Window(q.period, t)
           m == Rollover(a, t)
           q2 == Restart(q, w)
           e == [type |-> "EXPIRE", consumed |-> - q.consumed, reserved |-> - q.reserved,
                 consumedAfter |-> 0, reservedAfter |-> 0, limitAfter |-> q.limit,
                 keys |-> {<<"period", q.end>>}]
           rs == CloseAll(a.reservations, "EXPIRED")
<1>1. q \in QuotaType
  BY DEF SoundAccount, AccountType
<1>2. q.period \in {"LIFETIME", "CALENDAR", "FIXED_WINDOW"} /\ q.end \in Int /\ q.version \in Nat
  BY <1>1 DEF QuotaType
<1>3. w.start \in Int /\ w.end \in Int
  BY <1>2, WindowType
<1> HIDE DEF w
<1>4. CASE q.end = NoEnd \/ q.end > t
  <2>1. m = a
    BY <1>4 DEF Rollover
  <2> QED
    BY <2>1, EvolvesReflexive
<1>5. CASE ~(q.end = NoEnd \/ q.end > t)
  <2>1. m = [quota |-> q2, reservations |-> rs, ledger |-> AddEntry(a.ledger, e)]
    BY <1>5 DEF Rollover, w
  <2>2. q2 \in QuotaType
    BY Zenon, <1>1, <1>3, RestartTyped
  <2>3. q2.exists /\ q2.consumed = 0 /\ q2.reserved = 0 /\ q2.limit = q.limit
        /\ q2.version = q.version + 1
    BY Zenon DEF Restart
  <2>4. /\ e.type \in {"GRANT", "EXPIRE", "ADJUSTMENT"}
        /\ e.consumed = - q.consumed /\ e.reserved = - q.reserved
        /\ e.consumedAfter = 0 /\ e.reservedAfter = 0 /\ e.limitAfter = q.limit
        /\ e.keys = {<<"period", q.end>>}
    OBVIOUS
  <2>5. e.keys \in SUBSET ({"period"} \X Int)
    BY <1>2
  <2>6. q2.version > q.version
    BY <1>2, <2>3
  <2> HIDE DEF m, q2, rs, e
  <2>7. m.quota = q2
    BY <2>1
  <2>8. Emptied(a, rs)
    BY CloseAllEmpties DEF SoundAccount, AccountType, rs
  <2> QED
    <3>1. e.limitAfter = q2.limit
      BY <2>3, <2>4
    <3>2. Zeroing(a, q2, rs, e)
      BY Zenon, <2>2, <2>3, <2>4, <2>5, <2>6, <2>8, <3>1 DEF Zeroing
    <3> QED
      BY Zenon, <2>1, <2>3, <2>7, <3>2, ZeroStep DEF m
<1> QED
  BY <1>4, <1>5

(* Saving a user's own rule keeps an account sound.                        *)
LEMMA SavedQuotaSound ==
  ASSUME NEW a, SoundAccount(a), NEW id \in Subjects, NEW p \in RuleType, NEW t \in Nat
  PROVE  SoundAccount(SavedQuota(a, id, p, t)) /\ Evolves(a, SavedQuota(a, id, p, t))
<1> DEFINE q == a.quota
           w == Window(p.period, t)
           m == SavedQuota(a, id, p, t)
           next == [exists |-> TRUE, policy |-> id, period |-> p.period,
                    start |-> w.start, end |-> w.end, limit |-> p.limit,
                    hardLimit |-> p.hardLimit,
                    enabled |-> IF q.exists THEN q.enabled ELSE TRUE,
                    consumed |-> q.consumed, reserved |-> q.reserved,
                    version |-> IF q.exists THEN q.version + 1 ELSE 0]
           e == [type |-> "GRANT", consumed |-> 0, reserved |-> 0, consumedAfter |-> next.consumed,
                 reservedAfter |-> next.reserved, limitAfter |-> next.limit, keys |-> {}]
<1>1. q \in QuotaType /\ p.period \in {"LIFETIME", "CALENDAR", "FIXED_WINDOW"}
      /\ p.limit \in Nat /\ p.hardLimit \in BOOLEAN
  BY DEF SoundAccount, AccountType, RuleType
<1>2. q.version \in Nat /\ q.consumed \in Nat /\ q.reserved \in Nat
  BY <1>1 DEF QuotaType
<1>3. w.start \in Int /\ w.end \in Int
  BY SMTT(60), <1>1, WindowType
<1>4. m = [quota |-> next, reservations |-> a.reservations, ledger |-> AddEntry(a.ledger, e)]
  BY ZenonT(60) DEF SavedQuota
<1> HIDE DEF w
<1>5. next \in QuotaType
  <2>1. q.enabled \in BOOLEAN
    BY SMTT(60), <1>1 DEF QuotaType
  <2>2. PICK on \in BOOLEAN : on = IF q.exists THEN q.enabled ELSE TRUE
    BY <2>1
  <2>3. PICK version \in Nat : version = IF q.exists THEN q.version + 1 ELSE 0
    BY <1>2
  <2>4. next = [exists |-> TRUE, policy |-> id, period |-> p.period, start |-> w.start, end |-> w.end,
                limit |-> p.limit, hardLimit |-> p.hardLimit, enabled |-> on,
                consumed |-> q.consumed, reserved |-> q.reserved, version |-> version]
    BY Zenon, <2>2, <2>3
  <2> HIDE DEF next, q
  <2> QED
    BY ONLY <1>1, <1>2, <1>3, <2>4, id \in Subjects, on \in BOOLEAN, version \in Nat DEF QuotaType
<1>6. /\ next.exists /\ next.consumed = q.consumed /\ next.reserved = q.reserved
      /\ q.exists => next.version > q.version
  <2>1. /\ next.exists /\ next.consumed = q.consumed /\ next.reserved = q.reserved
        /\ q.exists => next.version = q.version + 1
    BY Zenon
  <2> HIDE DEF next
  <2> QED
    BY <1>2, <2>1
<1> HIDE DEF next
<1>7. /\ e.type = "GRANT" /\ e.consumed = 0 /\ e.reserved = 0 /\ e.limitAfter = next.limit
      /\ e.consumedAfter = next.consumed /\ e.reservedAfter = next.reserved /\ e.keys = {}
  OBVIOUS
<1> HIDE DEF m, e
<1>8. Granting(a, next, e)
  BY Zenon, <1>5, <1>6, <1>7 DEF Granting
<1> QED
  BY Zenon, <1>4, <1>8, GrantStep DEF m

(* A reset that still knows the row keeps an account sound.                *)
LEMMA ResetSound ==
  ASSUME NEW a, SoundAccount(a), NEW r, ResetIsFresh(a, r), r.pending,
         r.at \in Nat
  PROVE  SoundAccount(ResetAccount(a, r.row, r.at)) /\ Evolves(a, ResetAccount(a, r.row, r.at))
<1> DEFINE q == a.quota
           row == r.row
           w == IF row.period = "FIXED_WINDOW" THEN [start |-> row.start, end |-> row.end]
                ELSE Window(row.period, r.at)
           m == ResetAccount(a, row, r.at)
           q2 == Restart(q, w)
           e == [type |-> "ADJUSTMENT", consumed |-> - row.consumed, reserved |-> - row.reserved,
                 consumedAfter |-> 0, reservedAfter |-> 0, limitAfter |-> row.limit,
                 keys |-> {}]
           rs == CloseAll(a.reservations, "RELEASED")
<1>1. CASE q.version # row.version
  <2>1. m = a
    BY Zenon, <1>1 DEF ResetAccount
  <2> QED
    BY Zenon, <2>1, EvolvesReflexive
<1>2. CASE q.version = row.version
  <2>1. row = q /\ q.exists /\ q \in QuotaType
    BY <1>2 DEF ResetIsFresh, SoundAccount, AccountType
  <2>2. q.period \in {"LIFETIME", "CALENDAR", "FIXED_WINDOW"} /\ q.version \in Nat
        /\ q.start \in Int /\ q.end \in Int
    BY <2>1 DEF QuotaType
  <2>3. w.start \in Int /\ w.end \in Int
    BY SMTT(60), <2>1, <2>2, WindowType
  <2>4. m = [quota |-> q2, reservations |-> rs, ledger |-> AddEntry(a.ledger, e)]
    BY ZenonT(60), <1>2 DEF ResetAccount
  <2> HIDE DEF w
  <2>5. q2 \in QuotaType
    BY Zenon, <2>1, <2>3, RestartTyped
  <2>6. q2.exists /\ q2.consumed = 0 /\ q2.reserved = 0 /\ q2.limit = q.limit
        /\ q2.version = q.version + 1
    BY Zenon DEF Restart
  <2>7. /\ e.type \in {"GRANT", "EXPIRE", "ADJUSTMENT"}
        /\ e.consumed = - q.consumed /\ e.reserved = - q.reserved
        /\ e.consumedAfter = 0 /\ e.reservedAfter = 0 /\ e.limitAfter = q.limit
        /\ e.keys \in SUBSET ({"period"} \X Int)
    BY Zenon, <2>1
  <2>8. q2.version > q.version
    BY <2>2, <2>6
  <2>9. Emptied(a, rs)
    <3>1. a.reservations \in [Operations -> ReservationType]
      BY DEF SoundAccount, AccountType
    <3> QED
      BY Zenon, <3>1, CloseAllEmpties
  <2> HIDE DEF m, q2, rs, e
  <2>10. Zeroing(a, q2, rs, e)
    BY Zenon, <2>1, <2>5, <2>6, <2>7, <2>8, <2>9 DEF Zeroing
  <2> QED
    BY Zenon, <2>4, <2>10, ZeroStep DEF m
<1> QED
  BY <1>1, <1>2

(* The reset of a group keeps every member's account sound.  A row that     *)
(* changed since it was read keeps its balance though nothing is open now:  *)
(* the balance covers the open reservations, but need not be exact.         *)
LEMMA GroupResetSound ==
  ASSUME NEW a, SoundAccount(a), NEW r, ResetIsFresh(a, r), r.pending,
         r.at \in Nat
  PROVE  LET b == GroupReset(a, r.row, r.at)
         IN  /\ SoundAccount(b) /\ Kept(a, b)
             /\ a.quota.version = r.row.version => Evolves(a, b)
<1> DEFINE q == a.quota
           row == r.row
           w == GroupWindow(row.period, r.at)
           b == GroupReset(a, row, r.at)
           q2 == Restart(q, w)
           e == [type |-> "ADJUSTMENT", consumed |-> - row.consumed, reserved |-> - row.reserved,
                 consumedAfter |-> 0, reservedAfter |-> 0, limitAfter |-> row.limit,
                 keys |-> {}]
           rs == CloseAll(a.reservations, "RELEASED")
<1>1. a \in AccountType /\ q \in QuotaType /\ a.ledger \in LedgerType
      /\ a.reservations \in [Operations -> ReservationType] /\ q.exists
  BY DEF SoundAccount, AccountType, ResetIsFresh
<1>2. Emptied(a, rs)
  BY <1>1, CloseAllEmpties
<1>3. CASE q.version # row.version
  <2>1. b = [a EXCEPT !.reservations = rs]
    BY Zenon, <1>3 DEF GroupReset
  <2>2. b = [quota |-> q, reservations |-> rs, ledger |-> a.ledger]
    BY <1>1, <2>1 DEF AccountType
  <2>3. b.quota = q /\ b.reservations = rs /\ b.ledger = a.ledger
    BY <2>2
  <2>4. \A o \in Operations : rs[o].status # "RESERVED"
    BY <1>1 DEF CloseAll, ReservationType
  <2> HIDE DEF rs
  <2>5. /\ rs \in [Operations -> ReservationType]
        /\ \A o \in Operations :
               /\ rs[o].settled = a.reservations[o].settled
               /\ a.reservations[o].status # "RESERVED" => rs[o] = a.reservations[o]
               /\ a.reservations[o].status = "RESERVED" => rs[o].status \in {"RELEASED", "EXPIRED"}
    BY <1>2, <2>4 DEF Emptied
  <2>6. b \in AccountType
    BY <1>1, <2>2, <2>5 DEF AccountType
  <2> HIDE DEF b
  <2>7. Total(OpenAmounts(b)) = 0 /\ q.reserved \in Nat
    <3>1. OpenAmounts(b) \in [Operations -> Nat]
      BY <2>6, AmountsType
    <3>2. \A o \in Operations : OpenAmounts(b)[o] = 0
      BY <2>3, <2>4 DEF OpenAmounts
    <3>3. q.reserved \in Nat
      BY <1>1 DEF QuotaType
    <3> QED
      BY Zenon, <3>1, <3>2, <3>3, TotalZero
  <2>8. SettledAmounts(b) = SettledAmounts(a)
    BY <2>3, <2>5 DEF SettledAmounts
  <2>9. \A o \in Operations : b.reservations[o].status # "SETTLED" => b.reservations[o].settled = 0
    <3>1. \A o \in Operations : a.reservations[o].status # "SETTLED" => a.reservations[o].settled = 0
      BY Zenon DEF SoundAccount
    <3>2. ASSUME NEW o \in Operations, b.reservations[o].status # "SETTLED"
          PROVE  a.reservations[o].status # "SETTLED" /\ b.reservations[o].settled = a.reservations[o].settled
      BY <2>3, <2>5, <3>2
    <3> QED
      BY Zenon, <3>1, <3>2
  <2>10. KeyDiscipline(b)
    <3>1. \A o \in Operations : a.reservations[o].status # "RESERVED" =>
                                    b.reservations[o].status = a.reservations[o].status
      BY <2>3, <2>5
    <3>2. KeyDiscipline(a) /\ EventOperation \in [Events -> Operations \cup {None}]
      BY QuotaAssumption DEF SoundAccount
    <3>3. \A e1 \in Events : EventOperation[e1] # None => EventOperation[e1] \in Operations
      BY <3>2
    <3> QED
      BY ONLY <2>3, <3>1, <3>2, <3>3 DEF KeyDiscipline
  <2>11. Kept(a, b)
    BY <2>3, <2>5 DEF Kept, ClosedKept
  <2>12. SoundAccount(b)
    <3>1. /\ LedgerExplains(b.ledger, b.quota) /\ b.quota.exists
          /\ b.ledger.charged = Total(SettledAmounts(b)) + Total(b.ledger.consumedBy)
      BY Zenon, <1>1, <2>3, <2>8 DEF SoundAccount
    <3>2. b.quota.reserved >= Total(OpenAmounts(b))
      BY <2>3, <2>7
    <3> QED
      BY Zenon, <2>6, <2>9, <2>10, <3>1, <3>2 DEF SoundAccount
  <2> QED
    BY Zenon, <1>3, <2>11, <2>12 DEF b
<1>4. CASE q.version = row.version
  <2>1. row = q
    BY <1>4 DEF ResetIsFresh
  <2>2. q.period \in {"LIFETIME", "CALENDAR", "FIXED_WINDOW"} /\ q.version \in Nat
    BY <1>1 DEF QuotaType
  <2>3. w.start \in Int /\ w.end \in Int
    BY <2>1, <2>2, WindowType
  <2>4. b = [quota |-> q2, reservations |-> rs, ledger |-> AddEntry(a.ledger, e)]
    BY Zenon, <1>4 DEF GroupReset
  <2> HIDE DEF w
  <2>5. q2 \in QuotaType
    BY Zenon, <1>1, <2>3, RestartTyped
  <2>6. q2.exists /\ q2.consumed = 0 /\ q2.reserved = 0 /\ q2.limit = q.limit
        /\ q2.version = q.version + 1
    BY Zenon DEF Restart
  <2>7. /\ e.type \in {"GRANT", "EXPIRE", "ADJUSTMENT"}
        /\ e.consumed = - q.consumed /\ e.reserved = - q.reserved
        /\ e.consumedAfter = 0 /\ e.reservedAfter = 0 /\ e.limitAfter = q.limit
        /\ e.keys \in SUBSET ({"period"} \X Int)
    BY Zenon, <2>1
  <2>8. q2.version > q.version
    BY <2>2, <2>6
  <2> HIDE DEF b, q2, rs, e
  <2>9. SoundAccount(b) /\ Evolves(a, b)
    <3>1. e.limitAfter = q2.limit
      BY <2>6, <2>7
    <3>2. Zeroing(a, q2, rs, e)
      BY Zenon, <1>1, <1>2, <2>5, <2>6, <2>7, <2>8, <3>1 DEF Zeroing
    <3> QED
      BY Zenon, <2>4, <3>2, ZeroStep
  <2> QED
    BY Zenon, <2>9 DEF Evolves, b
<1> QED
  BY <1>3, <1>4

(* Creating a reservation, whatever its outcome, keeps an account sound.    *)
LEMMA CreateSound ==
  ASSUME NEW a, SoundAccount(a), NEW id \in Subjects \cup {"NONE"}, NEW p \in RuleType,
         NEW o \in Operations, NEW n \in Nat, NEW t1 \in Nat, NEW t2 \in Nat,
         NEW blocked \in BOOLEAN
  PROVE  LET b == CreateResult(a, id, p, o, n, t1, t2, blocked)
         IN  SoundAccount(b) /\ Evolves(a, b)
<1> DEFINE m == Materialize(a, id, p, t1)
           r == Rollover(m, t2)
           b == CreateResult(a, id, p, o, n, t1, t2, blocked)
<1>1. SoundAccount(m) /\ Evolves(a, m)
  BY ZenonT(60), MaterializeSound
<1>2. b \in {a, m, r} \/ b = Reserve(r, o, n, t2)
  BY DEF CreateResult, CreateFrom, ExistingReservation
<1>3. b \in {r, Reserve(r, o, n, t2)} => b \in {a, m} \/ m.quota.exists
  BY DEF CreateResult, CreateFrom, ExistingReservation, Enforced
<1>4. b = Reserve(r, o, n, t2) => b \in {a, m, r} \/ r.reservations[o].status = "NONE"
  BY DEF CreateResult, CreateFrom, ExistingReservation
<1> HIDE DEF b, m
<1>5. m.quota.exists => /\ SoundAccount(r) /\ Evolves(m, r) /\ r.quota.exists
  BY <1>1, RolloverSound
<1> HIDE DEF r
<1>6. CASE b = a
  BY <1>6, EvolvesReflexive DEF b
<1>7. CASE b = m
  BY <1>1, <1>7 DEF b
<1>8. CASE b = r /\ m.quota.exists
  BY <1>1, <1>5, <1>8, EvolvesTransitive DEF b
<1>9. CASE b = Reserve(r, o, n, t2) /\ m.quota.exists /\ r.reservations[o].status = "NONE"
  <2>1. SoundAccount(b) /\ Evolves(r, b)
    BY <1>5, <1>9, ReserveSound
  <2>2. Evolves(a, r)
    BY <1>1, <1>5, <1>9, EvolvesTransitive
  <2> QED
    BY <1>5, <1>9, <2>1, <2>2, EvolvesTransitive DEF b
<1> QED
  BY <1>2, <1>3, <1>4, <1>6, <1>7, <1>8, <1>9

(* Applying the usage of an event keeps an account sound.                   *)
LEMMA ApplySound ==
  ASSUME NEW a, SoundAccount(a), NEW e \in Events, NEW actual \in Nat \cup {NoAiu},
         Applicable(a, EventOperation[e], e, IF actual = NoAiu THEN 0 ELSE actual)
  PROVE  LET b == ApplyUserAiu(a, EventOperation[e], e, actual)
         IN  SoundAccount(b) /\ Evolves(a, b)
<1> DEFINE o == EventOperation[e]
           n == IF actual = NoAiu THEN 0 ELSE actual
           b == ApplyUserAiu(a, o, e, actual)
<1>1. n \in Nat
  BY QuotaAssumption
<1>2. o \in Operations \cup {None}
  BY QuotaAssumption
<1>3. CASE o # None
  <2>1. o \in Operations
    BY <1>2, <1>3
  <2>2. CASE a.reservations[o].status = "RESERVED"
    <3>1. Closable(a, o, <<"usage-settle", e>>)
      BY <1>3, <2>2 DEF Applicable
    <3>2. b = Close(a, o, "SETTLED", n, <<"usage-settle", e>>)
      BY <1>3, <2>2 DEF ApplyUserAiu
    <3>3. KeyFits(<<"usage-settle", e>>, o, "SETTLED")
      BY DEF KeyFits
    <3> HIDE DEF n, b, o
    <3> QED
      BY <1>1, <2>1, <3>1, <3>2, <3>3, CloseSound DEF b, o
  <2>3. CASE a.reservations[o].status # "RESERVED" /\ a.reservations[o].settled = n
    <3>1. b = a
      BY SMTT(60), <1>3, <2>3 DEF ApplyUserAiu
    <3> QED
      BY <3>1, EvolvesReflexive
  <2>4. CASE a.reservations[o].status # "RESERVED" /\ a.reservations[o].settled # n
    <3>1. /\ a.reservations[o].status = "SETTLED"
          /\ a.quota.consumed + n - a.reservations[o].settled >= 0
      BY <1>3, <2>4 DEF Applicable, Closable
    <3>2. b = Correct(a, o, e, n)
      BY <1>3, <2>4 DEF ApplyUserAiu
    <3> HIDE DEF n, b, o
    <3> QED
      BY Zenon, <1>1, <2>1, <3>1, <3>2, CorrectSound DEF b, o
  <2> QED
    BY <2>2, <2>3, <2>4
<1>4. CASE o = None
  <2>1. CASE b = a
    BY <2>1, EvolvesReflexive
  <2>2. CASE b # a
    <3>1. b = Consume(a, e, n) /\ a.quota.exists /\ <<"consume", e>> \notin a.ledger.keys
      BY <1>4, <2>2 DEF ApplyUserAiu
    <3> HIDE DEF n, b
    <3> QED
      BY SMTT(60), <1>1, <3>1, ConsumeSound DEF b
  <2> QED
    BY <2>1, <2>2
<1> QED
  BY <1>3, <1>4

-----------------------------------------------------------------------------
(* Steps.                                                                 *)

LEMMA EffectiveType ==
  ASSUME NEW pol \in [Subjects -> PolicyType], NEW grp, NEW u \in Users
  PROVE  /\ Effective(pol, grp, u) \in Subjects \cup {"NONE"}
         /\ RuleOf(pol, Effective(pol, grp, u)) \in RuleType
<1>1. Effective(pol, grp, u) \in Subjects \cup {"NONE"}
  BY DEF Effective, Subjects, Shared
<1> QED
  BY <1>1 DEF RuleOf, RuleType, PolicyType

-----------------------------------------------------------------------------
(* The reset of a group meets a row that changed since it was read.        *)
StaleGroupReset ==
    CommitGroupReset /\ \E u \in Users : /\ bulk[u].pending
                                         /\ account[u].quota.version # bulk[u].row.version

(* What every step does to the accounts.                                   *)
AccountsEvolve ==
    /\ account' \in [Users -> AccountType]
    /\ \A u \in Users : SoundAccount(account'[u]) /\ Kept(account[u], account'[u])
    /\ StaleGroupReset \/ \A u \in Users : Exact(account[u]) => Exact(account'[u])

LEMMA OneAccountEvolves ==
  ASSUME QuotaInvariant, NEW u \in Users, NEW b, SoundAccount(b), Evolves(account[u], b),
         account' = [account EXCEPT ![u] = b]
  PROVE  AccountsEvolve
<1>1. account \in [Users -> AccountType] /\ b \in AccountType
  BY DEF QuotaInvariant, TypeOK, SoundAccount
<1>2. \A v \in Users : account'[v] = IF v = u THEN b ELSE account[v]
  BY <1>1
<1>3. \A v \in Users : SoundAccount(account'[v])
  BY <1>2 DEF QuotaInvariant
<1>4. \A v \in Users : Evolves(account[v], account'[v])
  BY <1>2, EvolvesReflexive
<1> QED
  BY <1>1, <1>3, <1>4 DEF AccountsEvolve, Evolves

LEMMA NoAccountEvolves ==
  ASSUME QuotaInvariant, account' = account
  PROVE  AccountsEvolve
BY EvolvesReflexive DEF QuotaInvariant, TypeOK, AccountsEvolve, Evolves

LEMMA MaterializeAllEvolves ==
  ASSUME QuotaInvariant, NEW pol \in [Subjects -> PolicyType],
         NEW grp, NEW us, NEW t \in Nat, account' = MaterializeAll(account, pol, grp, us, t)
  PROVE  AccountsEvolve
<1>2. ASSUME NEW v \in Users
      PROVE  SoundAccount(account'[v]) /\ Evolves(account[v], account'[v])
  <2> DEFINE id == Effective(pol, grp, v)
             m == Materialize(account[v], id, RuleOf(pol, id), t)
  <2>1. SoundAccount(account[v])
    BY DEF QuotaInvariant
  <2>2. account'[v] = IF v \in us THEN m ELSE account[v]
    BY DEF MaterializeAll, MaterializeFor
  <2>3. id \in Subjects \cup {"NONE"} /\ RuleOf(pol, id) \in RuleType
    BY EffectiveType
  <2> HIDE DEF id
  <2>4. SoundAccount(m) /\ Evolves(account[v], m)
    BY <2>1, <2>3, MaterializeSound
  <2> HIDE DEF m
  <2> QED
    BY <2>1, <2>2, <2>4, EvolvesReflexive
<1>3. DOMAIN account' = Users /\ account' = [v \in Users |-> account'[v]]
  BY DEF MaterializeAll
<1>4. \A v \in Users : account'[v] \in AccountType
  BY <1>2 DEF SoundAccount
<1> QED
  BY <1>2, <1>3, <1>4 DEF AccountsEvolve, Evolves

LEMMA GroupResetEvolves ==
  ASSUME QuotaInvariant, CommitGroupReset
  PROVE  AccountsEvolve
<1>0. bulk \in [Users -> [pending : BOOLEAN, at : Nat, row : QuotaType]]
  BY DEF QuotaInvariant, TypeOK
<1>1. account' = [u \in Users |-> IF bulk[u].pending
                                  THEN GroupReset(account[u], bulk[u].row, bulk[u].at)
                                  ELSE account[u]]
  BY DEF CommitGroupReset
<1>2. ASSUME NEW u \in Users
      PROVE  /\ SoundAccount(account'[u]) /\ Kept(account[u], account'[u])
             /\ \/ bulk[u].pending /\ account[u].quota.version # bulk[u].row.version
                \/ Exact(account[u]) => Exact(account'[u])
  <2> DEFINE r == bulk[u]
             b == GroupReset(account[u], r.row, r.at)
  <2>1. SoundAccount(account[u]) /\ ResetIsFresh(account[u], r) /\ r.at \in Nat
    BY <1>0 DEF QuotaInvariant
  <2>2. r.pending => /\ SoundAccount(b) /\ Kept(account[u], b)
                     /\ account[u].quota.version = r.row.version => Evolves(account[u], b)
    BY <2>1, GroupResetSound
  <2>3. account'[u] = IF r.pending THEN b ELSE account[u]
    BY <1>1
  <2>4. Evolves(account[u], account[u])
    BY EvolvesReflexive
  <2> HIDE DEF b
  <2> QED
    BY <2>1, <2>2, <2>3, <2>4 DEF Evolves
<1>3. account' = [u \in Users |-> account'[u]] /\ \A u \in Users : account'[u] \in AccountType
  BY <1>1, <1>2 DEF SoundAccount
<1> QED
  BY <1>2, <1>3 DEF AccountsEvolve, StaleGroupReset

(* Every transaction leaves every account sound and every closed            *)
(* reservation closed.                                                      *)
LEMMA StepEvolves ==
  ASSUME QuotaInvariant, [Next]_vars
  PROVE  AccountsEvolve
<1>0. /\ now \in Nat /\ policies \in [Subjects -> PolicyType]
      /\ account \in [Users -> AccountType]
      /\ resetting \in [Users -> [pending : BOOLEAN, at : Nat, row : QuotaType]]
      /\ Amounts \subseteq Nat
  BY QuotaAssumption DEF QuotaInvariant, TypeOK
<1>1. CASE Tick
  BY <1>1, NoAccountEvolves DEF Tick
<1>2. ASSUME NEW u \in Users, NEW o \in Operations, NEW n \in Amounts, Create(u, o, n)
      PROVE  AccountsEvolve
  <2> DEFINE id == Effective(policies, group, u)
  <2>1. PICK t \in {now, now + 1}, blocked \in BOOLEAN :
            account' = [account EXCEPT ![u] =
                CreateResult(@, id, RuleOf(policies, id), o, n, now, t, blocked)]
    BY ZenonT(60), <1>2 DEF Create
  <2> DEFINE b == CreateResult(account[u], id, RuleOf(policies, id), o, n, now, t, blocked)
  <2>2. account' = [account EXCEPT ![u] = b]
    BY <1>0, <2>1
  <2>3. id \in Subjects \cup {"NONE"} /\ RuleOf(policies, id) \in RuleType
        /\ n \in Nat /\ t \in Nat /\ SoundAccount(account[u])
    <3>1. id \in Subjects \cup {"NONE"} /\ RuleOf(policies, id) \in RuleType
      BY Zenon, <1>0, EffectiveType
    <3>2. SoundAccount(account[u])
      BY Zenon DEF QuotaInvariant
    <3>3. n \in Nat /\ t \in Nat
      BY <1>0
    <3> QED
      BY Zenon, <3>1, <3>2, <3>3
  <2> HIDE DEF id
  <2>4. SoundAccount(b) /\ Evolves(account[u], b)
    BY ZenonT(60), <1>0, <2>3, CreateSound
  <2> HIDE DEF b
  <2> QED
    BY ZenonT(60), <2>2, <2>4, OneAccountEvolves
<1>3. ASSUME NEW u \in Users, NEW o \in Operations, NEW n \in Amounts, Settle(u, o, n)
      PROVE  AccountsEvolve
  <2> DEFINE b == Close(account[u], o, "SETTLED", n, <<"settle", o>>)
  <2>1. account' = [account EXCEPT ![u] = b] /\ Closable(account[u], o, <<"settle", o>>)
    BY <1>0, <1>3 DEF Settle
  <2>2. SoundAccount(account[u]) /\ n \in Nat /\ KeyFits(<<"settle", o>>, o, "SETTLED")
    BY <1>0 DEF QuotaInvariant, KeyFits
  <2>3. SoundAccount(b) /\ Evolves(account[u], b)
    BY <2>1, <2>2, CloseSound
  <2> HIDE DEF b
  <2> QED
    BY ZenonT(60), <2>1, <2>3, OneAccountEvolves
<1>4. ASSUME NEW u \in Users, NEW o \in Operations, Release(u, o)
      PROVE  AccountsEvolve
  <2> DEFINE b == Close(account[u], o, "RELEASED", 0, <<"release", o>>)
  <2>1. account' = [account EXCEPT ![u] = b] /\ Closable(account[u], o, <<"release", o>>)
    BY <1>0, <1>4 DEF Release
  <2>2. SoundAccount(account[u]) /\ KeyFits(<<"release", o>>, o, "RELEASED")
    BY <1>0 DEF QuotaInvariant, KeyFits
  <2>3. SoundAccount(b) /\ Evolves(account[u], b)
    BY <2>1, <2>2, CloseSound
  <2> HIDE DEF b
  <2> QED
    BY ZenonT(60), <2>1, <2>3, OneAccountEvolves
<1>5. ASSUME NEW u \in Users, NEW o \in Operations, Expire(u, o)
      PROVE  AccountsEvolve
  <2> DEFINE b == Close(account[u], o, "EXPIRED", 0, <<"expire", o>>)
  <2>1. account' = [account EXCEPT ![u] = b] /\ Closable(account[u], o, <<"expire", o>>)
    BY <1>0, <1>5 DEF Expire
  <2>2. SoundAccount(account[u]) /\ KeyFits(<<"expire", o>>, o, "EXPIRED")
    BY <1>0 DEF QuotaInvariant, KeyFits
  <2>3. SoundAccount(b) /\ Evolves(account[u], b)
    BY <2>1, <2>2, CloseSound
  <2> HIDE DEF b
  <2> QED
    BY ZenonT(60), <2>1, <2>3, OneAccountEvolves
<1>6. ASSUME NEW e \in Events, NEW n \in Amounts \cup {NoAiu}, Commit(e, n)
      PROVE  AccountsEvolve
  <2> DEFINE u == EventUser[e]
             id == Effective(policies, group, u)
             m == Materialize(account[u], id, RuleOf(policies, id), now)
             a == IF n = NoAiu THEN account[u] ELSE m
             b == ApplyUserAiu(a, EventOperation[e], e, n)
  <2>1. u \in Users /\ n \in Nat \cup {NoAiu}
    BY <1>0, QuotaAssumption
  <2>2. /\ account' = [account EXCEPT ![u] = b]
        /\ Applicable(a, EventOperation[e], e, IF n = NoAiu THEN 0 ELSE n)
    BY <1>6 DEF Commit, MaterializeFor
  <2> HIDE DEF u
  <2>3. id \in Subjects \cup {"NONE"} /\ RuleOf(policies, id) \in RuleType
    BY <1>0, <2>1, EffectiveType
  <2>4. SoundAccount(account[u])
    BY <2>1 DEF QuotaInvariant
  <2> HIDE DEF id
  <2>5. SoundAccount(m) /\ Evolves(account[u], m)
    BY <1>0, <2>3, <2>4, MaterializeSound
  <2> HIDE DEF m
  <2>6. SoundAccount(a) /\ Evolves(account[u], a)
    BY <2>4, <2>5, EvolvesReflexive
  <2> HIDE DEF a
  <2>7. SoundAccount(b) /\ Evolves(a, b)
    BY <2>1, <2>2, <2>6, ApplySound
  <2> HIDE DEF b
  <2>8. Evolves(account[u], b)
    BY <2>4, <2>6, <2>7, EvolvesTransitive
  <2> QED
    BY ZenonT(60), <2>1, <2>2, <2>7, <2>8, OneAccountEvolves
<1>7. ASSUME NEW u \in Users, NEW p \in UserRules, SaveQuota(u, p)
      PROVE  AccountsEvolve
  <2> DEFINE b == SavedQuota(account[u], u, p, now)
  <2>1. account' = [account EXCEPT ![u] = b]
    BY <1>0, <1>7 DEF SaveQuota
  <2>2. SoundAccount(account[u]) /\ p \in RuleType /\ u \in Subjects
    BY QuotaAssumption DEF QuotaInvariant, Subjects
  <2>3. SoundAccount(b) /\ Evolves(account[u], b)
    BY <1>0, <2>2, SavedQuotaSound
  <2> HIDE DEF b
  <2> QED
    BY ZenonT(60), <2>1, <2>3, OneAccountEvolves
<1>8. ASSUME NEW u \in Users, CommitReset(u)
      PROVE  AccountsEvolve
  <2> DEFINE r == resetting[u]
             b == ResetAccount(account[u], r.row, r.at)
  <2>1. account' = [account EXCEPT ![u] = b] /\ r.pending
    BY <1>0, <1>8 DEF CommitReset
  <2>2. SoundAccount(account[u]) /\ ResetIsFresh(account[u], r) /\ r.at \in Nat
    BY <1>0 DEF QuotaInvariant
  <2>3. SoundAccount(b) /\ Evolves(account[u], b)
    BY <2>1, <2>2, ResetSound
  <2> HIDE DEF b
  <2> QED
    BY ZenonT(60), <2>1, <2>3, OneAccountEvolves
<1>9. ASSUME NEW u \in Users, ReadReset(u)
      PROVE  AccountsEvolve
  BY <1>9, NoAccountEvolves DEF ReadReset
<1>10. ASSUME NEW s \in Shared, NEW row \in PolicyType,
              WriteRule(s, row)
       PROVE  AccountsEvolve
  <2> DEFINE pol == [policies EXCEPT ![s] = row]
  <2>1. account' = MaterializeAll(account, pol, group, Affected(s), now)
    BY <1>10 DEF WriteRule
  <2>2. pol \in [Subjects -> PolicyType]
    BY ZenonT(60), <1>0
  <2> HIDE DEF pol
  <2> QED
    BY <1>0, <2>1, <2>2, MaterializeAllEvolves
<1>11. ASSUME NEW s \in Shared, NEW p \in SharedRules, SaveRule(s, p)
       PROVE  AccountsEvolve
  <2>1. [saved |-> TRUE, enabled |-> TRUE, rule |-> p] \in PolicyType
    BY QuotaAssumption DEF PolicyType
  <2> QED
    BY <1>10, <1>11, <2>1 DEF SaveRule
<1>12. ASSUME NEW s \in Shared, DisableRule(s)
       PROVE  AccountsEvolve
  <2>1. policies[s] \in PolicyType
    BY <1>0 DEF Subjects
  <2>2. [policies[s] EXCEPT !.enabled = FALSE] \in PolicyType
    BY ZenonT(60), <2>1 DEF PolicyType
  <2> QED
    BY <1>10, <1>12, <2>2 DEF DisableRule
<1>13. CASE RedefineGroup
  BY <1>13, NoAccountEvolves DEF RedefineGroup
<1>14. ASSUME NEW members \in Memberships, NEW t \in 0 .. now, RefreshGroup(members, t)
       PROVE  AccountsEvolve
  <2>1. CASE policies["USER_GROUP"].enabled
    <3> DEFINE at == IF t > group.at THEN t ELSE group.at
    <3>1. account' = MaterializeAll(account, policies, group', group.members \cup members, at)
      BY <1>14, <2>1 DEF RefreshGroup
    <3>2. at \in Nat
      BY <1>0 DEF QuotaInvariant, TypeOK, GroupType
    <3> HIDE DEF at
    <3> QED
      BY <1>0, <3>1, <3>2, MaterializeAllEvolves
  <2>2. CASE ~policies["USER_GROUP"].enabled
    BY <1>14, <2>2, NoAccountEvolves DEF RefreshGroup
  <2> QED
    BY <2>1, <2>2
<1>15. CASE ReadGroupReset
  BY <1>15, NoAccountEvolves DEF ReadGroupReset
<1>16. CASE CommitGroupReset
  BY <1>16, GroupResetEvolves
<1>17. CASE UNCHANGED vars
  BY <1>17, NoAccountEvolves DEF vars
<1> QED
  BY <1>1, <1>2, <1>3, <1>4, <1>5, <1>6, <1>7, <1>8, <1>9, <1>11, <1>12, <1>13, <1>14, <1>15,
     <1>16, <1>17
  DEF Next

LEMMA InitSound ==
  Init => QuotaInvariant
<1> SUFFICES ASSUME Init PROVE QuotaInvariant
  OBVIOUS
<1>1. NewQuota \in QuotaType
  BY DEF NewQuota, QuotaType, NoEnd
<1>2. NewReservation \in ReservationType
  BY DEF NewReservation, ReservationType, Statuses
<1>3. NewLedger \in LedgerType
  BY DEF NewLedger, LedgerType
<1>4. NewAccount \in AccountType
  BY <1>1, <1>2, <1>3 DEF NewAccount, AccountType
<1>5. NoRule \in PolicyType
  BY DEF NoRule, RuleType, PolicyType
<1>6. NoReset \in [pending : BOOLEAN, at : Nat, row : QuotaType] /\ ~NoReset.pending
  BY <1>1 DEF NoReset
<1>7. TypeOK
  <2>1. group \in GroupType
    <3>1. CASE group = [members |-> {}, current |-> FALSE, at |-> 0]
      BY <3>1 DEF GroupType
    <3>2. ASSUME NEW m \in Memberships, group = [members |-> m, current |-> TRUE, at |-> 0]
          PROVE  group \in GroupType
      BY <3>2, QuotaAssumption DEF GroupType
    <3> QED
      BY Zenon, <3>1, <3>2 DEF Init
  <2> QED
    BY <1>4, <1>5, <1>6, <2>1 DEF Init, TypeOK
<1>8. SoundAccount(NewAccount)
  <2>1. /\ OpenAmounts(NewAccount) \in [Operations -> Nat]
        /\ SettledAmounts(NewAccount) \in [Operations -> Nat]
        /\ NewAccount.ledger.consumedBy \in [Events -> Nat]
    BY <1>4, AmountsType
  <2>2. /\ \A o \in Operations : OpenAmounts(NewAccount)[o] = 0 /\ SettledAmounts(NewAccount)[o] = 0
        /\ \A e \in Events : NewAccount.ledger.consumedBy[e] = 0
    BY DEF OpenAmounts, SettledAmounts, NewAccount, NewReservation, NewLedger
  <2>3. /\ Total(OpenAmounts(NewAccount)) = 0 /\ Total(SettledAmounts(NewAccount)) = 0
        /\ Total(NewAccount.ledger.consumedBy) = 0
    BY <2>1, <2>2, TotalZero
  <2>4. LedgerExplains(NewAccount.ledger, NewAccount.quota) /\ KeyDiscipline(NewAccount)
    <3>1. NewAccount.quota = NewQuota /\ NewAccount.ledger = NewLedger
      BY DEF NewAccount
    <3>2. LedgerExplains(NewLedger, NewQuota)
      <4>1. /\ NewLedger.charged = 0 /\ NewLedger.adjusted = 0 /\ NewLedger.reserved = 0
            /\ NewLedger.consumedAfter = 0 /\ NewLedger.reservedAfter = 0
            /\ NewLedger.limitAfter = 0
        BY Zenon DEF NewLedger
      <4>2. /\ NewQuota.consumed = 0 /\ NewQuota.reserved = 0 /\ NewQuota.limit = 0
            /\ NewQuota.exists = FALSE
        BY Zenon DEF NewQuota
      <4> QED
        BY <4>1, <4>2 DEF LedgerExplains
    <3>3. NewLedger.keys = {} /\ \A e \in Events : NewLedger.consumedBy[e] = 0
      BY DEF NewLedger
    <3>4. KeyDiscipline(NewAccount)
      BY <3>1, <3>3 DEF KeyDiscipline
    <3> QED
      BY <3>1, <3>2, <3>4
  <2>5. NewAccount.quota.reserved = 0 /\ NewAccount.ledger.charged = 0
    BY DEF NewAccount, NewQuota, NewLedger
  <2>6. \A o \in Operations : NewAccount.reservations[o].settled = 0
    BY DEF NewAccount, NewReservation
  <2> QED
    <3>1. 0 >= 0 /\ 0 = 0 + 0
      OBVIOUS
    <3> QED
      BY ZenonT(60), <1>4, <2>3, <2>4, <2>5, <2>6, <3>1 DEF SoundAccount
<1>9. Ruled(NewAccount)
  BY DEF Ruled, NewAccount, NewQuota
<1> QED
  BY <1>6, <1>7, <1>8, <1>9 DEF Init, QuotaInvariant, ResetIsFresh

LEMMA StepType ==
  ASSUME QuotaInvariant, [Next]_vars, AccountsEvolve
  PROVE  TypeOK'
<1>0. TypeOK /\ account' \in [Users -> AccountType] /\ Amounts \subseteq Nat
  BY QuotaAssumption DEF QuotaInvariant, AccountsEvolve
<1> USE DEF TypeOK
<1>1. CASE Tick
  BY SMTT(60), <1>0, <1>1 DEF Tick
<1>2. ASSUME NEW u \in Users, NEW o \in Operations, NEW n \in Amounts,
             Create(u, o, n) \/ Settle(u, o, n) \/ Release(u, o) \/ Expire(u, o)
      PROVE  TypeOK'
  <2>1. now \in Nat
    BY <1>0
  <2>2. now' \in Nat
    <3>1. CASE Create(u, o, n)
      <4>1. PICK t \in {now, now + 1} : now' = t
        BY <3>1 DEF Create
      <4> QED
        BY <2>1, <4>1
    <3> QED
      BY <1>2, <2>1, <3>1 DEF Settle, Release, Expire
  <2>3. UNCHANGED <<policies, group, rating, resetting, bulk, admin>>
    BY <1>2 DEF Create, Settle, Release, Expire
  <2> QED
    BY <1>0, <2>2, <2>3
<1>3. ASSUME NEW u \in Users, NEW o \in Operations, Release(u, o) \/ Expire(u, o)
      PROVE  TypeOK'
  <2>1. UNCHANGED <<now, policies, group, rating, resetting, bulk, admin>>
    BY <1>3 DEF Release, Expire
  <2> QED
    BY <1>0, <2>1
<1>4. ASSUME NEW e \in Events, NEW n \in Amounts \cup {NoAiu}, Commit(e, n)
      PROVE  TypeOK'
  <2>1. rating' \in [Events -> Nat \cup {NoAiu, None}]
    BY <1>0, <1>4 DEF Commit
  <2> QED
    BY <1>0, <1>4, <2>1 DEF Commit
<1>5. ASSUME NEW u \in Users, NEW p \in UserRules, SaveQuota(u, p)
      PROVE  TypeOK'
  <2>1. policies' \in [Subjects -> PolicyType]
    BY ZenonT(60), <1>0, <1>5, QuotaAssumption DEF SaveQuota, PolicyType
  <2> QED
    BY <1>0, <1>5, <2>1 DEF SaveQuota
<1>6. ASSUME NEW u \in Users, ReadReset(u)
      PROVE  TypeOK'
  <2>1. account[u].quota \in QuotaType
    BY <1>0 DEF AccountType
  <2>2. resetting' \in [Users -> [pending : BOOLEAN, at : Nat, row : QuotaType]]
    BY <1>0, <1>6, <2>1 DEF ReadReset
  <2> QED
    BY <1>0, <1>6, <2>2 DEF ReadReset
<1>7. ASSUME NEW u \in Users, CommitReset(u)
      PROVE  TypeOK'
  <2>1. NoReset \in [pending : BOOLEAN, at : Nat, row : QuotaType]
    BY NoResetTyped
  <2>2. resetting' \in [Users -> [pending : BOOLEAN, at : Nat, row : QuotaType]]
    BY <1>0, <1>7, <2>1 DEF CommitReset
  <2> QED
    BY <1>0, <1>7, <2>2 DEF CommitReset
<1>8. ASSUME NEW s \in Shared, NEW row \in PolicyType,
             WriteRule(s, row)
      PROVE  TypeOK'
  <2>1. policies' \in [Subjects -> PolicyType]
    BY ZenonT(60), <1>0, <1>8 DEF WriteRule
  <2>2. admin' \in Nat /\ UNCHANGED <<now, group, rating, resetting, bulk>>
    BY <1>0, <1>8 DEF WriteRule
  <2> QED
    BY <1>0, <2>1, <2>2
<1>9. ASSUME NEW s \in Shared, NEW p \in SharedRules, SaveRule(s, p)
      PROVE  TypeOK'
  <2>1. [saved |-> TRUE, enabled |-> TRUE, rule |-> p] \in PolicyType
    BY QuotaAssumption DEF PolicyType
  <2> QED
    BY <1>8, <1>9, <2>1 DEF SaveRule
<1>10. ASSUME NEW s \in Shared, DisableRule(s)
       PROVE  TypeOK'
  <2>1. policies[s] \in PolicyType
    BY <1>0 DEF Subjects
  <2>2. [policies[s] EXCEPT !.enabled = FALSE] \in PolicyType
    BY ZenonT(60), <2>1 DEF PolicyType
  <2> QED
    BY <1>8, <1>10, <2>2 DEF DisableRule
<1>11. CASE RedefineGroup
  <2>1. group' \in GroupType
    BY ZenonT(60), <1>0, <1>11 DEF RedefineGroup, GroupType
  <2>2. admin' \in Nat /\ UNCHANGED <<now, policies, rating, resetting, bulk>>
    BY <1>0, <1>11 DEF RedefineGroup
  <2> QED
    BY <1>0, <2>1, <2>2
<1>12. ASSUME NEW members \in Memberships, NEW t \in 0 .. now, RefreshGroup(members, t)
       PROVE  TypeOK'
  <2>1. members \in SUBSET Users
    BY QuotaAssumption
  <2>2. group' \in GroupType
    <3> DEFINE at == IF t > group.at THEN t ELSE group.at
    <3>1. group' = [members |-> members, current |-> TRUE, at |-> at]
      BY <1>12 DEF RefreshGroup
    <3>2. at \in Nat
      BY <1>0 DEF GroupType
    <3> HIDE DEF at
    <3> QED
      BY <2>1, <3>1, <3>2 DEF GroupType
  <2>3. admin' \in Nat /\ UNCHANGED <<now, policies, rating, resetting, bulk>>
    <3>1. admin' = admin + 1 /\ UNCHANGED <<now, policies, rating, resetting, bulk>>
      BY Zenon, <1>12 DEF RefreshGroup
    <3> QED
      BY <1>0, <3>1
  <2> QED
    BY <1>0, <2>2, <2>3
<1>13. CASE UNCHANGED vars
  BY <1>0, <1>13 DEF vars
<1>14. CASE ReadGroupReset \/ CommitGroupReset
  <2>1. NoReset \in [pending : BOOLEAN, at : Nat, row : QuotaType]
    BY NoResetTyped
  <2>2. now \in Nat /\ \A u \in Users : account[u].quota \in QuotaType
    BY <1>0 DEF AccountType
  <2>3. bulk' \in [Users -> [pending : BOOLEAN, at : Nat, row : QuotaType]]
    <3>1. CASE ReadGroupReset
      <4>1. bulk' = [u \in Users |->
                       IF u \in group.members /\ account[u].quota.exists
                       THEN [pending |-> TRUE, at |-> now, row |-> account[u].quota] ELSE NoReset]
        BY Zenon, <3>1 DEF ReadGroupReset
      <4>2. \A u \in Users : [pending |-> TRUE, at |-> now, row |-> account[u].quota] \in
                                 [pending : BOOLEAN, at : Nat, row : QuotaType]
        BY <2>2
      <4> HIDE DEF TypeOK
      <4> QED
        BY ONLY Zenon, <2>1, <4>1, <4>2
    <3>2. CASE CommitGroupReset
      BY <2>1, <3>2 DEF CommitGroupReset
    <3> QED
      BY <1>14, <3>1, <3>2
  <2>4. admin' \in Nat /\ UNCHANGED <<now, policies, group, rating, resetting>>
    <3>1. admin \in Nat
      BY <1>0
    <3>2. CASE ReadGroupReset
      BY ONLY <3>1, <3>2 DEF ReadGroupReset
    <3>3. CASE CommitGroupReset
      BY ONLY <3>1, <3>3 DEF CommitGroupReset
    <3> QED
      BY <1>14, <3>2, <3>3
  <2> QED
    BY <1>0, <2>3, <2>4
<1> HIDE DEF TypeOK
<1> QED
  BY SMTT(60), <1>1, <1>2, <1>3, <1>4, <1>5, <1>6, <1>7, <1>9, <1>10, <1>11, <1>12, <1>13, <1>14
  DEF Next

(* A pending reset stays fresh or becomes bound to fail.                   *)
LEMMA FreshKept ==
  ASSUME NEW a \in AccountType, NEW b \in AccountType, Kept(a, b),
         NEW r, r.row \in QuotaType, ResetIsFresh(a, r)
  PROVE  ResetIsFresh(b, r)
<1>1. a.quota.version \in Nat /\ b.quota.version \in Nat /\ r.row.version \in Nat
  BY DEF AccountType, QuotaType
<1>2. a.quota.exists => b.quota.exists /\ (b.quota = a.quota \/ b.quota.version > a.quota.version)
  BY Zenon DEF Kept
<1> QED
  BY <1>1, <1>2 DEF ResetIsFresh

LEMMA FreshRead ==
  ASSUME NEW a \in AccountType, a.quota.exists, NEW t
  PROVE  ResetIsFresh(a, [pending |-> TRUE, at |-> t, row |-> a.quota])
<1>1. a.quota.version \in Nat
  BY DEF AccountType, QuotaType
<1> QED
  BY <1>1 DEF ResetIsFresh

LEMMA StepFresh ==
  ASSUME QuotaInvariant, [Next]_vars, AccountsEvolve, NEW u \in Users
  PROVE  ResetIsFresh(account'[u], resetting'[u]) /\ ResetIsFresh(account'[u], bulk'[u])
<1>0. /\ account[u] \in AccountType /\ account'[u] \in AccountType
      /\ resetting \in [Users -> [pending : BOOLEAN, at : Nat, row : QuotaType]]
      /\ bulk \in [Users -> [pending : BOOLEAN, at : Nat, row : QuotaType]]
  BY Zenon DEF QuotaInvariant, TypeOK, AccountsEvolve
<1>1. /\ resetting[u].row \in QuotaType /\ bulk[u].row \in QuotaType
      /\ ResetIsFresh(account[u], resetting[u]) /\ ResetIsFresh(account[u], bulk[u])
      /\ Kept(account[u], account'[u])
  BY <1>0 DEF QuotaInvariant, AccountsEvolve
<1>2. ResetIsFresh(account'[u], resetting[u]) /\ ResetIsFresh(account'[u], bulk[u])
  BY Zenon, <1>0, <1>1, FreshKept
<1>3. \A a : ResetIsFresh(a, NoReset)
  BY DEF ResetIsFresh, NoReset
<1>4. \/ UNCHANGED <<resetting, bulk>>
      \/ \E v \in Users : ReadReset(v) \/ CommitReset(v)
      \/ ReadGroupReset \/ CommitGroupReset
  BY ZenonT(60) DEF Next, vars, Tick, Create, Settle, Release, Expire, Commit, SaveQuota, SaveRule,
                    DisableRule, WriteRule, RedefineGroup, RefreshGroup
<1>5. CASE UNCHANGED <<resetting, bulk>>
  BY <1>2, <1>5
<1>6. ASSUME NEW v \in Users, ReadReset(v)
      PROVE  ResetIsFresh(account'[u], resetting'[u]) /\ ResetIsFresh(account'[u], bulk'[u])
  <2>1. /\ account' = account /\ bulk' = bulk /\ account[v].quota.exists
        /\ resetting' = [resetting EXCEPT ![v] =
                             [pending |-> TRUE, at |-> now, row |-> account[v].quota]]
    BY <1>6 DEF ReadReset
  <2>2. CASE u = v
    <3>1. resetting'[u] = [pending |-> TRUE, at |-> now, row |-> account[u].quota]
      BY <1>0, <2>1, <2>2
    <3> QED
      BY <1>0, <1>2, <2>1, <2>2, <3>1, FreshRead
  <2>3. CASE u # v
    BY <1>0, <1>2, <2>1, <2>3
  <2> QED
    BY <2>2, <2>3
<1>7. ASSUME NEW v \in Users, CommitReset(v)
      PROVE  ResetIsFresh(account'[u], resetting'[u]) /\ ResetIsFresh(account'[u], bulk'[u])
  <2>1. bulk' = bulk /\ resetting'[u] \in {resetting[u], NoReset}
    BY <1>0, <1>7 DEF CommitReset
  <2> QED
    BY <1>2, <1>3, <2>1
<1>8. CASE ReadGroupReset
  <2>1. /\ account' = account /\ resetting' = resetting
        /\ bulk'[u] = IF u \in group.members /\ account[u].quota.exists
                      THEN [pending |-> TRUE, at |-> now, row |-> account[u].quota] ELSE NoReset
    BY <1>8 DEF ReadGroupReset
  <2>2. CASE account[u].quota.exists
    <3>1. ResetIsFresh(account[u], [pending |-> TRUE, at |-> now, row |-> account[u].quota])
      BY <1>0, <2>2, FreshRead
    <3> QED
      BY <1>2, <1>3, <2>1, <3>1
  <2>3. CASE ~account[u].quota.exists
    BY <1>2, <1>3, <2>1, <2>3
  <2> QED
    BY <2>2, <2>3
<1>9. CASE CommitGroupReset
  <2>1. resetting' = resetting /\ bulk'[u] = NoReset
    BY <1>9 DEF CommitGroupReset
  <2> QED
    BY <1>2, <1>3, <2>1
<1> QED
  BY Zenon, <1>4, <1>5, <1>6, <1>7, <1>8, <1>9

-----------------------------------------------------------------------------
(* Admission.                                                             *)

(* A transaction that opens no reservation and leaves no row without a rule *)
(* switched on.                                                             *)
Tame(a, b) ==
    /\ Ruled(a) => Ruled(b)
    /\ \A o \in Operations :
           a.reservations[o].status = "NONE" => b.reservations[o].status = "NONE"

LEMMA TameReflexive ==
  ASSUME NEW a
  PROVE  Tame(a, a)
BY DEF Tame

LEMMA TameTransitive ==
  ASSUME NEW a, NEW b, NEW c, Tame(a, b), Tame(b, c)
  PROVE  Tame(a, c)
BY DEF Tame

LEMMA CloseAllTame ==
  ASSUME NEW rs \in [Operations -> ReservationType], NEW status, NEW o \in Operations,
         rs[o].status = "NONE"
  PROVE  CloseAll(rs, status)[o].status = "NONE"
BY DEF CloseAll

(* Applying a rule, whichever it is, is tame.                               *)
LEMMA MaterializeTame ==
  ASSUME NEW a \in AccountType, NEW id, NEW p, NEW t
  PROVE  Tame(a, Materialize(a, id, p, t))
<1> DEFINE m == Materialize(a, id, p, t)
<1>1. m.reservations \in {a.reservations, CloseAll(a.reservations, "RELEASED")}
  BY Zenon DEF Materialize
<1>2. m = a \/ ~m.quota.enabled \/ m.quota.policy # "NONE"
  BY Zenon DEF Materialize
<1> HIDE DEF m
<1>3. a.reservations \in [Operations -> ReservationType]
  BY DEF AccountType
<1> QED
  BY <1>1, <1>2, <1>3, CloseAllTame DEF Tame, Ruled, m

LEMMA RolloverTame ==
  ASSUME NEW a \in AccountType, NEW t
  PROVE  Tame(a, Rollover(a, t))
<1> DEFINE m == Rollover(a, t)
<1>1. m.reservations \in {a.reservations, CloseAll(a.reservations, "EXPIRED")}
  BY DEF Rollover
<1>2. m.quota.enabled = a.quota.enabled /\ m.quota.policy = a.quota.policy
  BY DEF Rollover, Restart
<1> HIDE DEF m
<1>3. a.reservations \in [Operations -> ReservationType]
  BY DEF AccountType
<1> QED
  BY <1>1, <1>2, <1>3, CloseAllTame DEF Tame, Ruled, m

LEMMA ResetTame ==
  ASSUME NEW a \in AccountType, NEW row, NEW t
  PROVE  Tame(a, ResetAccount(a, row, t))
<1> DEFINE m == ResetAccount(a, row, t)
<1>1. m.reservations \in {a.reservations, CloseAll(a.reservations, "RELEASED")}
  BY Zenon DEF ResetAccount
<1>2. m.quota.enabled = a.quota.enabled /\ m.quota.policy = a.quota.policy
  BY DEF ResetAccount, Restart
<1> HIDE DEF m
<1>3. a.reservations \in [Operations -> ReservationType]
  BY DEF AccountType
<1> QED
  BY Zenon, <1>1, <1>2, <1>3, CloseAllTame DEF Tame, Ruled, m

LEMMA GroupResetTame ==
  ASSUME NEW a \in AccountType, NEW row, NEW t
  PROVE  Tame(a, GroupReset(a, row, t))
<1> DEFINE m == GroupReset(a, row, t)
           rs == CloseAll(a.reservations, "RELEASED")
<1>1. a.reservations \in [Operations -> ReservationType]
      /\ a = [quota |-> a.quota, reservations |-> a.reservations, ledger |-> a.ledger]
  BY DEF AccountType
<1>2. m.reservations = rs
  BY <1>1 DEF GroupReset
<1>3. m.quota.enabled = a.quota.enabled /\ m.quota.policy = a.quota.policy
  BY <1>1 DEF GroupReset, Restart
<1> HIDE DEF m
<1> QED
  BY Zenon, <1>1, <1>2, <1>3, CloseAllTame DEF Tame, Ruled, m

LEMMA SavedQuotaTame ==
  ASSUME NEW a, NEW id, id # "NONE", NEW p, NEW t
  PROVE  Tame(a, SavedQuota(a, id, p, t))
BY Zenon DEF SavedQuota, Tame, Ruled

LEMMA CloseTame ==
  ASSUME NEW a \in AccountType, NEW o \in Operations, NEW status, NEW spent, NEW key,
         a.reservations[o].status = "RESERVED"
  PROVE  Tame(a, Close(a, o, status, spent, key))
<1> DEFINE b == Close(a, o, status, spent, key)
<1>1. a.quota \in QuotaType /\ a.reservations \in [Operations -> ReservationType]
  BY DEF AccountType
<1>2. b.quota.policy = a.quota.policy /\ b.quota.enabled = a.quota.enabled
  BY <1>1 DEF Close, QuotaType
<1>3. \A x \in Operations : x # o => b.reservations[x] = a.reservations[x]
  BY <1>1 DEF Close
<1> HIDE DEF b
<1> QED
  BY Zenon, <1>2, <1>3 DEF Tame, Ruled, b

(* Applying the usage of an event settles or corrects what was reserved.    *)
LEMMA ApplyTame ==
  ASSUME NEW a \in AccountType, NEW e \in Events, NEW actual,
         Applicable(a, EventOperation[e], e, IF actual = NoAiu THEN 0 ELSE actual)
  PROVE  Tame(a, ApplyUserAiu(a, EventOperation[e], e, actual))
<1> DEFINE o == EventOperation[e]
           n == IF actual = NoAiu THEN 0 ELSE actual
           b == ApplyUserAiu(a, o, e, actual)
<1>1. a.quota \in QuotaType /\ a.reservations \in [Operations -> ReservationType]
  BY DEF AccountType
<1>2. CASE b = a
  BY <1>2, TameReflexive
<1>3. CASE o # None /\ a.reservations[o].status = "RESERVED"
  <2>1. b = Close(a, o, "SETTLED", n, <<"usage-settle", e>>) /\ o \in Operations
    BY Zenon, <1>3, QuotaAssumption DEF ApplyUserAiu
  <2> HIDE DEF b, n
  <2> QED
    BY <1>3, <2>1, CloseTame DEF b
<1>4. CASE b = Correct(a, o, e, n) /\ o # None /\ a.reservations[o].status # "RESERVED" /\ b # a
  <2>1. o \in Operations
    BY Zenon, <1>4, QuotaAssumption
  <2>2. a.reservations[o].status = "SETTLED"
    BY Zenon, <1>4 DEF Applicable, Closable, ApplyUserAiu
  <2> HIDE DEF o, n, b
  <2>3. b.quota.policy = a.quota.policy /\ b.quota.enabled = a.quota.enabled
    BY <1>1, <1>4 DEF Correct, QuotaType
  <2>4. \A x \in Operations : x # o => b.reservations[x] = a.reservations[x]
    BY <1>1, <1>4 DEF Correct
  <2> QED
    BY Zenon, <2>2, <2>3, <2>4 DEF Tame, Ruled, b, o
<1>5. CASE b = Consume(a, e, n)
  <2> HIDE DEF n, b
  <2>1. b.quota.policy = a.quota.policy /\ b.quota.enabled = a.quota.enabled
    BY Zenon, <1>1, <1>5 DEF Consume, QuotaType
  <2>2. b.reservations = a.reservations
    BY <1>5 DEF Consume
  <2> QED
    BY Zenon, <2>1, <2>2 DEF Tame, Ruled, b
<1> QED
  BY Zenon, <1>2, <1>3, <1>4, <1>5 DEF ApplyUserAiu

(* What an account looks like after o was admitted to it at time t under    *)
(* the rule p of subject id.                                                *)
Admitted(a, b, o, id, p, t) ==
    /\ Ruled(b)
    /\ \A x \in Operations \ {o} :
           a.reservations[x].status = "NONE" => b.reservations[x].status = "NONE"
    /\ id # "NONE" /\ b.quota.policy = id /\ p.hardLimit /\ b.quota.limit = p.limit
    /\ b.quota.end = NoEnd \/ t < b.quota.end
    /\ b.reservations[o].reserved = 0 \/ b.quota.consumed + b.quota.reserved <= b.quota.limit

(* A row that enforces a limit right after the rule was applied enforces    *)
(* that rule.                                                               *)
LEMMA EnforcedRule ==
  ASSUME NEW a, Ruled(a), NEW id, NEW p, NEW t1, NEW t2,
         Enforced(Materialize(a, id, p, t1).quota, t2)
  PROVE  LET q == Materialize(a, id, p, t1).quota
         IN  id # "NONE" /\ q.policy = id /\ q.limit = p.limit /\ p.hardLimit
<1> DEFINE m == Materialize(a, id, p, t1)
<1>1. m.quota.exists /\ m.quota.enabled /\ m.quota.hardLimit
  BY DEF Enforced
<1>2. id # "NONE"
  <2> SUFFICES ASSUME id = "NONE" PROVE FALSE
    OBVIOUS
  <2>1. m = a \/ ~m.quota.enabled
    BY Zenon DEF Materialize
  <2>2. m = a => ~m.quota.exists \/ m.quota.policy = "NONE" \/ ~m.quota.enabled
    BY Zenon DEF Materialize
  <2> HIDE DEF m
  <2> QED
    BY <1>1, <2>1, <2>2 DEF Ruled
<1>3. m.quota.policy = id /\ m.quota.limit = p.limit /\ m.quota.hardLimit = p.hardLimit
  BY Zenon, <1>2 DEF Materialize
<1> HIDE DEF m
<1> QED
  BY <1>1, <1>2, <1>3 DEF m

(* After the clock was looked at again, the window of a row that enforces   *)
(* its limit has not ended.                                                 *)
LEMMA RolloverOpensWindow ==
  ASSUME NEW a \in AccountType, NEW t \in Nat, Enforced(a.quota, t)
  PROVE  LET q == Rollover(a, t).quota
         IN  /\ q.end = NoEnd \/ t < q.end
             /\ q.policy = a.quota.policy /\ q.limit = a.quota.limit
<1> DEFINE r == Rollover(a, t)
<1>1. a.quota.end \in Int /\ a.quota.period \in {"LIFETIME", "CALENDAR", "FIXED_WINDOW"}
  BY DEF AccountType, QuotaType
<1>2. CASE a.quota.end = NoEnd \/ a.quota.end > t
  BY Zenon, <1>1, <1>2 DEF Rollover
<1>3. CASE ~(a.quota.end = NoEnd \/ a.quota.end > t)
  <2>1. a.quota.period # "FIXED_WINDOW"
    BY <1>1, <1>3 DEF Enforced
  <2>2. Window(a.quota.period, t).end = NoEnd \/ t < Window(a.quota.period, t).end
    <3>1. t % PeriodLength \in 0 .. PeriodLength - 1 /\ PeriodLength \in Nat
      BY QuotaAssumption
    <3>2. CASE a.quota.period = "LIFETIME"
      BY <3>2 DEF Window
    <3>3. CASE a.quota.period = "CALENDAR"
      <4>1. Window(a.quota.period, t).end = t - (t % PeriodLength) + PeriodLength
        BY <3>3 DEF Window
      <4> QED
        BY <3>1, <4>1
    <3> QED
      BY <1>1, <2>1, <3>2, <3>3
  <2> DEFINE w == Window(a.quota.period, t)
             q == Restart(a.quota, w)
  <2>3. r.quota = q
    BY <1>3 DEF Rollover
  <2> HIDE DEF r, w
  <2>4. q.end = w.end /\ q.policy = a.quota.policy /\ q.limit = a.quota.limit
    BY DEF Restart
  <2> HIDE DEF q
  <2> QED
    BY Zenon, <2>2, <2>3, <2>4 DEF r, w
<1> QED
  BY Zenon, <1>2, <1>3

(* Creating a reservation either opens none or admits it as it should.      *)
LEMMA CreateAdmits ==
  ASSUME NEW a, SoundAccount(a), Ruled(a), NEW id \in Subjects \cup {"NONE"}, NEW p \in RuleType,
         NEW o \in Operations, NEW n \in Nat, NEW t1 \in Nat, NEW t2 \in Nat,
         NEW blocked \in BOOLEAN
  PROVE  LET b == CreateResult(a, id, p, o, n, t1, t2, blocked)
         IN  Tame(a, b) \/ Admitted(a, b, o, id, p, t2)
<1> DEFINE m == Materialize(a, id, p, t1)
           r == Rollover(m, t2)
           b == CreateResult(a, id, p, o, n, t1, t2, blocked)
<1>1. SoundAccount(m) /\ Tame(a, m)
  BY ZenonT(60), MaterializeSound, MaterializeTame DEF SoundAccount
<1>2. \/ b \in {a, m, r}
      \/ b = Reserve(r, o, n, t2) /\ Enforced(m.quota, t2) /\ ~(n > Remaining(r.quota))
  BY Zenon DEF CreateResult, CreateFrom, ExistingReservation
<1>3. Enforced(m.quota, t2) =>
         id # "NONE" /\ m.quota.policy = id /\ m.quota.limit = p.limit /\ p.hardLimit
  BY Zenon, EnforcedRule
<1> HIDE DEF b, m
<1>4. m \in AccountType
  BY <1>1 DEF SoundAccount
<1>5. Tame(m, r)
  BY <1>4, RolloverTame
<1>6. Tame(a, r)
  BY <1>1, <1>5, TameTransitive
<1>7. Enforced(m.quota, t2) =>
         /\ r.quota.end = NoEnd \/ t2 < r.quota.end
         /\ r.quota.policy = m.quota.policy /\ r.quota.limit = m.quota.limit
  BY <1>4, RolloverOpensWindow
<1>8. Enforced(m.quota, t2) => SoundAccount(r)
  BY <1>1, RolloverSound DEF Enforced
<1> HIDE DEF r
<1>9. CASE b \in {a, m, r}
  BY <1>1, <1>6, <1>9, TameReflexive DEF b
<1>10. CASE b = Reserve(r, o, n, t2) /\ Enforced(m.quota, t2) /\ ~(n > Remaining(r.quota))
  <2>1. r.quota \in QuotaType /\ r.reservations \in [Operations -> ReservationType]
    BY <1>8, <1>10 DEF SoundAccount, AccountType
  <2>2. r.quota.consumed \in Nat /\ r.quota.reserved \in Nat /\ r.quota.limit \in Nat
    BY <2>1 DEF QuotaType
  <2>3. /\ b.quota.policy = r.quota.policy /\ b.quota.enabled = r.quota.enabled
        /\ b.quota.limit = r.quota.limit /\ b.quota.end = r.quota.end
        /\ b.quota.consumed = r.quota.consumed /\ b.quota.reserved = r.quota.reserved + n
    BY <1>10, <2>1 DEF Reserve, QuotaType
  <2>4. /\ b.reservations[o].reserved = n
        /\ \A x \in Operations \ {o} : b.reservations[x] = r.reservations[x]
    BY <1>10, <2>1 DEF Reserve
  <2>5. n = 0 \/ r.quota.consumed + r.quota.reserved + n <= r.quota.limit
    <3>1. ~(n > Remaining(r.quota))
      BY Zenon, <1>10
    <3> QED
      BY <2>2, <3>1 DEF Remaining
  <2>6. Ruled(b)
    BY <1>6, <2>3 DEF Tame, Ruled
  <2>7. \A x \in Operations \ {o} :
            a.reservations[x].status = "NONE" => b.reservations[x].status = "NONE"
    BY <1>6, <2>4 DEF Tame
  <2>8. b.reservations[o].reserved = 0 \/ b.quota.consumed + b.quota.reserved <= b.quota.limit
    BY <2>2, <2>3, <2>4, <2>5
  <2> QED
    BY Zenon, <1>3, <1>7, <1>10, <2>3, <2>6, <2>7, <2>8 DEF Admitted, b
<1> QED
  BY <1>2, <1>9, <1>10

(* What a step does to the account of u: it opens no reservation, or it     *)
(* admits one under the rule in force.                                      *)
TameOrAdmitted(u) ==
    \/ Tame(account[u], account'[u])
    \/ \E o \in Operations :
          LET id == Effective(policies, group, u)
          IN  Admitted(account[u], account'[u], o, id, RuleOf(policies, id), now')

LEMMA OneAccountTame ==
  ASSUME QuotaInvariant, NEW u \in Users, NEW b, Tame(account[u], b),
         account' = [account EXCEPT ![u] = b], NEW v \in Users
  PROVE  TameOrAdmitted(v)
<1>1. account'[v] = IF v = u THEN b ELSE account[v]
  BY DEF QuotaInvariant, TypeOK
<1> QED
  BY <1>1, TameReflexive DEF TameOrAdmitted

LEMMA MaterializeAllTame ==
  ASSUME QuotaInvariant, NEW pol, NEW grp, NEW us, NEW t,
         account' = MaterializeAll(account, pol, grp, us, t), NEW v \in Users
  PROVE  TameOrAdmitted(v)
<1> DEFINE id == Effective(pol, grp, v)
           m == Materialize(account[v], id, RuleOf(pol, id), t)
<1>1. account'[v] = IF v \in us THEN m ELSE account[v]
  BY DEF MaterializeAll, MaterializeFor
<1>2. Tame(account[v], m)
  BY MaterializeTame DEF QuotaInvariant, TypeOK
<1> HIDE DEF m
<1> QED
  BY Zenon, <1>1, <1>2, TameReflexive DEF TameOrAdmitted

(* Only Create opens reservations.                                          *)
LEMMA StepAdmits ==
  ASSUME QuotaInvariant, [Next]_vars, NEW v \in Users
  PROVE  TameOrAdmitted(v)
<1>0. /\ now \in Nat /\ policies \in [Subjects -> PolicyType]
      /\ account \in [Users -> AccountType] /\ Amounts \subseteq Nat
  BY Zenon, QuotaAssumption DEF QuotaInvariant, TypeOK
<1>1. CASE account' = account
  BY <1>1, TameReflexive DEF TameOrAdmitted
<1>2. ASSUME NEW u \in Users, NEW o \in Operations, NEW n \in Amounts, Create(u, o, n)
      PROVE  TameOrAdmitted(v)
  <2> DEFINE id == Effective(policies, group, u)
             p == RuleOf(policies, id)
  <2>1. PICK t \in {now, now + 1}, blocked \in BOOLEAN :
            /\ now' = t
            /\ account' = [account EXCEPT ![u] = CreateResult(@, id, p, o, n, now, t, blocked)]
    BY ZenonT(60), <1>2 DEF Create
  <2> DEFINE b == CreateResult(account[u], id, p, o, n, now, t, blocked)
  <2>2. account' = [account EXCEPT ![u] = b]
    BY <1>0, <2>1
  <2>3. id \in Subjects \cup {"NONE"} /\ p \in RuleType
        /\ n \in Nat /\ t \in Nat /\ SoundAccount(account[u]) /\ Ruled(account[u])
    <3>1. id \in Subjects \cup {"NONE"} /\ p \in RuleType
      BY Zenon, <1>0, EffectiveType
    <3>2. n \in Nat /\ t \in Nat
      BY <1>0
    <3>3. SoundAccount(account[u]) /\ Ruled(account[u])
      BY Zenon DEF QuotaInvariant
    <3> QED
      BY <3>1, <3>2, <3>3
  <2> HIDE DEF id, p
  <2>4. Tame(account[u], b) \/ Admitted(account[u], b, o, id, p, t)
    BY ZenonT(60), <1>0, <2>3, CreateAdmits
  <2> HIDE DEF b
  <2>5. CASE Tame(account[u], b)
    BY <2>2, <2>5, OneAccountTame
  <2>6. CASE Admitted(account[u], b, o, id, p, t) /\ v = u
    <3>1. account'[u] = b
      BY <1>0, <2>2
    <3> QED
      BY ZenonT(60), <2>1, <2>6, <3>1 DEF TameOrAdmitted, id, p
  <2>7. CASE v # u
    <3>1. account'[v] = account[v]
      BY <1>0, <2>2, <2>7
    <3> QED
      BY Zenon, <3>1, TameReflexive DEF TameOrAdmitted
  <2> QED
    BY <2>4, <2>5, <2>6, <2>7
<1>3. ASSUME NEW u \in Users, NEW o \in Operations, NEW status, NEW spent, NEW key,
             Closable(account[u], o, key),
             account' = [account EXCEPT ![u] = Close(@, o, status, spent, key)]
      PROVE  TameOrAdmitted(v)
  <2> DEFINE b == Close(account[u], o, status, spent, key)
  <2>1. account' = [account EXCEPT ![u] = b]
    BY <1>0, <1>3
  <2>2. Tame(account[u], b)
    BY Zenon, <1>0, <1>3, CloseTame DEF Closable
  <2> HIDE DEF b
  <2> QED
    BY <2>1, <2>2, OneAccountTame
<1>4. ASSUME NEW u \in Users, NEW o \in Operations,
             (\E n \in Amounts : Settle(u, o, n)) \/ Release(u, o) \/ Expire(u, o)
      PROVE  TameOrAdmitted(v)
  <2>1. CASE \E n \in Amounts : Settle(u, o, n)
    BY ONLY Zenon, <1>3, <2>1, u \in Users, o \in Operations DEF Settle
  <2>2. CASE Release(u, o)
    BY ONLY Zenon, <1>3, <2>2, u \in Users, o \in Operations DEF Release
  <2>3. CASE Expire(u, o)
    BY ONLY Zenon, <1>3, <2>3, u \in Users, o \in Operations DEF Expire
  <2> QED
    BY <1>4, <2>1, <2>2, <2>3
<1>5. ASSUME NEW e \in Events, NEW n \in Amounts \cup {NoAiu}, Commit(e, n)
      PROVE  TameOrAdmitted(v)
  <2> DEFINE u == EventUser[e]
             id == Effective(policies, group, u)
             m == Materialize(account[u], id, RuleOf(policies, id), now)
             a == IF n = NoAiu THEN account[u] ELSE m
             b == ApplyUserAiu(a, EventOperation[e], e, n)
  <2>1. u \in Users
    BY QuotaAssumption
  <2>2. /\ account' = [account EXCEPT ![u] = b]
        /\ Applicable(a, EventOperation[e], e, IF n = NoAiu THEN 0 ELSE n)
    BY Zenon, <1>5 DEF Commit, MaterializeFor
  <2> HIDE DEF u
  <2>3. id \in Subjects \cup {"NONE"} /\ RuleOf(policies, id) \in RuleType
    BY <1>0, <2>1, EffectiveType
  <2>4. SoundAccount(account[u]) /\ account[u] \in AccountType
    BY <1>0, <2>1 DEF QuotaInvariant
  <2> HIDE DEF id
  <2>5. SoundAccount(m) /\ Tame(account[u], m)
    BY <1>0, <2>3, <2>4, MaterializeSound, MaterializeTame
  <2> HIDE DEF m
  <2>6. a \in AccountType /\ Tame(account[u], a)
    BY Zenon, <2>4, <2>5, TameReflexive DEF SoundAccount
  <2> HIDE DEF a
  <2>7. Tame(a, b)
    BY <2>2, <2>6, ApplyTame
  <2> HIDE DEF b
  <2>8. Tame(account[u], b)
    BY <2>6, <2>7, TameTransitive
  <2> QED
    BY <2>1, <2>2, <2>8, OneAccountTame
<1>6. ASSUME NEW u \in Users, NEW p \in UserRules, SaveQuota(u, p)
      PROVE  TameOrAdmitted(v)
  <2> DEFINE b == SavedQuota(account[u], u, p, now)
  <2>1. account' = [account EXCEPT ![u] = b]
    BY <1>0, <1>6 DEF SaveQuota
  <2>2. u # "NONE"
    BY QuotaAssumption
  <2>3. Tame(account[u], b)
    BY <2>2, SavedQuotaTame
  <2> HIDE DEF b
  <2> QED
    BY <2>1, <2>3, OneAccountTame
<1>7. ASSUME NEW u \in Users, CommitReset(u)
      PROVE  TameOrAdmitted(v)
  <2> DEFINE b == ResetAccount(account[u], resetting[u].row, resetting[u].at)
  <2>1. account' = [account EXCEPT ![u] = b]
    BY <1>0, <1>7 DEF CommitReset
  <2>2. Tame(account[u], b)
    BY <1>0, ResetTame
  <2> HIDE DEF b
  <2> QED
    BY <2>1, <2>2, OneAccountTame
<1>8. ASSUME NEW s \in Shared, (\E p \in SharedRules : SaveRule(s, p)) \/ DisableRule(s)
      PROVE  TameOrAdmitted(v)
  <2>1. account' = MaterializeAll(account, policies', group, Affected(s), now)
    BY <1>8 DEF SaveRule, DisableRule, WriteRule
  <2> QED
    BY <2>1, MaterializeAllTame
<1>9. ASSUME NEW members \in Memberships, NEW t \in 0 .. now, RefreshGroup(members, t)
      PROVE  TameOrAdmitted(v)
  <2> DEFINE at == IF t > group.at THEN t ELSE group.at
  <2>1. \/ account' = account
        \/ account' = MaterializeAll(account, policies, group', group.members \cup members, at)
    BY <1>9 DEF RefreshGroup
  <2> HIDE DEF at
  <2> QED
    BY <1>1, <2>1, MaterializeAllTame
<1>10. Tick \/ RedefineGroup \/ (\E u \in Users : ReadReset(u)) \/ ReadGroupReset
          \/ UNCHANGED vars => account' = account
  BY DEF Tick, RedefineGroup, ReadReset, ReadGroupReset, vars
<1>11. CASE CommitGroupReset
  <2> DEFINE b == GroupReset(account[v], bulk[v].row, bulk[v].at)
  <2>1. account'[v] = IF bulk[v].pending THEN b ELSE account[v]
    BY <1>11 DEF CommitGroupReset
  <2>2. Tame(account[v], b)
    BY <1>0, GroupResetTame
  <2> HIDE DEF b
  <2> QED
    BY Zenon, <2>1, <2>2, TameReflexive DEF TameOrAdmitted
<1> QED
  BY <1>1, <1>2, <1>4, <1>5, <1>6, <1>7, <1>8, <1>9, <1>10, <1>11 DEF Next

LEMMA StepSound ==
  QuotaInvariant /\ [Next]_vars => QuotaInvariant'
<1> SUFFICES ASSUME QuotaInvariant, [Next]_vars PROVE QuotaInvariant'
  OBVIOUS
<1>1. AccountsEvolve
  BY StepEvolves
<1>2. TypeOK'
  BY <1>1, StepType
<1>3. \A u \in Users : /\ SoundAccount(account'[u])
                        /\ ResetIsFresh(account'[u], resetting'[u])
                        /\ ResetIsFresh(account'[u], bulk'[u])
  BY Zenon, <1>1, StepFresh DEF AccountsEvolve
<1>4. \A u \in Users : Ruled(account'[u])
  BY Zenon, StepAdmits DEF TameOrAdmitted, Tame, Admitted, QuotaInvariant
<1> QED
  BY <1>2, <1>3, <1>4 DEF QuotaInvariant

(* Whatever the writers of the quota tables do, in any order, every   *)
(* account is sound and no pending reset can overwrite a change it has not  *)
(* seen.                                                                    *)
THEOREM QuotaIsSound ==
  Spec => []QuotaInvariant
BY InitSound, StepSound, PTL DEF Spec

(* The CHECK constraints on the quota row never fire: balances stay         *)
(* non-negative (and every row has its type).                               *)
THEOREM TypeCorrect ==
  Spec => []TypeOK
<1>1. QuotaInvariant => TypeOK
  BY DEF QuotaInvariant
<1> QED
  BY <1>1, QuotaIsSound, PTL

(* As long as no reset of a group meets a row that changed since it was     *)
(* read, the reserved balance equals what the open reservations hold.       *)
THEOREM ReservedIsExact ==
  Spec /\ [][~StaleGroupReset]_vars => []ReservedMatchesOpenReservations
<1>1. Init => ReservedMatchesOpenReservations
  <2>1. ASSUME Init, NEW u \in Users
        PROVE  Exact(account[u])
    <3>1. account[u] = NewAccount /\ SoundAccount(account[u])
      BY <2>1, InitSound DEF Init, QuotaInvariant
    <3>2. NewAccount.quota.reserved = 0
      BY DEF NewAccount, NewQuota
    <3>3. Total(OpenAmounts(account[u])) \in Nat
      BY <3>1, AmountsType DEF SoundAccount
    <3> QED
      <4>1. account[u].quota.reserved >= Total(OpenAmounts(account[u]))
        BY Zenon, <3>1 DEF SoundAccount
      <4> QED
        BY <3>1, <3>2, <3>3, <4>1 DEF Exact
  <2> QED
    BY <2>1 DEF ReservedMatchesOpenReservations
<1>2. ReservedMatchesOpenReservations /\ QuotaInvariant /\ [Next]_vars /\ [~StaleGroupReset]_vars
        => ReservedMatchesOpenReservations'
  <2> SUFFICES ASSUME ReservedMatchesOpenReservations, QuotaInvariant, [Next]_vars,
                      [~StaleGroupReset]_vars
               PROVE  ReservedMatchesOpenReservations'
    OBVIOUS
  <2>1. CASE UNCHANGED vars
    BY <2>1 DEF vars, ReservedMatchesOpenReservations, Exact, OpenAmounts
  <2>2. CASE ~StaleGroupReset
    <3>1. \A u \in Users : Exact(account[u]) => Exact(account'[u])
      BY Zenon, <2>2, StepEvolves DEF AccountsEvolve
    <3> QED
      BY Zenon, <3>1 DEF ReservedMatchesOpenReservations, Exact
  <2> QED
    BY <2>1, <2>2
<1> QED
  BY <1>1, <1>2, QuotaIsSound, PTL DEF Spec

(* The ledger adds up to the quota row and its newest entry shows it.       *)
THEOREM LedgerIsExact ==
  Spec => []LedgerMatchesQuota
<1>1. QuotaInvariant => LedgerMatchesQuota
  BY Zenon DEF QuotaInvariant, SoundAccount, LedgerMatchesQuota
<1> QED
  BY <1>1, QuotaIsSound, PTL

(* Usage is charged once per reservation and once per direct event.         *)
THEOREM UsageChargedOnce ==
  Spec => []ChargedOnce
<1>1. QuotaInvariant => ChargedOnce
  <2>1. ASSUME NEW a, SoundAccount(a)
        PROVE  a.ledger.charged = Total(SettledAmounts(a)) + Total(a.ledger.consumedBy)
    BY Zenon, <2>1 DEF SoundAccount
  <2> QED
    BY Zenon, <2>1 DEF QuotaInvariant, ChargedOnce
<1> QED
  BY <1>1, QuotaIsSound, PTL

(* The sweeper, the API and the worker can always close an open             *)
(* reservation.                                                             *)
THEOREM OpenIsClosable ==
  Spec => []OpenReservationsClosable
<1>1. QuotaInvariant => OpenReservationsClosable
  <2> SUFFICES ASSUME QuotaInvariant, NEW u \in Users, NEW o \in Operations,
                      account[u].reservations[o].status = "RESERVED"
               PROVE  /\ \A action \in {"settle", "release", "expire"} :
                             Closable(account[u], o, <<action, o>>)
                      /\ \A e \in Events : EventUser[e] = u /\ EventOperation[e] = o =>
                             Closable(account[u], o, <<"usage-settle", e>>)
    BY DEF OpenReservationsClosable
  <2> DEFINE a == account[u]
  <2>1. SoundAccount(a) /\ a \in AccountType
    BY Zenon DEF QuotaInvariant, SoundAccount
  <2>2. OpenAmounts(a) \in [Operations -> Nat] /\ Total(OpenAmounts(a)) \in Nat
    BY Zenon, <2>1, AmountsType
  <2>3. OpenAmounts(a)[o] = a.reservations[o].reserved
    BY DEF OpenAmounts
  <2>4. OpenAmounts(a)[o] <= Total(OpenAmounts(a))
    BY Zenon, <2>2, TotalBound, QuotaAssumption
  <2>5. a.quota.reserved >= a.reservations[o].reserved
    <3>1. a.quota.reserved \in Nat /\ a.quota.reserved >= Total(OpenAmounts(a))
      BY <2>1 DEF SoundAccount, AccountType, QuotaType
    <3>2. OpenAmounts(a)[o] \in Nat
      BY <2>2
    <3> HIDE DEF a
    <3> QED
      BY ONLY <2>2, <2>3, <2>4, <3>1, <3>2
  <2> QED
    BY ZenonT(60), <2>1, <2>5 DEF Closable, SoundAccount, KeyDiscipline
<1> QED
  BY <1>1, QuotaIsSound, PTL

(* A closed reservation never reopens or closes another way.                *)
THEOREM ClosedStaysClosed ==
  Spec => ClosedReservationsStayClosed
<1>1. QuotaInvariant /\ [Next]_vars =>
         [\A u \in Users, o \in Operations :
             LET before == account[u].reservations[o]
                 after == account'[u].reservations[o]
             IN  before.status \notin {"NONE", "RESERVED"} =>
                     /\ after.status = before.status
                     /\ before.status # "SETTLED" => after = before]_vars
  BY Zenon, StepEvolves DEF AccountsEvolve, Kept, ClosedKept
<1> QED
  BY <1>1, QuotaIsSound, PTL DEF Spec, ClosedReservationsStayClosed

(* A reservation is admitted under the rule in force, in its window and     *)
(* within its limit, however the rule changed a moment before.              *)
THEOREM AdmissionIsCurrent ==
  Spec => AdmissionUsesCurrentRule
<1>1. ASSUME QuotaInvariant, [Next]_vars, NEW u \in Users, NEW o \in Operations,
             account[u].reservations[o].status = "NONE",
             account'[u].reservations[o].status = "RESERVED"
      PROVE  LET q == account'[u].quota
                 id == Effective(policies, group, u)
             IN  /\ id # "NONE" /\ q.policy = id
                 /\ policies[id].enabled /\ policies[id].rule.hardLimit
                 /\ q.limit = policies[id].rule.limit
                 /\ q.end = NoEnd \/ now' < q.end
                 /\ \/ account'[u].reservations[o].reserved = 0
                    \/ q.consumed + q.reserved <= q.limit
  <2> DEFINE id == Effective(policies, group, u)
  <2>1. ~Tame(account[u], account'[u])
    BY <1>1 DEF Tame
  <2>2. PICK x \in Operations :
            Admitted(account[u], account'[u], x, id, RuleOf(policies, id), now')
    BY Zenon, <1>1, <2>1, StepAdmits DEF TameOrAdmitted
  <2>3. x = o
    BY <1>1, <2>2 DEF Admitted
  <2>4. id # "NONE"
    BY Zenon, <2>2 DEF Admitted
  <2>5. policies[id].enabled /\ RuleOf(policies, id) = policies[id].rule
    BY <2>4 DEF Effective, RuleOf
  <2> HIDE DEF id
  <2> QED
    BY Zenon, <2>2, <2>3, <2>4, <2>5 DEF Admitted, id
<1>2. QuotaInvariant /\ [Next]_vars =>
        [\A u \in Users, o \in Operations :
          (/\ account[u].reservations[o].status = "NONE"
           /\ account'[u].reservations[o].status = "RESERVED")
          => LET q == account'[u].quota
                 id == Effective(policies, group, u)
             IN  /\ id # "NONE" /\ q.policy = id
                 /\ policies[id].enabled /\ policies[id].rule.hardLimit
                 /\ q.limit = policies[id].rule.limit
                 /\ q.end = NoEnd \/ now' < q.end
                 /\ \/ account'[u].reservations[o].reserved = 0
                    \/ q.consumed + q.reserved <= q.limit]_vars
  BY ZenonT(60), <1>1
<1> QED
  BY <1>2, QuotaIsSound, PTL DEF Spec, AdmissionUsesCurrentRule
=============================================================================
