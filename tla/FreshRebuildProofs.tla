------------------------- MODULE FreshRebuildProofs -------------------------
(***************************************************************************)
(* Proofs about FreshRebuild, for any rows, rebuilds and number of faults. *)
(*                                                                         *)
(* The argument.  As long as no key ran out under a rebuild, a rebuild at  *)
(* work owns the lock, and the pause once it noted that it holds it        *)
(* (Keyed): so resets exclude each other, and a schema that a rebuild      *)
(* noted as ready is there.  That a passed rebuild lost nothing needs no   *)
(* such condition.  From the end of its first drain to the end of its      *)
(* pause, what is leased or newly sent was leased under the pause          *)
(* (UnderPause); a rebuild that lost its pause meanwhile finds out when it *)
(* gives the pause back.  From there on, what is sent is stored, was       *)
(* retained, or was leased under the pause, until somebody drops the       *)
(* schema again (Replaying).                                               *)
(***************************************************************************)
EXTENDS FreshRebuild, TLAPS

RunType == [pc : {"idle"} \cup Running \cup Ended, retained : SUBSET Live,
            pauseHeld : BOOLEAN, schemaReady : BOOLEAN, resetStarted : BOOLEAN,
            failure : {"call", "check", None}]

(* The places where a run knows that it holds the pause, that the schema   *)
(* is not ready, that it is, and that something failed.                    *)
Holding == {"drain", "retain", "drop", "migrate", "empty", "clone", "resume", "redrain", "counts",
            "identities", "aggregates", "release", "catch_drop", "catch_migrate", "catch_release"}
Unready == {"idle", "pause", "drain", "retain", "drop", "migrate", "catch_drop", "catch_migrate"}
Ready == {"empty", "clone", "resume", "replay", "repause", "redrain", "counts", "identities",
          "aggregates", "release", "evidence", "catch_release"}
Catching == {"catch_pause", "catch_drain", "catch_drop", "catch_migrate", "catch_release"}

RunSound(r) ==
    /\ r.pc = "idle" => ~r.pauseHeld
    /\ r.pc \in Holding => r.pauseHeld
    /\ r.pc \in Unready => ~r.schemaReady
    /\ r.pc \in Ready => r.schemaReady
    /\ r.pc \in Catching => r.failure # None

(* What a run at work owns while no key ran out under a run.               *)
Keyed(t) ==
    ~outlived /\ AtWork(t) =>
        /\ redis.lock = t
        /\ rebuild[t].pauseHeld => redis.pause = t
        /\ rebuild[t].schemaReady => clickhouse.schema

(* The clones of a run that has not drained the outbox do not exist.       *)
Unborn(t) ==
    rebuild[t].pc \in {"idle", "pause", "drain"} => \A i \in Live : outbox[<<i, t>>] = "absent"

(* From the first drain to the end of the pause.                           *)
UnderPause(t) ==
    rebuild[t].pc \in {"retain", "drop", "migrate", "empty", "clone", "resume"} /\ redis.pause = t =>
        /\ \A k \in Keys : outbox[k] = "leased" => k[1] \in late
        /\ \A i \in Live : outbox[<<i, t>>] = "sent" => i \in late
        /\ rebuild[t].pc # "retain" => Sent \ late \subseteq rebuild[t].retained

(* A run that gave its pause back and has met no failure since.            *)
Proceeds(r) ==
    \/ r.pc \in {"replay", "repause", "redrain", "counts", "identities", "aggregates", "release",
                 "evidence", "passed"}
    \/ r.pc = "unlock" /\ r.failure = None

Stored(i) == clickhouse.copies[i] > 0 \/ i \in late

(* From the end of the pause on, unless the schema is dropped again.       *)
Replaying(t) ==
    reset = t /\ Proceeds(rebuild[t]) =>
        /\ poller.pc = "ack" /\ outbox[poller.row] = "leased" => Stored(poller.row[1])
        /\ \A i \in Live : outbox[<<i, t>>] = "sent" => Stored(i)
        /\ \A i \in Sent : Stored(i) \/ i \in rebuild[t].retained
        /\ rebuild[t].pc # "replay" => \A i \in rebuild[t].retained : Stored(i)

PollerSound ==
    /\ poller.pc \in {"query", "insert", "ack"} => poller.row \in Keys
    /\ poller.pc = "insert" => clickhouse.copies[poller.row[1]] = 0

RebuildInv ==
    /\ TypeOK /\ PollerSound
    /\ \A t \in Rebuilds : RunSound(rebuild[t]) /\ Keyed(t) /\ Unborn(t) /\ UnderPause(t) /\ Replaying(t)

-----------------------------------------------------------------------------
(* A failure keeps what the run knows of its keys and of the schema.       *)
LEMMA ThrowSound ==
  ASSUME NEW r \in RunType, RunSound(r), r.pc \in Running
  PROVE  /\ Throw(r) \in RunType /\ RunSound(Throw(r))
         /\ Throw(r).pc \in Catching \cup {"unlock"} /\ Throw(r).failure # None
         /\ Throw(r).pauseHeld = r.pauseHeld /\ Throw(r).schemaReady = r.schemaReady
<1>1. AfterPause(r) \in {"catch_drop", "catch_release", "unlock"}
  BY DEF AfterPause
<1>2. PICK f \in {"call", "check"} : f = IF r.pc \in Checks THEN "check" ELSE "call"
  OBVIOUS
<1>3. PICK pc \in Catching \cup {"unlock"} : pc = IF r.resetStarted THEN "catch_pause" ELSE AfterPause(r)
  BY <1>1 DEF Catching
<1>4. Throw(r) = [r EXCEPT !.failure = f, !.pc = pc]
  BY <1>2, <1>3 DEF Throw
<1>5. f # None /\ f \in {"call", "check", None} /\ pc \in Running
  BY <1>2, <1>3, RebuildAssumption DEF Catching, Running
<1>6. Throw(r) \in RunType
  BY <1>4, <1>5 DEF RunType
<1>7. /\ Throw(r).pc = pc /\ Throw(r).failure = f
      /\ Throw(r).pauseHeld = r.pauseHeld /\ Throw(r).schemaReady = r.schemaReady
  BY <1>4 DEF RunType
<1>8. /\ pc = "catch_drop" => r.pauseHeld /\ ~r.schemaReady
      /\ pc = "catch_release" => r.pauseHeld /\ r.schemaReady
      /\ pc \in {"catch_pause", "catch_drop", "catch_release", "unlock"}
  BY <1>3 DEF AfterPause
<1>9. RunSound(Throw(r))
  BY <1>5, <1>7, <1>8 DEF RunSound, Holding, Unready, Ready, Catching
<1> QED
  BY <1>3, <1>5, <1>6, <1>7, <1>9

(* A run that has failed, or is in the catch block, promises nothing of    *)
(* the rows.                                                               *)
LEMMA FailedPromisesNothing ==
  ASSUME NEW t \in Rebuilds, \/ rebuild[t].pc \in Catching \cup {"unlock"} /\ rebuild[t].failure # None
                             \/ rebuild[t].pc \in {"failed", "killed"}
  PROVE  Unborn(t) /\ UnderPause(t) /\ Replaying(t)
BY DEF Unborn, UnderPause, Replaying, Proceeds, Catching

-----------------------------------------------------------------------------
(* What the steps of the poller have in common: copies are not lost, rows  *)
(* are leased while no pause is seen or noted as late, and only a row      *)
(* whose delivery was acknowledged under its lease becomes sent.           *)
LEMMA PollerKept ==
  ASSUME RebuildInv, TypeOK', PollerSound', UNCHANGED <<rebuild, redis, reset, outlived>>,
         clickhouse'.schema = clickhouse.schema, late \subseteq late',
         \A i \in Live : clickhouse.copies[i] > 0 => clickhouse'.copies[i] > 0,
         \A k \in Keys : outbox[k] = "absent" => outbox'[k] = "absent",
         \A k \in Keys : outbox'[k] = "leased" => outbox[k] = "leased" \/ k[1] \in late' \/ redis.pause = None,
         \A k \in Keys : outbox'[k] = "sent" =>
             outbox[k] = "sent" \/ (outbox[k] = "leased" /\ poller.pc = "ack" /\ k = poller.row),
         poller'.pc = "ack" /\ outbox'[poller'.row] = "leased" =>
             \/ clickhouse'.copies[poller'.row[1]] > 0
             \/ poller.pc = "ack" /\ poller.row = poller'.row /\ outbox[poller.row] = "leased"
  PROVE  RebuildInv'
<1>1. ASSUME NEW t \in Rebuilds PROVE RunSound(rebuild[t])' /\ Keyed(t)'
  BY DEF RebuildInv, RunSound, Keyed, AtWork
<1>2. \A i \in Live, t \in Rebuilds \cup {"live"} :
         <<i, t>> \in Keys /\ <<i, t>>[1] = i
  BY DEF Keys
<1>3. ASSUME NEW t \in Rebuilds PROVE Unborn(t)'
  BY <1>2 DEF RebuildInv, Unborn
<1>4. ASSUME NEW i \in Live, Stored(i) PROVE Stored(i)'
  BY <1>4 DEF Stored
<1>5. poller.pc = "ack" => poller.row \in Keys /\ poller.row[1] \in Live
  BY DEF RebuildInv, PollerSound, Keys
<1>6. ASSUME NEW t \in Rebuilds PROVE UnderPause(t)'
  <2> SUFFICES ASSUME rebuild[t].pc \in {"retain", "drop", "migrate", "empty", "clone", "resume"},
                      redis.pause = t
               PROVE  /\ \A k \in Keys : outbox'[k] = "leased" => k[1] \in late'
                      /\ \A i \in Live : outbox'[<<i, t>>] = "sent" => i \in late'
                      /\ rebuild[t].pc # "retain" => Sent' \ late' \subseteq rebuild[t].retained
    BY DEF UnderPause
  <2>1. /\ \A k \in Keys : outbox[k] = "leased" => k[1] \in late
        /\ \A i \in Live : outbox[<<i, t>>] = "sent" => i \in late
        /\ rebuild[t].pc # "retain" => Sent \ late \subseteq rebuild[t].retained
    BY DEF RebuildInv, UnderPause
  <2>2. redis.pause # None
    BY RebuildAssumption
  <2>3. \A i \in Live : outbox'[<<i, "live">>] = "sent" => outbox[<<i, "live">>] = "sent" \/ i \in late'
    BY <1>2, <2>1
  <2>4. \A i \in Live : outbox'[<<i, t>>] = "sent" => i \in late'
    BY <1>2, <2>1
  <2>5. \A k \in Keys : outbox'[k] = "leased" => k[1] \in late'
    BY <2>1, <2>2
  <2>6. Sent' \ late' \subseteq Sent \ late
    BY <2>3 DEF Sent
  <2> QED
    BY <2>1, <2>4, <2>5, <2>6
<1>7. ASSUME NEW t \in Rebuilds PROVE Replaying(t)'
  <2> SUFFICES ASSUME reset = t, Proceeds(rebuild[t])
               PROVE  /\ poller'.pc = "ack" /\ outbox'[poller'.row] = "leased" => Stored(poller.row[1])'
                      /\ \A i \in Live : outbox'[<<i, t>>] = "sent" => Stored(i)'
                      /\ \A i \in Sent' : Stored(i)' \/ i \in rebuild[t].retained
                      /\ rebuild[t].pc # "replay" => \A i \in rebuild[t].retained : Stored(i)'
    BY DEF Replaying
  <2>1. /\ poller.pc = "ack" /\ outbox[poller.row] = "leased" => Stored(poller.row[1])
        /\ \A i \in Live : outbox[<<i, t>>] = "sent" => Stored(i)
        /\ \A i \in Sent : Stored(i) \/ i \in rebuild[t].retained
        /\ rebuild[t].pc # "replay" => \A i \in rebuild[t].retained : Stored(i)
    BY DEF RebuildInv, Replaying
  <2>2. rebuild[t].retained \subseteq Live
    BY DEF RebuildInv, TypeOK
  <2>3. \A k \in Keys : outbox'[k] = "sent" => outbox[k] = "sent" \/ Stored(k[1])
    BY <2>1
  <2>4. \A i \in Live : outbox'[<<i, t>>] = "sent" => Stored(i)'
    BY <1>2, <1>4, <2>1, <2>3
  <2>5. \A i \in Sent' : Stored(i)' \/ i \in rebuild[t].retained
    BY <1>2, <1>4, <2>1, <2>3 DEF Sent
  <2>6. poller'.pc = "ack" /\ outbox'[poller'.row] = "leased" => Stored(poller.row[1])'
    BY <1>4, <1>5, <2>1 DEF Stored
  <2> QED
    BY <1>4, <2>1, <2>2, <2>4, <2>5, <2>6
<1> QED
  BY <1>1, <1>3, <1>6, <1>7 DEF RebuildInv

LEMMA PollerTypes ==
  ASSUME RebuildInv
  PROVE  /\ poller.pc \in {"query", "insert", "ack"} => poller.row \in Keys /\ poller.row[1] \in Live
         /\ clickhouse \in [schema : BOOLEAN, copies : [Live -> 0..1]]
         /\ poller \in [pc : {"idle", "checked", "query", "insert", "ack"}, row : Keys \cup {None}]
         /\ outbox \in [Keys -> {"absent", "pending", "leased", "expired", "failed", "sent", "dead_letter"}]
         /\ poller.pc = "insert" => clickhouse.copies[poller.row[1]] = 0
BY DEF RebuildInv, TypeOK, PollerSound, Keys

LEMMA FaultType ==
  ASSUME RebuildInv, Fault \/ UNCHANGED faults
  PROVE  faults' \in 0..MaxFaults
BY RebuildAssumption DEF RebuildInv, TypeOK, Fault

LEMMA ReadPauseKept ==
  ASSUME RebuildInv, ReadPause
  PROVE  RebuildInv'
<1>1. /\ poller' = [poller EXCEPT !.pc = "checked"]
      /\ UNCHANGED <<redis, clickhouse, outbox, rebuild, reset, late, outlived, faults>>
  BY DEF ReadPause
<1>2. poller'.pc = "checked" /\ TypeOK'
  BY <1>1, PollerTypes DEF RebuildInv, TypeOK
<1>3. PollerSound'
  BY <1>2 DEF PollerSound
<1> QED
  BY <1>1, <1>2, <1>3, PollerKept

LEMMA LeaseKept ==
  ASSUME RebuildInv, Lease
  PROVE  RebuildInv'
<1>1. UNCHANGED <<redis, clickhouse, rebuild, reset, outlived, faults>>
  BY DEF Lease
<1>2. CASE \A k \in Keys : outbox[k] \notin {"pending", "failed", "expired"}
  <2>1. poller' = [poller EXCEPT !.pc = "idle"] /\ UNCHANGED <<outbox, late>>
    BY <1>2 DEF Lease
  <2>2. poller'.pc = "idle" /\ TypeOK'
    BY <1>1, <2>1, PollerTypes DEF RebuildInv, TypeOK
  <2>3. PollerSound'
    BY <2>2 DEF PollerSound
  <2> QED
    BY <1>1, <2>1, <2>2, <2>3, PollerKept
<1>3. CASE \E k \in Keys : outbox[k] \in {"pending", "failed", "expired"}
  <2>1. PICK k \in Keys : /\ outbox[k] \in {"pending", "failed", "expired"}
                          /\ outbox' = [outbox EXCEPT ![k] = "leased"]
                          /\ poller' = [pc |-> "query", row |-> k]
                          /\ late' = IF redis.pause = None THEN late ELSE late \cup {k[1]}
    BY <1>3 DEF Lease
  <2>2. k[1] \in Live
    BY DEF Keys
  <2>3. late' \subseteq Live /\ late \subseteq late' /\ (redis.pause # None => k[1] \in late')
    BY <2>1, <2>2 DEF RebuildInv, TypeOK
  <2>4. outbox'[k] = "leased" /\ \A j \in Keys : j # k => outbox'[j] = outbox[j]
    BY <2>1, PollerTypes
  <2>5. TypeOK'
    BY <1>1, <2>1, <2>3, PollerTypes DEF RebuildInv, TypeOK
  <2>6. poller'.pc = "query" /\ poller'.row = k /\ PollerSound'
    BY <2>1 DEF PollerSound
  <2> QED
    BY <1>1, <2>1, <2>3, <2>4, <2>5, <2>6, PollerKept
<1> QED
  BY <1>2, <1>3

LEMMA QueryKept ==
  ASSUME RebuildInv, Query
  PROVE  RebuildInv'
<1>1. UNCHANGED <<redis, clickhouse, outbox, rebuild, reset, late, outlived, faults>>
  BY DEF Query
<1>2. PICK pc \in {"insert", "ack"} :
         /\ pc = "insert" => clickhouse.copies[poller.row[1]] = 0
         /\ pc = "ack" => clickhouse.copies[poller.row[1]] # 0
         /\ poller' = [poller EXCEPT !.pc = pc]
  BY DEF Query
<1>3. poller'.pc = pc /\ poller'.row = poller.row /\ poller.row \in Keys /\ TypeOK'
  BY <1>1, <1>2, PollerTypes DEF RebuildInv, TypeOK, Query
<1>4. PollerSound'
  BY <1>1, <1>2, <1>3 DEF PollerSound
<1>5. pc = "ack" => clickhouse'.copies[poller'.row[1]] > 0
  BY <1>1, <1>2, <1>3, PollerTypes DEF Query
<1> QED
  BY <1>1, <1>3, <1>4, <1>5, PollerKept

LEMMA InsertKept ==
  ASSUME RebuildInv, Insert
  PROVE  RebuildInv'
<1>1. UNCHANGED <<redis, outbox, rebuild, reset, late, outlived, faults>>
  BY DEF Insert
<1> DEFINE i == poller.row[1]
<1>2. i \in Live /\ clickhouse.copies[i] = 0 /\ poller.row \in Keys
  BY PollerTypes DEF Insert
<1>3. /\ clickhouse' = [clickhouse EXCEPT !.copies = [clickhouse.copies EXCEPT ![i] = 1]]
      /\ poller' = [poller EXCEPT !.pc = "ack"]
  BY <1>2 DEF Insert
<1> HIDE DEF i
<1>4. /\ clickhouse'.schema = clickhouse.schema /\ clickhouse'.copies[i] = 1
      /\ \A j \in Live : j # i => clickhouse'.copies[j] = clickhouse.copies[j]
      /\ clickhouse' \in [schema : BOOLEAN, copies : [Live -> 0..1]]
  BY <1>2, <1>3, PollerTypes
<1>5. poller'.pc = "ack" /\ poller'.row = poller.row /\ TypeOK'
  BY <1>1, <1>3, <1>4, PollerTypes DEF RebuildInv, TypeOK
<1>6. PollerSound'
  BY <1>2, <1>5 DEF PollerSound
<1>7. clickhouse'.copies[poller'.row[1]] > 0
  BY <1>4, <1>5 DEF i
<1> QED
  BY <1>1, <1>4, <1>5, <1>6, <1>7, PollerKept

(* The poller gives its row up, with the status it writes under its lease. *)
LEMMA EndOfDelivery ==
  ASSUME RebuildInv, poller.pc \in {"query", "insert", "ack"}, Fault \/ UNCHANGED faults,
         NEW status \in {"leased", "sent", "failed", "dead_letter"}, status = "sent" => poller.pc = "ack",
         outbox' = [outbox EXCEPT ![poller.row] = IF @ = "leased" THEN status ELSE @],
         poller' = [pc |-> "idle", row |-> None],
         UNCHANGED <<redis, clickhouse, rebuild, reset, late, outlived>>
  PROVE  RebuildInv'
<1>1. poller.row \in Keys
  BY PollerTypes
<1>2. /\ outbox'[poller.row] = IF outbox[poller.row] = "leased" THEN status ELSE outbox[poller.row]
      /\ \A k \in Keys : k # poller.row => outbox'[k] = outbox[k]
      /\ outbox' \in [Keys -> {"absent", "pending", "leased", "expired", "failed", "sent", "dead_letter"}]
  BY <1>1, PollerTypes
<1>3. faults' \in 0..MaxFaults
  BY FaultType
<1>4. TypeOK' /\ PollerSound'
  BY <1>2, <1>3 DEF RebuildInv, TypeOK, PollerSound
<1> QED
  BY <1>2, <1>4, PollerKept

LEMMA EndOfDeliveryKept ==
  ASSUME RebuildInv, MarkDelivered \/ DeliveryFails \/ WorkerCrash
  PROVE  RebuildInv'
<1>1. CASE MarkDelivered
  BY <1>1, EndOfDelivery DEF MarkDelivered
<1>2. CASE DeliveryFails
  <2>1. PICK status \in {"failed", "dead_letter"} :
           outbox' = [outbox EXCEPT ![poller.row] = IF @ = "leased" THEN status ELSE @]
    BY <1>2 DEF DeliveryFails
  <2> QED
    BY <1>2, <2>1, EndOfDelivery DEF DeliveryFails
<1>3. CASE WorkerCrash
  <2>1. poller.row \in Keys
    BY <1>3, PollerTypes DEF WorkerCrash
  <2>2. outbox' = [outbox EXCEPT ![poller.row] = IF @ = "leased" THEN "leased" ELSE @]
    BY <1>3, <2>1, PollerTypes DEF WorkerCrash
  <2> QED
    BY <1>3, <2>2, EndOfDelivery DEF WorkerCrash
<1> QED
  BY <1>1, <1>2, <1>3

LEMMA LeaseExpiresKept ==
  ASSUME RebuildInv, NEW k \in Keys, LeaseExpires(k)
  PROVE  RebuildInv'
<1>1. /\ outbox[k] = "leased" /\ outbox' = [outbox EXCEPT ![k] = "expired"]
      /\ UNCHANGED <<redis, clickhouse, poller, rebuild, reset, late, outlived>>
  BY DEF LeaseExpires
<1>2. faults' \in 0..MaxFaults
  BY FaultType DEF LeaseExpires
<1>3. outbox'[k] = "expired" /\ \A j \in Keys : j # k => outbox'[j] = outbox[j]
  BY <1>1, PollerTypes
<1>4. TypeOK' /\ PollerSound'
  BY <1>1, <1>2, PollerTypes DEF RebuildInv, TypeOK, PollerSound
<1>5. poller.pc = "ack" => poller.row \in Keys
  BY PollerTypes
<1> QED
  BY <1>1, <1>3, <1>4, <1>5, PollerKept

-----------------------------------------------------------------------------
(* A key runs out, or an operator uses the pause: no run gains a key.      *)
LEMMA KeyKept ==
  ASSUME RebuildInv, UNCHANGED <<clickhouse, outbox, poller, rebuild, reset, late>>,
         redis' \in [lock : Rebuilds \cup {None}, pause : Rebuilds \cup {"operator", None}],
         outlived' \in BOOLEAN, faults' \in 0..MaxFaults,
         \A t \in Rebuilds : redis'.pause = t => redis.pause = t,
         \A t \in Rebuilds : Keyed(t)'
  PROVE  RebuildInv'
<1>1. TypeOK' /\ PollerSound'
  BY DEF RebuildInv, TypeOK, PollerSound
<1>2. ASSUME NEW t \in Rebuilds PROVE RunSound(rebuild[t])' /\ Unborn(t)' /\ Replaying(t)'
  BY DEF RebuildInv, RunSound, Unborn, Replaying, Stored, Sent
<1>3. ASSUME NEW t \in Rebuilds PROVE UnderPause(t)'
  BY DEF RebuildInv, UnderPause, Sent
<1> QED
  BY <1>1, <1>2, <1>3 DEF RebuildInv

LEMMA KeyTypes ==
  ASSUME RebuildInv
  PROVE  /\ redis \in [lock : Rebuilds \cup {None}, pause : Rebuilds \cup {"operator", None}]
         /\ outlived \in BOOLEAN /\ rebuild \in [Rebuilds -> RunType]
         /\ \A t \in Rebuilds : RunSound(rebuild[t]) /\ Keyed(t)
BY DEF RebuildInv, TypeOK, RunType

LEMMA ExpiryKept ==
  ASSUME RebuildInv, PauseExpires \/ LockExpires
  PROVE  RebuildInv'
<1>1. UNCHANGED <<clickhouse, outbox, poller, rebuild, reset, late>>
  BY DEF PauseExpires, LockExpires
<1>2. PICK owner : /\ Outlive(owner)
                   /\ \/ owner = redis.pause /\ redis' = [redis EXCEPT !.pause = None]
                      \/ owner = redis.lock /\ redis' = [redis EXCEPT !.lock = None]
  BY DEF PauseExpires, LockExpires
<1>3. /\ redis' \in [lock : Rebuilds \cup {None}, pause : Rebuilds \cup {"operator", None}]
      /\ redis'.pause = redis.pause \/ redis'.pause = None
      /\ redis'.pause # redis.pause => owner = redis.pause
      /\ redis'.lock # redis.lock => owner = redis.lock
  BY <1>2, KeyTypes
<1>4. faults' \in 0..MaxFaults
  BY <1>2, FaultType DEF Outlive
<1>5. outlived' \in BOOLEAN /\ (~outlived' => ~outlived /\ ~AtWork(owner))
  BY <1>2, KeyTypes DEF Outlive
<1>6. ASSUME NEW t \in Rebuilds PROVE Keyed(t)'
  <2> SUFFICES ASSUME ~outlived', AtWork(t)
               PROVE  /\ redis'.lock = t
                      /\ rebuild[t].pauseHeld => redis'.pause = t
                      /\ rebuild[t].schemaReady => clickhouse.schema
    BY <1>1 DEF Keyed, AtWork
  <2>1. /\ redis.lock = t /\ (rebuild[t].pauseHeld => redis.pause = t)
        /\ (rebuild[t].schemaReady => clickhouse.schema) /\ owner # t
    BY <1>5, KeyTypes DEF Keyed
  <2> QED
    BY <1>3, <2>1
<1>7. \A t \in Rebuilds : redis'.pause = t => redis.pause = t
  BY <1>3, RebuildAssumption
<1> QED
  BY <1>1, <1>3, <1>4, <1>5, <1>6, <1>7, KeyKept

LEMMA OperatorPauseKept ==
  ASSUME RebuildInv, PauseSink \/ ResumeSink
  PROVE  RebuildInv'
<1>1. UNCHANGED <<clickhouse, outbox, poller, rebuild, reset, late, outlived>>
  BY DEF PauseSink, ResumeSink
<1>2. PICK owner \in {"operator", None} :
         redis.pause \in {"operator", None} /\ redis' = [redis EXCEPT !.pause = owner]
  BY DEF PauseSink, ResumeSink
<1>3. /\ redis' \in [lock : Rebuilds \cup {None}, pause : Rebuilds \cup {"operator", None}]
      /\ redis'.pause = owner /\ redis'.lock = redis.lock
  BY <1>2, KeyTypes
<1>4. faults' \in 0..MaxFaults /\ outlived' \in BOOLEAN
  BY <1>1, FaultType, KeyTypes DEF PauseSink, ResumeSink
<1>5. \A t \in Rebuilds : redis.pause # t /\ redis'.pause # t
  BY <1>2, <1>3, RebuildAssumption
<1>6. ASSUME NEW t \in Rebuilds PROVE Keyed(t)'
  BY <1>1, <1>3, <1>5, KeyTypes DEF Keyed, AtWork
<1> QED
  BY <1>1, <1>3, <1>4, <1>5, <1>6, KeyKept

-----------------------------------------------------------------------------
(* Run t becomes r.  It only takes or gives the pause, requeues leases     *)
(* that ran out, adds clones of its own, and notes that it dropped the     *)
(* schema.                                                                 *)
Touches(t, r) ==
    /\ r \in RunType /\ RunSound(r)
    /\ rebuild' = [rebuild EXCEPT ![t] = r]
    /\ UNCHANGED <<poller, late, outlived>>
    /\ redis' \in [lock : Rebuilds \cup {None}, pause : Rebuilds \cup {"operator", None}]
    /\ redis'.pause \in {redis.pause, t, None}
    /\ outbox' \in [Keys -> {"absent", "pending", "leased", "expired", "failed", "sent", "dead_letter"}]
    /\ \A k \in Keys : \/ outbox'[k] = outbox[k]
                       \/ outbox[k] = "expired" /\ outbox'[k] = "failed"
                       \/ k[2] = t /\ outbox'[k] = "pending"
    /\ clickhouse' \in [schema : BOOLEAN, copies : [Live -> 0..1]]
    /\ \/ reset' = reset /\ clickhouse'.copies = clickhouse.copies
       \/ reset' = t /\ \A i \in Live : clickhouse'.copies[i] = 0

(* So other runs keep what they promise.                                   *)
LEMMA RunKept ==
  ASSUME RebuildInv, NEW t \in Rebuilds, NEW r, Touches(t, r), faults' \in 0..MaxFaults,
         \A u \in Rebuilds : Keyed(u)', Unborn(t)', UnderPause(t)', Replaying(t)'
  PROVE  RebuildInv'
<1> USE DEF Touches
<1>1. rebuild'[t] = r /\ \A u \in Rebuilds : u # t => rebuild'[u] = rebuild[u]
  BY KeyTypes
<1>2. TypeOK'
  <2>1. rebuild' \in [Rebuilds -> RunType]
    BY KeyTypes
  <2> QED
    BY <2>1 DEF RebuildInv, TypeOK, RunType
<1>3. PollerSound'
  BY PollerTypes DEF PollerSound
<1>4. \A u \in Rebuilds : RunSound(rebuild'[u])
  BY <1>1, KeyTypes
<1>5. \A i \in Live, u \in Rebuilds \cup {"live"} : <<i, u>> \in Keys /\ <<i, u>>[1] = i /\ <<i, u>>[2] = u
  BY DEF Keys
<1>6. /\ \A k \in Keys : outbox'[k] = "leased" => outbox[k] = "leased"
      /\ \A k \in Keys : outbox'[k] = "sent" => outbox[k] = "sent"
      /\ \A k \in Keys : k[2] # t /\ outbox[k] = "absent" => outbox'[k] = "absent"
  OBVIOUS
<1>7. Sent' \subseteq Sent
  BY <1>5, <1>6, RebuildAssumption DEF Sent
<1>8. ASSUME NEW u \in Rebuilds, u # t PROVE Unborn(u)' /\ UnderPause(u)'
  <2>1. Unborn(u) /\ UnderPause(u) /\ rebuild'[u] = rebuild[u]
    BY <1>1, <1>8 DEF RebuildInv
  <2>2. Unborn(u)'
    BY <1>5, <1>6, <1>8, <2>1 DEF Unborn
  <2>3. redis'.pause = u => redis.pause = u
    BY <1>8, RebuildAssumption
  <2>4. UnderPause(u)'
    BY <1>5, <1>6, <1>7, <2>1, <2>3 DEF UnderPause
  <2> QED
    BY <2>2, <2>4
<1>9. ASSUME NEW u \in Rebuilds, u # t PROVE Replaying(u)'
  <2>1. Replaying(u) /\ rebuild'[u] = rebuild[u]
    BY <1>1, <1>9 DEF RebuildInv
  <2> SUFFICES ASSUME reset' = u, Proceeds(rebuild[u])
               PROVE  /\ poller.pc = "ack" /\ outbox'[poller.row] = "leased" => Stored(poller.row[1])'
                      /\ \A i \in Live : outbox'[<<i, u>>] = "sent" => Stored(i)'
                      /\ \A i \in Sent' : Stored(i)' \/ i \in rebuild[u].retained
                      /\ rebuild[u].pc # "replay" => \A i \in rebuild[u].retained : Stored(i)'
    BY <2>1 DEF Replaying
  <2>2. reset = u /\ clickhouse'.copies = clickhouse.copies
    BY <1>9
  <2>3. \A i : Stored(i)' <=> Stored(i)
    BY <2>2 DEF Stored
  <2>4. poller' = poller /\ (poller.pc = "ack" => poller.row \in Keys)
    BY PollerTypes
  <2>5. /\ poller.pc = "ack" /\ outbox[poller.row] = "leased" => Stored(poller.row[1])
        /\ \A i \in Live : outbox[<<i, u>>] = "sent" => Stored(i)
        /\ \A i \in Sent : Stored(i) \/ i \in rebuild[u].retained
        /\ rebuild[u].pc # "replay" => \A i \in rebuild[u].retained : Stored(i)
    BY <2>1, <2>2 DEF Replaying
  <2>6. poller.pc = "ack" /\ outbox'[poller.row] = "leased" => Stored(poller.row[1])'
    BY <1>6, <2>3, <2>4, <2>5 DEF Stored
  <2> QED
    BY <1>5, <1>6, <1>7, <2>3, <2>5, <2>6
<1> QED
  BY <1>2, <1>3, <1>4, <1>8, <1>9 DEF RebuildInv

LEMMA RunFacts ==
  ASSUME RebuildInv, NEW t \in Rebuilds
  PROVE  /\ rebuild[t] \in RunType /\ RunSound(rebuild[t])
         /\ Keyed(t) /\ Unborn(t) /\ UnderPause(t) /\ Replaying(t)
BY KeyTypes DEF RebuildInv

WorkStep(t, r) ==
    /\ Touches(t, r) /\ rebuild[t].pc \in Running /\ UNCHANGED faults
    /\ ~outlived /\ redis.lock = t /\ r.pc \in Running =>
           /\ redis'.lock = t
           /\ r.pauseHeld => redis'.pause = t
           /\ r.schemaReady => clickhouse'.schema

(* While no key ran out under a run, nobody else is at work.               *)
LEMMA WorkKept ==
  ASSUME RebuildInv, NEW t \in Rebuilds, NEW r, WorkStep(t, r), Unborn(t)', UnderPause(t)', Replaying(t)'
  PROVE  RebuildInv'
<1>0. r \in RunType /\ rebuild' = [rebuild EXCEPT ![t] = r]
  BY DEF WorkStep, Touches
<1>1. rebuild'[t] = r /\ \A u \in Rebuilds : u # t => rebuild'[u] = rebuild[u]
  BY <1>0, KeyTypes
<1>2. ~outlived => redis.lock = t /\ \A u \in Rebuilds : AtWork(u) => u = t
  BY KeyTypes DEF Keyed, AtWork, WorkStep, Touches
<1>3. ASSUME NEW u \in Rebuilds PROVE Keyed(u)'
  BY <1>1, <1>2 DEF Keyed, AtWork, WorkStep, Touches
<1>4. faults' \in 0..MaxFaults
  BY FaultType DEF WorkStep
<1> QED
  BY <1>3, <1>4, RunKept DEF WorkStep

(* A failure: the keys, the copies and the sent rows stay.                 *)
LEMMA ThrowKept ==
  ASSUME RebuildInv, NEW t \in Rebuilds, rebuild[t].pc \in Running,
         rebuild' = [rebuild EXCEPT ![t] = Throw(rebuild[t])],
         UNCHANGED <<poller, late, outlived, faults, redis, reset>>,
         outbox' \in [Keys -> {"absent", "pending", "leased", "expired", "failed", "sent", "dead_letter"}],
         \A k \in Keys : outbox'[k] = outbox[k] \/ (k[2] = t /\ outbox'[k] = "pending"),
         clickhouse' \in [schema : BOOLEAN, copies : [Live -> 0..1]],
         clickhouse'.copies = clickhouse.copies, clickhouse.schema => clickhouse'.schema
  PROVE  RebuildInv'
<1>1. PICK r : r = Throw(rebuild[t])
  OBVIOUS
<1>2. /\ r \in RunType /\ RunSound(r) /\ r.pc \in Catching \cup {"unlock"} /\ r.failure # None
      /\ r.pauseHeld = rebuild[t].pauseHeld /\ r.schemaReady = rebuild[t].schemaReady
  BY <1>1, RunFacts, ThrowSound
<1>3. rebuild' = [rebuild EXCEPT ![t] = r] /\ rebuild'[t] = r
  BY <1>1, KeyTypes
<1>4. Unborn(t)' /\ UnderPause(t)' /\ Replaying(t)'
  BY <1>2, <1>3 DEF Unborn, UnderPause, Replaying, Proceeds, Catching
<1>5. ~outlived =>
         /\ redis.lock = t /\ (r.pauseHeld => redis.pause = t)
         /\ r.schemaReady => clickhouse.schema
  BY <1>2, RunFacts DEF Keyed, AtWork
<1>6. WorkStep(t, r)
  BY <1>2, <1>3, <1>5, KeyTypes DEF WorkStep, Touches
<1> QED
  BY <1>4, <1>6, WorkKept

LEMMA AcquirePauseKept ==
  ASSUME RebuildInv, NEW t \in Rebuilds, AcquirePause(t)
  PROVE  RebuildInv'
<1>1. /\ rebuild[t].pc = "pause" /\ rebuild[t].pc \in Running
      /\ UNCHANGED <<poller, late, outlived, faults, clickhouse, outbox, reset>>
  BY DEF AcquirePause, UnchangedByRebuild, Running
<1>2. CASE redis.pause # None
  BY <1>1, <1>2, ThrowKept, PollerTypes DEF AcquirePause, AcquireKey, Becomes
<1>3. CASE redis.pause = None
  <2>1. PICK r : r = [rebuild[t] EXCEPT !.pc = "drain", !.pauseHeld = TRUE]
    OBVIOUS
  <2>2. redis' = [redis EXCEPT !.pause = t] /\ rebuild' = [rebuild EXCEPT ![t] = r]
    BY <1>3, <2>1 DEF AcquirePause, AcquireKey, Becomes
  <2>3. /\ r \in RunType /\ r.pc = "drain" /\ r.pauseHeld /\ r.schemaReady = rebuild[t].schemaReady
    BY <2>1, RunFacts DEF RunType, Running
  <2>4. RunSound(r)
    BY <1>1, <2>3, RunFacts DEF RunSound, Holding, Unready, Ready, Catching
  <2>5. rebuild'[t] = r /\ Unborn(t)
    BY <2>2, RunFacts, KeyTypes
  <2>6. Unborn(t)' /\ UnderPause(t)' /\ Replaying(t)'
    BY <1>1, <2>3, <2>5 DEF Unborn, UnderPause, Replaying, Proceeds
  <2>7. /\ redis' \in [lock : Rebuilds \cup {None}, pause : Rebuilds \cup {"operator", None}]
        /\ redis'.pause = t /\ redis'.lock = redis.lock
    BY <2>2, KeyTypes
  <2>8. ~r.schemaReady
    BY <2>3, <2>4 DEF RunSound, Unready
  <2>9. WorkStep(t, r)
    BY <1>1, <2>2, <2>3, <2>4, <2>7, <2>8, PollerTypes DEF WorkStep, Touches
  <2> QED
    BY <2>6, <2>9, WorkKept
<1> QED
  BY <1>2, <1>3

-----------------------------------------------------------------------------
(* A run goes on to another place and changes nothing else.                *)
LEMMA GoOn ==
  ASSUME RebuildInv, NEW t \in Rebuilds, rebuild[t].pc \in Running, NEW pc \in Running,
         rebuild' = [rebuild EXCEPT ![t] = [rebuild[t] EXCEPT !.pc = pc]],
         UNCHANGED <<poller, late, outlived, faults, redis, reset, clickhouse>>,
         outbox' \in [Keys -> {"absent", "pending", "leased", "expired", "failed", "sent", "dead_letter"}],
         \A k \in Keys : \/ outbox'[k] = outbox[k]
                         \/ outbox[k] = "expired" /\ outbox'[k] = "failed"
                         \/ k[2] = t /\ outbox'[k] = "pending",
         RunSound([rebuild[t] EXCEPT !.pc = pc]),
         Unborn(t)', UnderPause(t)', Replaying(t)'
  PROVE  RebuildInv'
<1>1. PICK r : r = [rebuild[t] EXCEPT !.pc = pc]
  OBVIOUS
<1>2. /\ r \in RunType /\ r.pauseHeld = rebuild[t].pauseHeld /\ r.schemaReady = rebuild[t].schemaReady
      /\ RunSound(r) /\ rebuild' = [rebuild EXCEPT ![t] = r]
  BY <1>1, RunFacts DEF RunType
<1>3. ~outlived =>
         /\ redis.lock = t /\ (r.pauseHeld => redis.pause = t)
         /\ r.schemaReady => clickhouse.schema
  BY <1>2, RunFacts DEF Keyed, AtWork
<1>4. WorkStep(t, r)
  BY <1>2, <1>3, KeyTypes, PollerTypes DEF WorkStep, Touches
<1> QED
  BY <1>4, WorkKept

Requeues(t) ==
    /\ outbox' \in [Keys -> {"absent", "pending", "leased", "expired", "failed", "sent", "dead_letter"}]
    /\ \A k \in Keys : \/ outbox'[k] = outbox[k]
                       \/ outbox[k] = "expired" /\ outbox'[k] = "failed"
                       \/ k[2] = t /\ outbox'[k] = "pending"

LEMMA RequeuesEffect ==
  ASSUME RebuildInv, NEW t \in Rebuilds, Requeues(t)
  PROVE  /\ \A k \in Keys : outbox'[k] = "leased" => outbox[k] = "leased"
         /\ \A i \in Live : outbox'[<<i, t>>] = "sent" => outbox[<<i, t>>] = "sent"
         /\ Sent' = Sent
<1>1. \A i \in Live, u \in Rebuilds \cup {"live"} : <<i, u>> \in Keys /\ <<i, u>>[2] = u
  BY DEF Keys
<1>2. \A i \in Live : outbox'[<<i, "live">>] = "sent" <=> outbox[<<i, "live">>] = "sent"
  BY <1>1, RebuildAssumption DEF Requeues
<1> QED
  BY <1>1, <1>2 DEF Requeues, Sent

(* What run t promises of the rows survives its own steps, as long as it   *)
(* stays on the same side of the end of its pause.                         *)
LEMMA UnderPauseKept ==
  ASSUME RebuildInv, NEW t \in Rebuilds, Requeues(t), UNCHANGED late,
         redis'.pause = t => redis.pause = t,
         rebuild'[t].pc \in {"retain", "drop", "migrate", "empty", "clone", "resume"} =>
             /\ rebuild[t].pc \in {"drop", "migrate", "empty", "clone", "resume"}
             /\ rebuild'[t].retained = rebuild[t].retained
  PROVE  UnderPause(t)'
BY RunFacts, RequeuesEffect DEF UnderPause

LEMMA ReplayingKept ==
  ASSUME RebuildInv, NEW t \in Rebuilds, Requeues(t), UNCHANGED <<poller, late, reset>>,
         clickhouse'.copies = clickhouse.copies,
         Proceeds(rebuild'[t]) =>
             /\ Proceeds(rebuild[t])
             /\ rebuild'[t].pc # "replay" => rebuild[t].pc # "replay"
             /\ \/ rebuild'[t].retained = rebuild[t].retained
                \/ rebuild'[t].retained = {} /\ rebuild[t].pc # "replay"
  PROVE  Replaying(t)'
<1> SUFFICES ASSUME reset = t, Proceeds(rebuild'[t])
             PROVE  /\ poller.pc = "ack" /\ outbox'[poller.row] = "leased" => Stored(poller.row[1])'
                    /\ \A i \in Live : outbox'[<<i, t>>] = "sent" => Stored(i)'
                    /\ \A i \in Sent' : Stored(i)' \/ i \in rebuild'[t].retained
                    /\ rebuild'[t].pc # "replay" => \A i \in rebuild'[t].retained : Stored(i)'
  BY DEF Replaying
<1>1. \A i : Stored(i)' <=> Stored(i)
  BY DEF Stored
<1>2. poller.pc = "ack" => poller.row \in Keys
  BY PollerTypes
<1>3. /\ poller.pc = "ack" /\ outbox[poller.row] = "leased" => Stored(poller.row[1])
      /\ \A i \in Live : outbox[<<i, t>>] = "sent" => Stored(i)
      /\ \A i \in Sent : Stored(i) \/ i \in rebuild[t].retained
      /\ rebuild[t].pc # "replay" => \A i \in rebuild[t].retained : Stored(i)
  BY RunFacts DEF Replaying
<1>4. poller.pc = "ack" /\ outbox'[poller.row] = "leased" => Stored(poller.row[1])'
  BY <1>2, <1>3, RequeuesEffect DEF Stored
<1> QED
  BY <1>1, <1>3, <1>4, RequeuesEffect

(* A run goes on to another place; it may requeue rows.                    *)
LEMMA GoOnKept ==
  ASSUME RebuildInv, NEW t \in Rebuilds, rebuild[t].pc \in Running, NEW pc \in Running,
         rebuild' = [rebuild EXCEPT ![t] = [rebuild[t] EXCEPT !.pc = pc]],
         UNCHANGED <<poller, late, outlived, faults, redis, reset, clickhouse>>, Requeues(t),
         pc # "idle", pc \in Holding => rebuild[t].pauseHeld, pc \in Unready => ~rebuild[t].schemaReady,
         pc \in Ready => rebuild[t].schemaReady, pc \in Catching => rebuild[t].failure # None,
         pc \in {"idle", "pause", "drain"} => Unborn(t)',
         pc \in {"retain", "drop", "migrate", "empty", "clone", "resume"} =>
             \/ pc = "retain" /\ UnderPause(t)'
             \/ rebuild[t].pc \in {"drop", "migrate", "empty", "clone", "resume"},
         Proceeds([rebuild[t] EXCEPT !.pc = pc]) =>
             \/ pc = "repause" /\ Replaying(t)'
             \/ Proceeds(rebuild[t]) /\ (pc # "replay" => rebuild[t].pc # "replay")
  PROVE  RebuildInv'
<1>1. PICK r : r = [rebuild[t] EXCEPT !.pc = pc]
  OBVIOUS
<1>2. /\ r.pc = pc /\ r.pauseHeld = rebuild[t].pauseHeld /\ r.schemaReady = rebuild[t].schemaReady
      /\ r.failure = rebuild[t].failure /\ r.retained = rebuild[t].retained
      /\ rebuild'[t] = r
  BY <1>1, RunFacts, KeyTypes DEF RunType
<1>3. RunSound(r)
  BY <1>2 DEF RunSound
<1>4. Unborn(t)'
  BY <1>2 DEF Unborn
<1>5. UnderPause(t)'
  <2>1. CASE pc \in {"retain", "drop", "migrate", "empty", "clone", "resume"}
    BY <1>2, <2>1, UnderPauseKept
  <2>2. CASE pc \notin {"retain", "drop", "migrate", "empty", "clone", "resume"}
    BY <1>2, <2>2, UnderPauseKept
  <2> QED
    BY <2>1, <2>2
<1>6. Replaying(t)'
  <2>1. CASE pc = "repause" /\ Replaying(t)'
    BY <2>1
  <2>2. CASE Proceeds(r) /\ Proceeds(rebuild[t]) /\ (pc # "replay" => rebuild[t].pc # "replay")
    BY <1>2, <2>2, ReplayingKept
  <2>3. CASE ~Proceeds(r)
    BY <1>2, <2>3 DEF Replaying
  <2> QED
    BY <1>1, <2>1, <2>2, <2>3
<1> QED
  BY <1>1, <1>3, <1>4, <1>5, <1>6, GoOn DEF Requeues

-----------------------------------------------------------------------------
LEMMA SameOutbox ==
  ASSUME RebuildInv, NEW t \in Rebuilds, UNCHANGED outbox
  PROVE  Requeues(t)
BY PollerTypes DEF Requeues

(* The steps that look at something and go on, or throw.                   *)
LEMMA ChecksKept ==
  ASSUME RebuildInv, NEW t \in Rebuilds,
         CheckEmpty(t) \/ CompareCounts(t) \/ CompareIdentities(t) \/ CompareAggregates(t) \/ WriteEvidence(t)
  PROVE  RebuildInv'
<1>1. UNCHANGED <<poller, late, outlived, faults, redis, clickhouse, outbox, reset>>
  BY DEF CheckEmpty, CompareCounts, CompareIdentities, CompareAggregates, WriteEvidence, UnchangedByRebuild
<1>2. rebuild[t].pc \in {"empty", "counts", "identities", "aggregates", "evidence"}
  BY DEF CheckEmpty, CompareCounts, CompareIdentities, CompareAggregates, WriteEvidence
<1>3. rebuild[t].pc \in Running
  BY <1>2 DEF Running
<1>4. CASE rebuild' = [rebuild EXCEPT ![t] = Throw(rebuild[t])]
  BY <1>1, <1>3, <1>4, ThrowKept, PollerTypes
<1>5. CASE ~(rebuild' = [rebuild EXCEPT ![t] = Throw(rebuild[t])])
  <2>1. PICK pc : /\ rebuild' = [rebuild EXCEPT ![t] = [rebuild[t] EXCEPT !.pc = pc]]
                  /\ <<rebuild[t].pc, pc>> \in {<<"empty", "clone">>, <<"counts", "identities">>,
                        <<"identities", "aggregates">>, <<"aggregates", "release">>, <<"evidence", "unlock">>}
    BY <1>5 DEF CheckEmpty, CompareCounts, CompareIdentities, CompareAggregates, WriteEvidence, Becomes
  <2>2. /\ pc \in Running /\ pc \notin {"idle", "pause", "drain", "retain"}
        /\ (pc \in Holding => rebuild[t].pauseHeld) /\ (pc \in Unready => ~rebuild[t].schemaReady)
        /\ (pc \in Ready => rebuild[t].schemaReady) /\ (pc \in Catching => rebuild[t].failure # None)
    BY <2>1, RunFacts DEF RunSound, Holding, Unready, Ready, Catching, Running
  <2>3. /\ pc \in {"retain", "drop", "migrate", "empty", "clone", "resume"} =>
              rebuild[t].pc \in {"drop", "migrate", "empty", "clone", "resume"}
        /\ pc # "clone" => Proceeds(rebuild[t]) /\ rebuild[t].pc # "replay"
    BY <2>1 DEF Proceeds
  <2>4. ~Proceeds([rebuild[t] EXCEPT !.pc = "clone"])
    BY RunFacts DEF Proceeds, RunType
  <2> QED
    BY <1>1, <1>3, <2>1, <2>2, <2>3, <2>4, GoOnKept, SameOutbox
<1> QED
  BY <1>4, <1>5

LEMMA DrainKept ==
  ASSUME RebuildInv, NEW t \in Rebuilds, Drain(t)
  PROVE  RebuildInv'
<1>1. /\ UNCHANGED <<poller, late, outlived, faults, redis, clickhouse, reset>>
      /\ rebuild[t].pc \in {"drain", "redrain", "catch_drain"}
      /\ outbox' = [k \in Keys |-> IF outbox[k] = "expired" THEN "failed" ELSE outbox[k]]
  BY DEF Drain, UnchangedByRebuild
<1>2. rebuild[t].pc \in Running
  BY <1>1 DEF Running
<1>3. Requeues(t)
  BY <1>1, PollerTypes DEF Requeues
<1>4. \A k \in Keys : outbox[k] = "absent" => outbox'[k] = "absent"
  BY <1>1
<1>5. rebuild[t].pc = "drain" => \A i \in Live : outbox'[<<i, t>>] = "absent"
  BY <1>4, RunFacts DEF Unborn, Keys
<1>6. CASE ~Drained
  <2>1. PICK pc : pc = rebuild[t].pc
    OBVIOUS
  <2>2. rebuild' = [rebuild EXCEPT ![t] = [rebuild[t] EXCEPT !.pc = pc]]
    BY <1>6, <2>1, RunFacts DEF Drain, Becomes, RunType
  <2>3. /\ pc \in Running /\ pc \notin {"idle", "retain", "drop", "migrate", "empty", "clone", "resume", "replay"}
        /\ (pc \in Holding => rebuild[t].pauseHeld) /\ (pc \in Unready => ~rebuild[t].schemaReady)
        /\ (pc \in Ready => rebuild[t].schemaReady) /\ (pc \in Catching => rebuild[t].failure # None)
    BY <1>1, <1>2, <2>1, RunFacts DEF RunSound
  <2>4. pc \in {"idle", "pause", "drain"} => Unborn(t)'
    BY <1>1, <1>5, <2>1 DEF Unborn
  <2>5. Proceeds([rebuild[t] EXCEPT !.pc = pc]) => Proceeds(rebuild[t]) /\ rebuild[t].pc # "replay"
    BY <1>1, <2>1, RunFacts DEF Proceeds, RunType
  <2> QED
    BY <1>1, <1>2, <1>3, <2>2, <2>3, <2>4, <2>5, GoOnKept
<1>7. CASE Drained
  <2>1. PICK pc : /\ pc = CASE rebuild[t].pc = "drain" -> "retain" [] rebuild[t].pc = "redrain" -> "counts"
                            [] OTHER -> AfterPause(rebuild[t])
                  /\ rebuild' = [rebuild EXCEPT ![t] = [rebuild[t] EXCEPT !.pc = pc]]
    BY <1>7 DEF Drain, Becomes
  <2>2. /\ rebuild[t].pc = "drain" => pc = "retain"
        /\ rebuild[t].pc = "redrain" => pc = "counts"
        /\ rebuild[t].pc = "catch_drain" =>
              /\ pc \in {"catch_drop", "catch_release", "unlock"}
              /\ pc # "unlock" => rebuild[t].pauseHeld
              /\ pc = "catch_drop" => ~rebuild[t].schemaReady
              /\ pc = "catch_release" => rebuild[t].schemaReady
    BY <1>1, <2>1 DEF AfterPause
  <2>3. /\ pc \in Running /\ pc \notin {"idle", "pause", "drain", "drop", "migrate", "empty", "clone", "resume", "replay"}
        /\ (pc \in Holding => rebuild[t].pauseHeld) /\ (pc \in Unready => ~rebuild[t].schemaReady)
        /\ (pc \in Ready => rebuild[t].schemaReady) /\ (pc \in Catching => rebuild[t].failure # None)
    BY <1>1, <2>2, RunFacts DEF RunSound, Holding, Unready, Ready, Catching, Running
  <2>4. pc = "retain" => UnderPause(t)'
    <3>1. \A k \in Keys : outbox'[k] # "leased"
      BY <1>1, <1>7 DEF Drained
    <3>2. pc = "retain" => rebuild[t].pc = "drain"
      BY <1>1, <2>2
    <3>3. pc = "retain" => rebuild'[t].pc = "retain"
      BY <2>1, RunFacts, KeyTypes DEF RunType
    <3> QED
      BY <1>5, <3>1, <3>2, <3>3 DEF UnderPause
  <2>5. Proceeds([rebuild[t] EXCEPT !.pc = pc]) => Proceeds(rebuild[t]) /\ rebuild[t].pc # "replay"
    BY <1>1, <2>2, RunFacts DEF Proceeds, RunType, RunSound, Catching
  <2> QED
    BY <1>1, <1>2, <1>3, <2>1, <2>3, <2>4, <2>5, GoOnKept
<1> QED
  BY <1>6, <1>7

LEMMA RetainKept ==
  ASSUME RebuildInv, NEW t \in Rebuilds, Retain(t)
  PROVE  RebuildInv'
<1>1. /\ UNCHANGED <<poller, late, outlived, faults, redis, clickhouse, outbox, reset>>
      /\ rebuild[t].pc = "retain" /\ rebuild[t].pc \in Running
  BY DEF Retain, UnchangedByRebuild, Running
<1>2. PICK r : /\ r = [rebuild[t] EXCEPT !.pc = "drop", !.retained = Sent, !.resetStarted = TRUE]
               /\ rebuild' = [rebuild EXCEPT ![t] = r]
  BY DEF Retain, Becomes
<1>3. Sent \subseteq Live
  BY DEF Sent
<1>4. /\ r \in RunType /\ r.pc = "drop" /\ r.retained = Sent /\ r.pauseHeld = rebuild[t].pauseHeld
      /\ r.schemaReady = rebuild[t].schemaReady /\ rebuild'[t] = r
  BY <1>2, <1>3, RunFacts, KeyTypes DEF RunType, Running
<1>5. RunSound(r)
  BY <1>1, <1>4, RunFacts DEF RunSound, Holding, Unready, Ready, Catching
<1>6. Sent' = Sent
  BY <1>1 DEF Sent
<1>7. Unborn(t)' /\ Replaying(t)'
  BY <1>4 DEF Unborn, Replaying, Proceeds
<1>8. UnderPause(t)'
  BY <1>1, <1>4, <1>6, RunFacts DEF UnderPause
<1>9. WorkStep(t, r)
  BY <1>1, <1>2, <1>4, <1>5, RunFacts, KeyTypes, PollerTypes DEF WorkStep, Touches, Keyed, AtWork
<1> QED
  BY <1>7, <1>8, <1>9, WorkKept

LEMMA DropKept ==
  ASSUME RebuildInv, NEW t \in Rebuilds, Drop(t)
  PROVE  RebuildInv'
<1>1. /\ UNCHANGED <<poller, late, outlived, faults, redis, outbox>>
      /\ rebuild[t].pc \in {"drop", "catch_drop"} /\ rebuild[t].pc \in Running
      /\ clickhouse' = [schema |-> FALSE, copies |-> [i \in Live |-> 0]] /\ reset' = t
  BY DEF Drop, UnchangedByRebuild, Running
<1>2. PICK pc \in {"migrate", "catch_migrate"} : pc = IF rebuild[t].pc = "drop" THEN "migrate" ELSE "catch_migrate"
  OBVIOUS
<1>3. PICK r : r = [rebuild[t] EXCEPT !.pc = pc] /\ rebuild' = [rebuild EXCEPT ![t] = r]
  BY <1>2 DEF Drop, Becomes
<1>4. /\ r \in RunType /\ r.pc = pc /\ r.retained = rebuild[t].retained /\ r.pauseHeld = rebuild[t].pauseHeld
      /\ r.schemaReady = rebuild[t].schemaReady /\ r.failure = rebuild[t].failure /\ rebuild'[t] = r
  BY <1>2, <1>3, RunFacts, KeyTypes DEF RunType, Running
<1>5. RunSound(r) /\ ~r.schemaReady
  BY <1>1, <1>2, <1>4, RunFacts DEF RunSound, Holding, Unready, Ready, Catching
<1>6. Unborn(t)' /\ Replaying(t)'
  BY <1>2, <1>4 DEF Unborn, Replaying, Proceeds
<1>7. Requeues(t) /\ UnderPause(t)'
  BY <1>1, <1>2, <1>4, SameOutbox, UnderPauseKept
<1>8. clickhouse' \in [schema : BOOLEAN, copies : [Live -> 0..1]] /\ \A i \in Live : clickhouse'.copies[i] = 0
  BY <1>1
<1>9. WorkStep(t, r)
  BY <1>1, <1>3, <1>4, <1>5, <1>8, RunFacts, KeyTypes, PollerTypes DEF WorkStep, Touches, Keyed, AtWork
<1> QED
  BY <1>6, <1>7, <1>9, WorkKept

LEMMA MigrateKept ==
  ASSUME RebuildInv, NEW t \in Rebuilds, Migrate(t)
  PROVE  RebuildInv'
<1>1. /\ UNCHANGED <<poller, late, outlived, faults, redis, outbox, reset>>
      /\ rebuild[t].pc \in {"migrate", "catch_migrate"} /\ rebuild[t].pc \in Running
      /\ clickhouse' = [clickhouse EXCEPT !.schema = TRUE]
  BY DEF Migrate, UnchangedByRebuild, Running
<1>2. PICK pc \in {"empty", "catch_release"} : pc = IF rebuild[t].pc = "migrate" THEN "empty" ELSE "catch_release"
  OBVIOUS
<1>3. PICK r : /\ r = [rebuild[t] EXCEPT !.schemaReady = TRUE, !.pc = pc]
               /\ rebuild' = [rebuild EXCEPT ![t] = r]
  BY <1>2 DEF Migrate, Becomes
<1>4. /\ r \in RunType /\ r.pc = pc /\ r.retained = rebuild[t].retained /\ r.pauseHeld = rebuild[t].pauseHeld
      /\ r.schemaReady /\ r.failure = rebuild[t].failure /\ rebuild'[t] = r
  BY <1>2, <1>3, RunFacts, KeyTypes DEF RunType, Running
<1>5. RunSound(r)
  BY <1>1, <1>2, <1>4, RunFacts DEF RunSound, Holding, Unready, Ready, Catching
<1>6. Unborn(t)' /\ Replaying(t)'
  BY <1>2, <1>4 DEF Unborn, Replaying, Proceeds
<1>7. Requeues(t) /\ UnderPause(t)'
  BY <1>1, <1>2, <1>4, SameOutbox, UnderPauseKept
<1>8. /\ clickhouse' \in [schema : BOOLEAN, copies : [Live -> 0..1]]
      /\ clickhouse'.schema /\ clickhouse'.copies = clickhouse.copies
  BY <1>1, PollerTypes
<1>9. WorkStep(t, r)
  BY <1>1, <1>3, <1>4, <1>5, <1>8, RunFacts, KeyTypes, PollerTypes DEF WorkStep, Touches, Keyed, AtWork
<1> QED
  BY <1>6, <1>7, <1>9, WorkKept

LEMMA CloneRowsKept ==
  ASSUME RebuildInv, NEW t \in Rebuilds, CloneRows(t)
  PROVE  RebuildInv'
<1>1. /\ UNCHANGED <<poller, late, outlived, faults, redis, clickhouse, reset>>
      /\ rebuild[t].pc = "clone" /\ rebuild[t].pc \in Running
  BY DEF CloneRows, UnchangedByRebuild, Running
<1>2. PICK cloned : outbox' = [k \in Keys |-> IF k[2] = t /\ k[1] \in cloned THEN "pending" ELSE outbox[k]]
  BY DEF CloneRows
<1>3. /\ outbox' \in [Keys -> {"absent", "pending", "leased", "expired", "failed", "sent", "dead_letter"}]
      /\ \A k \in Keys : outbox'[k] = outbox[k] \/ (k[2] = t /\ outbox'[k] = "pending")
  BY <1>2, PollerTypes
<1>4. CASE rebuild' = [rebuild EXCEPT ![t] = Throw(rebuild[t])]
  BY <1>1, <1>3, <1>4, ThrowKept, PollerTypes
<1>5. CASE rebuild' = [rebuild EXCEPT ![t] = [rebuild[t] EXCEPT !.pc = "resume"]]
  <2>1. Requeues(t)
    BY <1>3 DEF Requeues
  <2>2. /\ "resume" \in Running /\ rebuild[t].pauseHeld /\ rebuild[t].schemaReady
        /\ "resume" \notin Unready /\ "resume" \notin Catching
    BY <1>1, RunFacts DEF RunSound, Holding, Unready, Ready, Catching, Running
  <2>3. ~Proceeds([rebuild[t] EXCEPT !.pc = "resume"])
    BY RunFacts DEF Proceeds, RunType
  <2> QED
    BY <1>1, <1>5, <2>1, <2>2, <2>3, GoOnKept
<1> QED
  BY <1>4, <1>5 DEF CloneRows, Becomes

(* The pause was held until now, so what it promised becomes what the      *)
(* replay promises.                                                        *)
LEMMA ResumeKept ==
  ASSUME RebuildInv, NEW t \in Rebuilds, Resume(t)
  PROVE  RebuildInv'
<1>1. /\ UNCHANGED <<poller, late, outlived, faults, clickhouse, outbox, reset>>
      /\ rebuild[t].pc \in {"resume", "release"} /\ rebuild[t].pc \in Running
  BY DEF Resume, UnchangedByRebuild, Running
<1>2. CASE redis.pause # t
  BY <1>1, <1>2, ThrowKept, PollerTypes DEF Resume, Becomes
<1>3. CASE redis.pause = t
  <2>1. PICK pc \in {"replay", "evidence"} : pc = IF rebuild[t].pc = "resume" THEN "replay" ELSE "evidence"
    OBVIOUS
  <2>2. PICK r : /\ r = [rebuild[t] EXCEPT !.pauseHeld = FALSE, !.pc = pc]
                 /\ rebuild' = [rebuild EXCEPT ![t] = r]
    BY <1>3, <2>1 DEF Resume, Becomes
  <2>3. /\ redis' \in [lock : Rebuilds \cup {None}, pause : Rebuilds \cup {"operator", None}]
        /\ redis'.pause = None /\ redis'.lock = redis.lock
    BY <1>3, KeyTypes DEF Resume
  <2>4. /\ r \in RunType /\ r.pc = pc /\ r.retained = rebuild[t].retained /\ ~r.pauseHeld
        /\ r.schemaReady = rebuild[t].schemaReady /\ r.failure = rebuild[t].failure /\ rebuild'[t] = r
    BY <2>1, <2>2, RunFacts, KeyTypes DEF RunType, Running
  <2>5. RunSound(r)
    BY <1>1, <2>1, <2>4, RunFacts DEF RunSound, Holding, Unready, Ready, Catching
  <2>6. Unborn(t)' /\ UnderPause(t)'
    BY <2>1, <2>4 DEF Unborn, UnderPause
  <2>7. Replaying(t)'
    <3>1. CASE rebuild[t].pc = "release"
      <4>1. Proceeds(rebuild[t]) /\ pc = "evidence"
        BY <2>1, <3>1 DEF Proceeds
      <4> QED
        BY <1>1, <2>4, <3>1, <4>1, SameOutbox, ReplayingKept
    <3>2. CASE rebuild[t].pc = "resume"
      <4>1. /\ \A k \in Keys : outbox[k] = "leased" => k[1] \in late
            /\ \A i \in Live : outbox[<<i, t>>] = "sent" => i \in late
            /\ Sent \ late \subseteq rebuild[t].retained
        BY <1>3, <3>2, RunFacts DEF UnderPause
      <4>2. poller.pc = "ack" /\ outbox[poller.row] = "leased" => poller.row[1] \in late
        BY <4>1, PollerTypes
      <4>3. Sent' = Sent /\ rebuild'[t].pc = "replay"
        BY <1>1, <2>1, <2>4, <3>2 DEF Sent
      <4> QED
        BY <1>1, <2>4, <4>1, <4>2, <4>3 DEF Replaying, Stored
    <3> QED
      BY <1>1, <3>1, <3>2
  <2>8. WorkStep(t, r)
    BY <1>1, <2>2, <2>3, <2>4, <2>5, RunFacts, KeyTypes, PollerTypes DEF WorkStep, Touches, Keyed, AtWork
  <2> QED
    BY <2>6, <2>7, <2>8, WorkKept
<1> QED
  BY <1>2, <1>3

(* All clones are sent, so all that was retained is stored.                *)
LEMMA ReplayedKept ==
  ASSUME RebuildInv, NEW t \in Rebuilds, Replayed(t)
  PROVE  RebuildInv'
<1>1. /\ UNCHANGED <<poller, late, outlived, faults, redis, clickhouse, outbox, reset>>
      /\ rebuild[t].pc = "replay" /\ rebuild[t].pc \in Running
  BY DEF Replayed, UnchangedByRebuild, Running
<1>2. CASE rebuild' = [rebuild EXCEPT ![t] = Throw(rebuild[t])]
  BY <1>1, <1>2, ThrowKept, PollerTypes
<1>3. CASE ~(rebuild' = [rebuild EXCEPT ![t] = Throw(rebuild[t])])
  <2>1. /\ \A i \in rebuild[t].retained : outbox[<<i, t>>] = "sent"
        /\ rebuild' = [rebuild EXCEPT ![t] = [rebuild[t] EXCEPT !.pc = "repause"]]
    BY <1>3 DEF Replayed, Becomes
  <2>2. /\ rebuild'[t].pc = "repause" /\ rebuild'[t].retained = rebuild[t].retained
        /\ rebuild[t].retained \subseteq Live
    BY <2>1, RunFacts, KeyTypes DEF RunType
  <2>3. Sent' = Sent /\ \A i : Stored(i)' <=> Stored(i)
    BY <1>1 DEF Sent, Stored
  <2>4. Replaying(t)'
    <3> SUFFICES ASSUME reset = t
                 PROVE  /\ poller.pc = "ack" /\ outbox[poller.row] = "leased" => Stored(poller.row[1])'
                        /\ \A i \in Live : outbox[<<i, t>>] = "sent" => Stored(i)'
                        /\ \A i \in Sent : Stored(i)' \/ i \in rebuild[t].retained
                        /\ \A i \in rebuild[t].retained : Stored(i)'
      BY <1>1, <2>2, <2>3 DEF Replaying
    <3>1. Proceeds(rebuild[t])
      BY <1>1 DEF Proceeds
    <3>2. /\ poller.pc = "ack" /\ outbox[poller.row] = "leased" => Stored(poller.row[1])
          /\ \A i \in Live : outbox[<<i, t>>] = "sent" => Stored(i)
          /\ \A i \in Sent : Stored(i) \/ i \in rebuild[t].retained
      BY <3>1, RunFacts DEF Replaying
    <3>3. Stored(poller.row[1])' <=> Stored(poller.row[1])
      BY <1>1 DEF Stored
    <3> QED
      BY <2>1, <2>2, <2>3, <3>2, <3>3
  <2>5. /\ "repause" \in Running /\ rebuild[t].schemaReady
        /\ "repause" \notin Unready \cup Catching \cup Holding
    BY <1>1, RunFacts DEF RunSound, Holding, Unready, Ready, Catching, Running
  <2> QED
    BY <1>1, <2>1, <2>4, <2>5, SameOutbox, GoOnKept
<1> QED
  BY <1>2, <1>3

(* A step of the catch block that reaches AfterPause or gives up.          *)
CatchStep(t, pc, held) ==
    /\ rebuild[t].pc \in Catching
    /\ pc = "unlock" \/ pc = AfterPause(rebuild[t])
    /\ held = rebuild[t].pauseHeld \/ (pc = "unlock" /\ held = FALSE)
    /\ rebuild' = [rebuild EXCEPT ![t] = [rebuild[t] EXCEPT !.pc = pc, !.pauseHeld = held]]
    /\ UNCHANGED <<poller, late, outlived, faults, outbox, reset>>
    /\ UNCHANGED redis \/ (held = FALSE /\ redis' = [redis EXCEPT !.pause = None])
    /\ clickhouse' \in [schema : BOOLEAN, copies : [Live -> 0..1]]
    /\ clickhouse'.copies = clickhouse.copies
    /\ clickhouse.schema => clickhouse'.schema

LEMMA CatchKept ==
  ASSUME RebuildInv, NEW t \in Rebuilds, NEW pc, NEW held, CatchStep(t, pc, held)
  PROVE  RebuildInv'
<1> USE DEF CatchStep
<1>1. PICK r : r = [rebuild[t] EXCEPT !.pc = pc, !.pauseHeld = held]
  OBVIOUS
<1>2. /\ pc \in {"catch_drop", "catch_release", "unlock"}
      /\ pc # "unlock" => rebuild[t].pauseHeld /\ held = rebuild[t].pauseHeld
      /\ pc = "catch_drop" => ~rebuild[t].schemaReady
      /\ pc = "catch_release" => rebuild[t].schemaReady
  BY DEF AfterPause
<1>3. held \in BOOLEAN /\ (held => rebuild[t].pauseHeld) /\ rebuild[t].failure # None /\ rebuild[t].pc \in Running
  BY RunFacts DEF RunType, RunSound, Catching, Running
<1>4. rebuild' = [rebuild EXCEPT ![t] = r]
  BY <1>1
<1> HIDE DEF CatchStep
<1>5. /\ r \in RunType /\ r.pc = pc /\ r.pauseHeld = held
      /\ r.schemaReady = rebuild[t].schemaReady /\ r.failure = rebuild[t].failure
      /\ rebuild' = [rebuild EXCEPT ![t] = r] /\ rebuild'[t] = r
  BY <1>1, <1>2, <1>3, <1>4, RunFacts, KeyTypes DEF RunType, Running
<1>6. RunSound(r)
  BY <1>2, <1>3, <1>5 DEF RunSound, Holding, Unready, Ready, Catching
<1>7. Unborn(t)' /\ UnderPause(t)' /\ Replaying(t)'
  BY <1>2, <1>3, <1>5 DEF Unborn, UnderPause, Replaying, Proceeds
<1>8. /\ redis' \in [lock : Rebuilds \cup {None}, pause : Rebuilds \cup {"operator", None}]
      /\ redis'.lock = redis.lock /\ redis'.pause \in {redis.pause, None}
      /\ held => redis'.pause = redis.pause
  BY KeyTypes DEF CatchStep
<1>9. WorkStep(t, r)
  BY <1>3, <1>5, <1>6, <1>8, RunFacts, KeyTypes, PollerTypes DEF CatchStep, WorkStep, Touches, Keyed, AtWork
<1> QED
  BY <1>7, <1>9, WorkKept

LEMMA SameHeld ==
  ASSUME RebuildInv, NEW t \in Rebuilds, NEW pc
  PROVE  [rebuild[t] EXCEPT !.pc = pc] = [rebuild[t] EXCEPT !.pc = pc, !.pauseHeld = rebuild[t].pauseHeld]
BY RunFacts DEF RunType

LEMMA EnsurePausedKept ==
  ASSUME RebuildInv, NEW t \in Rebuilds, EnsurePaused(t)
  PROVE  RebuildInv'
<1>1. /\ UNCHANGED <<poller, late, outlived, faults, clickhouse, outbox, reset>>
      /\ rebuild[t].pc \in {"repause", "catch_pause"} /\ rebuild[t].pc \in Running
  BY DEF EnsurePaused, UnchangedByRebuild, Running
<1>2. CASE redis.pause \in {t, None}
  <2>1. PICK r : /\ r = IF rebuild[t].pc = "repause"
                        THEN [rebuild[t] EXCEPT !.pc = "redrain", !.pauseHeld = TRUE]
                        ELSE [rebuild[t] EXCEPT !.pc = "catch_drain"]
                 /\ rebuild' = [rebuild EXCEPT ![t] = r]
    BY <1>2 DEF EnsurePaused, Becomes
  <2>2. /\ redis' \in [lock : Rebuilds \cup {None}, pause : Rebuilds \cup {"operator", None}]
        /\ redis'.pause = t /\ redis'.lock = redis.lock
    BY <1>2, KeyTypes DEF EnsurePaused
  <2>3. /\ r \in RunType /\ r.retained = rebuild[t].retained
        /\ r.schemaReady = rebuild[t].schemaReady /\ r.failure = rebuild[t].failure /\ rebuild'[t] = r
        /\ rebuild[t].pc = "repause" => r.pc = "redrain" /\ r.pauseHeld
        /\ rebuild[t].pc = "catch_pause" => r.pc = "catch_drain"
    BY <1>1, <2>1, RunFacts, KeyTypes DEF RunType, Running
  <2>4. RunSound(r)
    BY <1>1, <2>3, RunFacts DEF RunSound, Holding, Unready, Ready, Catching
  <2>5. Unborn(t)' /\ UnderPause(t)'
    BY <1>1, <2>3 DEF Unborn, UnderPause
  <2>6. Proceeds(r) => Proceeds(rebuild[t]) /\ r.pc # "replay" /\ rebuild[t].pc # "replay"
    BY <1>1, <2>3 DEF Proceeds
  <2>7. Replaying(t)'
    BY <1>1, <2>3, <2>6, SameOutbox, ReplayingKept
  <2>8. WorkStep(t, r)
    BY <1>1, <2>1, <2>2, <2>3, <2>4, RunFacts, KeyTypes, PollerTypes DEF WorkStep, Touches, Keyed, AtWork
  <2> QED
    BY <2>5, <2>7, <2>8, WorkKept
<1>3. CASE redis.pause \notin {t, None} /\ rebuild[t].pc = "repause"
  BY <1>1, <1>3, ThrowKept, PollerTypes DEF EnsurePaused, Becomes
<1>4. CASE redis.pause \notin {t, None} /\ rebuild[t].pc = "catch_pause"
  <2>1. PICK pc : pc = AfterPause(rebuild[t])
    OBVIOUS
  <2>2. UNCHANGED redis
    BY <1>4, <2>1 DEF EnsurePaused, Becomes
  <2>3. PICK held : held = rebuild[t].pauseHeld
    OBVIOUS
  <2>4. rebuild' = [rebuild EXCEPT ![t] = [rebuild[t] EXCEPT !.pc = pc, !.pauseHeld = held]]
    BY <1>4, <2>1, <2>3, SameHeld DEF EnsurePaused, Becomes
  <2>5. rebuild[t].pc \in Catching
    BY <1>4 DEF Catching
  <2>6. CatchStep(t, pc, held)
    BY <1>1, <2>1, <2>2, <2>3, <2>4, <2>5, PollerTypes DEF CatchStep
  <2> QED
    BY <2>6, CatchKept
<1> QED
  BY <1>1, <1>2, <1>3, <1>4

LEMMA FailsKept ==
  ASSUME RebuildInv, NEW t \in Rebuilds, Fails(t)
  PROVE  RebuildInv'
<1>1. /\ UNCHANGED <<poller, late, outlived, faults, redis, outbox, reset>>
      /\ rebuild[t].pc \in Running /\ rebuild' = [rebuild EXCEPT ![t] = Throw(rebuild[t])]
  BY DEF Fails, UnchangedByRebuild, Becomes
<1>2. PICK schema \in {clickhouse.schema, clickhouse.schema \/ rebuild[t].pc = "migrate"} :
         clickhouse' = [clickhouse EXCEPT !.schema = schema]
  BY DEF Fails
<1>3. schema \in BOOLEAN /\ (clickhouse.schema => schema)
  BY <1>2, PollerTypes
<1>4. /\ clickhouse' \in [schema : BOOLEAN, copies : [Live -> 0..1]]
      /\ clickhouse'.copies = clickhouse.copies /\ (clickhouse.schema => clickhouse'.schema)
  BY <1>2, <1>3, PollerTypes
<1> QED
  BY <1>1, <1>4, ThrowKept, PollerTypes

LEMMA CatchStepsKept ==
  ASSUME RebuildInv, NEW t \in Rebuilds, CatchFails(t) \/ CatchRelease(t)
  PROVE  RebuildInv'
<1>1. /\ UNCHANGED <<poller, late, outlived, faults, outbox, reset>>
      /\ rebuild[t].pc \in Catching
  BY DEF CatchFails, CatchRelease, UnchangedByRebuild, Catching
<1>2. PICK held : held = rebuild[t].pauseHeld
  OBVIOUS
<1>3. CASE CatchFails(t)
  <2>1. PICK schema \in {clickhouse.schema, clickhouse.schema \/ rebuild[t].pc = "catch_migrate"} :
           clickhouse' = [clickhouse EXCEPT !.schema = schema]
    BY <1>3 DEF CatchFails
  <2>2. schema \in BOOLEAN /\ (clickhouse.schema => schema)
    BY <2>1, PollerTypes
  <2>3. /\ clickhouse' \in [schema : BOOLEAN, copies : [Live -> 0..1]]
        /\ clickhouse'.copies = clickhouse.copies /\ (clickhouse.schema => clickhouse'.schema)
    BY <2>1, <2>2, PollerTypes
  <2>4. PICK pc : /\ pc = IF rebuild[t].pc \in {"catch_pause", "catch_drain"}
                          THEN AfterPause(rebuild[t]) ELSE "unlock"
                  /\ rebuild' = [rebuild EXCEPT ![t] = [rebuild[t] EXCEPT !.pc = pc]]
    BY <1>3 DEF CatchFails, Becomes
  <2>5. rebuild' = [rebuild EXCEPT ![t] = [rebuild[t] EXCEPT !.pc = pc, !.pauseHeld = held]]
    BY <1>2, <2>4, SameHeld
  <2>6. UNCHANGED redis
    BY <1>3 DEF CatchFails
  <2>7. CatchStep(t, pc, held)
    BY <1>1, <1>2, <2>3, <2>4, <2>5, <2>6 DEF CatchStep
  <2> QED
    BY <2>7, CatchKept
<1>4. CASE CatchRelease(t)
  <2>1. UNCHANGED clickhouse
    BY <1>4 DEF CatchRelease
  <2>2. CASE redis' = [redis EXCEPT !.pause = None] /\ Becomes(t, [rebuild[t] EXCEPT !.pc = "unlock", !.pauseHeld = FALSE])
    <3>1. CatchStep(t, "unlock", FALSE)
      BY <1>1, <2>1, <2>2, PollerTypes DEF CatchStep, Becomes
    <3> QED
      BY <3>1, CatchKept
  <2>3. CASE UNCHANGED redis /\ Becomes(t, [rebuild[t] EXCEPT !.pc = "unlock"])
    <3>1. rebuild' = [rebuild EXCEPT ![t] = [rebuild[t] EXCEPT !.pc = "unlock", !.pauseHeld = held]]
      BY <1>2, <2>3, SameHeld DEF Becomes
    <3>2. CatchStep(t, "unlock", held)
      BY <1>1, <1>2, <2>1, <2>3, <3>1, PollerTypes DEF CatchStep
    <3> QED
      BY <3>2, CatchKept
  <2> QED
    BY <1>4, <2>2, <2>3 DEF CatchRelease
<1> QED
  BY <1>3, <1>4

-----------------------------------------------------------------------------
LEMMA NoRunSound ==
  ASSUME NEW pc \in {"idle", "passed", "failed", "killed"}, NEW failure \in {"call", "check", None}
  PROVE  /\ NoRun(pc, failure) \in RunType /\ RunSound(NoRun(pc, failure))
         /\ NoRun(pc, failure).pc = pc /\ NoRun(pc, failure).retained = {} /\ NoRun(pc, failure).pc \notin Running
BY DEF NoRun, RunType, RunSound, Ended, Running, Holding, Unready, Ready, Catching

(* A run ends; one that passes stays as good as it was.                    *)
LEMMA EndKept ==
  ASSUME RebuildInv, NEW t \in Rebuilds, Unlock(t) \/ Kill(t)
  PROVE  RebuildInv'
<1>1. /\ UNCHANGED <<poller, late, outlived, faults, clickhouse, outbox, reset>>
      /\ rebuild[t].pc \in Running
  BY DEF Unlock, Kill, UnchangedByRebuild, Running
<1>2. PICK pc \in {"passed", "failed", "killed"}, failure \in {"call", "check", None} :
         /\ rebuild' = [rebuild EXCEPT ![t] = NoRun(pc, failure)]
         /\ pc = "passed" => rebuild[t].pc = "unlock" /\ rebuild[t].failure = None
  <2>1. CASE Kill(t)
    BY <2>1 DEF Kill, Becomes
  <2>2. CASE Unlock(t)
    <3>1. rebuild[t].failure \in {"call", "check", None}
      BY RunFacts DEF RunType
    <3>2. PICK pc \in {"passed", "failed"} : pc = IF rebuild[t].failure = None THEN "passed" ELSE "failed"
      OBVIOUS
    <3> QED
      BY <2>2, <3>1, <3>2 DEF Unlock, Becomes
  <2> QED
    BY <2>1, <2>2
<1>3. PICK r : r = NoRun(pc, failure)
  OBVIOUS
<1>4. /\ r \in RunType /\ RunSound(r) /\ r.pc = pc /\ r.retained = {} /\ r.pc \notin Running
      /\ rebuild' = [rebuild EXCEPT ![t] = r] /\ rebuild'[t] = r
  BY <1>2, <1>3, NoRunSound, KeyTypes
<1>5. /\ redis' \in [lock : Rebuilds \cup {None}, pause : Rebuilds \cup {"operator", None}]
      /\ redis'.pause = redis.pause
  BY KeyTypes DEF Unlock, Kill
<1>6. Unborn(t)' /\ UnderPause(t)'
  BY <1>4 DEF Unborn, UnderPause
<1>7. Proceeds(r) => pc = "passed" /\ Proceeds(rebuild[t]) /\ rebuild[t].pc # "replay"
  BY <1>2, <1>4 DEF Proceeds
<1>8. Replaying(t)'
  BY <1>1, <1>4, <1>7, SameOutbox, ReplayingKept
<1>9. WorkStep(t, r)
  BY <1>1, <1>4, <1>5, PollerTypes DEF WorkStep, Touches
<1> QED
  BY <1>6, <1>8, <1>9, WorkKept

LEMMA StartKept ==
  ASSUME RebuildInv, NEW t \in Rebuilds, Start(t)
  PROVE  RebuildInv'
<1>1. /\ UNCHANGED <<poller, late, outlived, clickhouse, outbox, reset>> /\ rebuild[t].pc = "idle"
  BY DEF Start
<1>2. faults' \in 0..MaxFaults
  BY FaultType DEF Start
<1>3. CASE AcquireKey(redis.lock, t) /\ redis' = [redis EXCEPT !.lock = t]
           /\ Becomes(t, [rebuild[t] EXCEPT !.pc = "pause"])
  <2>1. PICK r : r = [rebuild[t] EXCEPT !.pc = "pause"]
    OBVIOUS
  <2>2. /\ rebuild' = [rebuild EXCEPT ![t] = r] /\ rebuild'[t] = r /\ r \in RunType /\ r.pc = "pause"
        /\ r.pauseHeld = rebuild[t].pauseHeld /\ r.schemaReady = rebuild[t].schemaReady
        /\ \A u \in Rebuilds : u # t => rebuild'[u] = rebuild[u]
    BY <1>3, <2>1, RunFacts, KeyTypes DEF RunType, Running, Becomes
  <2>3. RunSound(r) /\ ~r.schemaReady
    BY <1>1, <2>2, RunFacts DEF RunSound, Holding, Unready, Ready, Catching
  <2>4. /\ redis' \in [lock : Rebuilds \cup {None}, pause : Rebuilds \cup {"operator", None}]
        /\ redis'.pause = redis.pause /\ redis.lock = None /\ redis'.lock = t
    BY <1>3, KeyTypes DEF AcquireKey
  <2>5. Unborn(t)' /\ UnderPause(t)' /\ Replaying(t)'
    BY <1>1, <2>2, RunFacts DEF Unborn, UnderPause, Replaying, Proceeds
  <2>6. ~outlived => \A u \in Rebuilds : ~AtWork(u)
    BY <2>4, RebuildAssumption, KeyTypes DEF Keyed
  <2>7. ~r.pauseHeld
    BY <1>1, <2>2, RunFacts DEF RunSound
  <2>8. ASSUME NEW u \in Rebuilds PROVE Keyed(u)'
    BY <1>1, <2>2, <2>3, <2>4, <2>6, <2>7 DEF Keyed, AtWork
  <2>9. Touches(t, r)
    BY <1>1, <2>2, <2>3, <2>4, KeyTypes, PollerTypes DEF Touches
  <2> QED
    BY <1>2, <2>5, <2>8, <2>9, RunKept
<1>4. CASE Becomes(t, NoRun("failed", "call")) /\ UNCHANGED redis
  <2>1. PICK r : r = NoRun("failed", "call")
    OBVIOUS
  <2>2. /\ r \in RunType /\ RunSound(r) /\ r.pc = "failed" /\ r.pc \notin Running
        /\ rebuild' = [rebuild EXCEPT ![t] = r] /\ rebuild'[t] = r
        /\ \A u \in Rebuilds : u # t => rebuild'[u] = rebuild[u]
    BY <1>4, <2>1, NoRunSound, KeyTypes DEF Becomes
  <2>3. Unborn(t)' /\ UnderPause(t)' /\ Replaying(t)'
    BY <2>2 DEF Unborn, UnderPause, Replaying, Proceeds
  <2>4. ASSUME NEW u \in Rebuilds PROVE Keyed(u)'
    BY <1>1, <1>4, <2>2, KeyTypes DEF Keyed, AtWork
  <2>5. Touches(t, r)
    BY <1>1, <1>4, <2>2, KeyTypes, PollerTypes DEF Touches
  <2> QED
    BY <1>2, <2>3, <2>4, <2>5, RunKept
<1> QED
  BY <1>3, <1>4 DEF Start

-----------------------------------------------------------------------------
LEMMA RebuildInit ==
  ASSUME Init
  PROVE  RebuildInv
<1>1. PICK sent \in SUBSET Live :
         /\ outbox = [k \in Keys |-> IF k[2] = "live" /\ k[1] \in sent THEN "sent"
                                ELSE IF k[2] = "live" THEN "pending" ELSE "absent"]
         /\ clickhouse = [schema |-> TRUE, copies |-> [i \in Live |-> IF i \in sent THEN 1 ELSE 0]]
  BY DEF Init
<1>2. NoRun("idle", None) \in RunType /\ RunSound(NoRun("idle", None)) /\ NoRun("idle", None).pc = "idle"
  BY NoRunSound
<1>3. \A t \in Rebuilds : rebuild[t] = NoRun("idle", None)
  BY DEF Init
<1>4. TypeOK
  <2>1. rebuild \in [Rebuilds -> RunType]
    BY <1>2 DEF Init
  <2>2. /\ clickhouse \in [schema : BOOLEAN, copies : [Live -> 0..1]]
        /\ outbox \in [Keys -> {"absent", "pending", "leased", "expired", "failed", "sent", "dead_letter"}]
    BY <1>1
  <2>3. redis \in [lock : Rebuilds \cup {None}, pause : Rebuilds \cup {"operator", None}]
    BY DEF Init
  <2>4. poller \in [pc : {"idle", "checked", "query", "insert", "ack"}, row : Keys \cup {None}]
    BY DEF Init
  <2>5. reset \in Rebuilds \cup {None} /\ late \subseteq Live /\ outlived \in BOOLEAN
    BY DEF Init
  <2>6. faults \in 0..MaxFaults
    BY RebuildAssumption DEF Init
  <2> QED
    BY <2>1, <2>2, <2>3, <2>4, <2>5, <2>6 DEF TypeOK, RunType
<1>5. PollerSound
  BY DEF Init, PollerSound
<1>6. ASSUME NEW t \in Rebuilds PROVE Unborn(t)
  BY <1>1, RebuildAssumption DEF Unborn, Keys
<1>7. ASSUME NEW t \in Rebuilds PROVE Keyed(t) /\ UnderPause(t) /\ Replaying(t)
  BY <1>2, <1>3 DEF Keyed, AtWork, Running, UnderPause, Replaying, Proceeds
<1> QED
  BY <1>2, <1>3, <1>4, <1>5, <1>6, <1>7 DEF RebuildInv

LEMMA RebuildNext ==
  ASSUME RebuildInv, [Next]_vars
  PROVE  RebuildInv'
<1>1. CASE UNCHANGED vars
  <2>1. UNCHANGED <<redis, clickhouse, outbox, poller, rebuild, reset, late, outlived, faults>>
    BY <1>1 DEF vars
  <2>2. \A t \in Rebuilds : Keyed(t)'
    BY <2>1, KeyTypes DEF Keyed, AtWork
  <2>3. faults' \in 0..MaxFaults
    BY <2>1, FaultType
  <2> QED
    BY <2>1, <2>2, <2>3, KeyKept, KeyTypes
<1>2. CASE PollerStep \/ DeliveryFails \/ WorkerCrash
  BY <1>2, ReadPauseKept, LeaseKept, QueryKept, InsertKept, EndOfDeliveryKept DEF PollerStep
<1>3. ASSUME NEW k \in Keys, LeaseExpires(k) PROVE RebuildInv'
  BY <1>3, LeaseExpiresKept
<1>4. ASSUME NEW t \in Rebuilds, Start(t) \/ RebuildStep(t) \/ Kill(t) PROVE RebuildInv'
  BY <1>4, StartKept, AcquirePauseKept, DrainKept, RetainKept, DropKept, MigrateKept, ChecksKept,
     CloneRowsKept, ResumeKept, ReplayedKept, EnsurePausedKept, FailsKept, CatchStepsKept, EndKept
     DEF RebuildStep
<1>5. CASE PauseSink \/ ResumeSink \/ PauseExpires \/ LockExpires
  BY <1>5, OperatorPauseKept, ExpiryKept
<1> QED
  BY <1>1, <1>2, <1>3, <1>4, <1>5 DEF Next

LEMMA RebuildInvImplies ==
  ASSUME RebuildInv
  PROVE  RebuildInvariant
<1>1. TypeOK
  BY DEF RebuildInv
<1>2. ASSUME ~outlived, NEW t \in Rebuilds, Resetting(t)
      PROVE  redis.pause = t /\ redis.lock = t
  BY <1>2, RunFacts DEF Resetting, RunSound, Holding, Keyed, AtWork, Running
<1>3. ResetIsExclusive
  BY <1>2 DEF ResetIsExclusive
<1>4. ASSUME reset # None, rebuild[reset].pc = "passed", NEW i \in Sent \ late
      PROVE  clickhouse.copies[i] > 0
  <2>1. reset \in Rebuilds
    BY <1>1, <1>4 DEF TypeOK
  <2>2. Stored(i)
    BY <1>4, <2>1, RunFacts DEF Replaying, Proceeds
  <2> QED
    BY <1>4, <2>2 DEF Stored
<1>5. PassedIsComplete
  BY <1>4 DEF PassedIsComplete
<1> QED
  BY <1>1, <1>3, <1>5 DEF RebuildInvariant

(* For any rows, rebuilds and faults: rows are stored at most once; while  *)
(* no key runs out under a rebuild, one rebuild at a time replaces the     *)
(* schema, and it holds the pause; and a rebuild that says "passed" lost   *)
(* no row, except those a poller leased after a stale look at the pause    *)
(* (runFreshRebuild beside pollOutbox).                                    *)
THEOREM RebuildIsSound == Spec => []RebuildInvariant
<1>1. Init => RebuildInv
  BY RebuildInit
<1>2. RebuildInv /\ [Next]_vars => RebuildInv'
  BY RebuildNext
<1>3. RebuildInv => RebuildInvariant
  BY RebuildInvImplies
<1> QED
  BY <1>1, <1>2, <1>3, PTL DEF Spec

(* No step of a rebuild or of its catch block gives the pause back while   *)
(* the schema is missing, as long as no key ran out under a rebuild        *)
(* (releaseKey in runFreshRebuild and in its catch block).                 *)
THEOREM ResumesWithSchema == Spec => NoResumeWithoutSchema
<1>1. Init => RebuildInv
  BY RebuildInit
<1>2. RebuildInv /\ [Next]_vars => RebuildInv'
  BY RebuildNext
<1>3. ASSUME RebuildInv, [Next]_vars, ~outlived, ~clickhouse.schema,
             redis.pause \in Rebuilds, redis'.pause = None
      PROVE  UNCHANGED rebuild
  <2>1. redis.pause # None /\ redis'.pause # redis.pause
    BY <1>3, RebuildAssumption
  <2>2. CASE UNCHANGED vars
    BY <2>1, <2>2 DEF vars
  <2>3. CASE PollerStep \/ DeliveryFails \/ WorkerCrash \/ \E k \in Keys : LeaseExpires(k)
    BY <2>3 DEF PollerStep, ReadPause, Lease, Query, Insert, MarkDelivered, DeliveryFails, WorkerCrash, LeaseExpires
  <2>4. CASE PauseSink \/ ResumeSink \/ PauseExpires \/ LockExpires
    BY <2>4 DEF PauseSink, ResumeSink, PauseExpires, LockExpires
  <2>5. ASSUME NEW t \in Rebuilds, Start(t) \/ RebuildStep(t) \/ Kill(t) PROVE FALSE
    <3>1. \A x : [redis EXCEPT !.lock = x].pause = redis.pause
      BY <1>3, KeyTypes
    <3>2. [redis EXCEPT !.pause = t].pause = t /\ t # None
      BY <1>3, KeyTypes, RebuildAssumption
    <3>3. Resume(t) \/ CatchRelease(t)
      BY <1>3, <2>1, <2>5, <3>1, <3>2 DEF RebuildStep, Start, Kill, AcquirePause, Drain, Retain, Drop, Migrate, CheckEmpty,
         CloneRows, Replayed, EnsurePaused, CompareCounts, CompareIdentities, CompareAggregates, WriteEvidence,
         Fails, CatchFails, Unlock
    <3>4. rebuild[t].pc \in {"resume", "release", "catch_release"}
      BY <3>3 DEF Resume, CatchRelease
    <3>5. clickhouse.schema
      BY <1>3, <3>4, RunFacts DEF RunSound, Ready, Keyed, AtWork, Running
    <3> QED
      BY <1>3, <3>5
  <2> QED
    BY <1>3, <2>2, <2>3, <2>4, <2>5 DEF Next
<1>4. RebuildInv /\ [Next]_vars =>
         [~outlived /\ ~clickhouse.schema /\ redis.pause \in Rebuilds /\ redis'.pause = None
             => UNCHANGED rebuild]_vars
  BY <1>3
<1> QED
  BY <1>1, <1>2, <1>4, PTL DEF Spec, NoResumeWithoutSchema
=============================================================================
