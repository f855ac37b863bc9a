---------------------- MODULE ClickHouseMigrationProofs ----------------------
(***************************************************************************)
(* Proofs about ClickHouseMigration, for any processes, releases and       *)
(* bounds.                                                                 *)
(*                                                                         *)
(* The argument: the lock keeps a second installer out, so what the        *)
(* installer has seen of the database stays true (Knows), and the database *)
(* is at every instant the first part of one release (Prefix).  The first  *)
(* record names the release, so a complete record of a release leaves no   *)
(* room for an installer that still writes.                                *)
(***************************************************************************)
EXTENDS ClickHouseMigration, TLAPS

(* What the table of migrations holds after n statements of release r.     *)
Records(r, n) == [v \in Versions |-> IF v <= n THEN <<Checksum(r, v)>> ELSE <<>>]

ProcessType ==
    [at : {"lock", "objects", "status", "ensure", "apply", "record", "release", "end"},
     command : {"up", "verify"}, release : DOMAIN Releases, next : Nat,
     seen : [table : BOOLEAN, objects : SUBSET Versions],
     result : {"none", "installed", "failed", "refused"}, under : Nat]

(* The database holds the first statements of one release, all of them     *)
(* recorded, perhaps except the last.                                      *)
PrefixOf(r, n) ==
    /\ n <= Releases[r] /\ history = Records(r, n)
    /\ objects = 1..n \/ (n < Releases[r] /\ objects = 1..(n + 1))
    /\ table \/ objects = {}

Prefix == \E r \in DOMAIN Releases, n \in 0..5 : PrefixOf(r, n)

(* What an installer may rely on.                                          *)
Knows(p) ==
    /\ At(p, "status") => process[p].seen = [table |-> table, objects |-> objects]
    /\ At(p, "ensure") => ~table /\ objects = {}
    /\ At(p, "apply") \/ At(p, "record") =>
          /\ table /\ process[p].next \in 1..Releases[process[p].release]
          /\ history = Records(process[p].release, process[p].next - 1)
          /\ objects = 1..(IF At(p, "apply") THEN process[p].next - 1 ELSE process[p].next)

(* A process that says "installed", to its caller or to itself.            *)
Concluded(p) ==
    /\ process[p].at \in {"release", "end"} /\ process[p].result = "installed"
    /\ At(p, "end") => process[p].under = recreated

(* What holds of one process.                                              *)
ProcessSound(p) ==
    process[p] # Idle =>
        /\ process[p] \in ProcessType /\ process[p].under <= recreated
        /\ process[p].command = "verify" => process[p].at \in {"objects", "status", "end"}
        /\ Installing(p) => Knows(p)
        /\ Concluded(p) => Complete(process[p].release)

Exclusive ==
    /\ \A p, q \in Processes : Installing(p) /\ Installing(q) => p = q
    /\ (\E p \in Processes : Installing(p)) => lock
    /\ lock => faults > 0 \/ \E p \in Processes : Installing(p)

(* The inductive invariant.                                                *)
MigrationInv ==
    /\ DOMAIN process = Processes /\ process = [p \in Processes |-> process[p]]
    /\ faults \in Nat /\ recreated \in Nat /\ table \in BOOLEAN /\ lock \in BOOLEAN
    /\ Prefix /\ Exclusive
    /\ \A p \in Processes : ProcessSound(p)

-----------------------------------------------------------------------------
(* The first record names the release, the number of records its progress. *)
LEMMA RecordsDiffer ==
  ASSUME NEW r \in DOMAIN Releases, NEW s \in DOMAIN Releases, NEW n \in 1..5, NEW k \in 0..5,
         Records(r, n) = Records(s, k)
  PROVE  r = s /\ n = k
<1>1. \A v \in Versions : (v <= n <=> v <= k)
  BY DEF Records, Versions
<1>2. n = k
  BY <1>1 DEF Versions
<1>3. 1 \in Versions /\ Records(r, n)[1] = <<r>> /\ Records(s, k)[1] = <<s>>
  BY <1>2 DEF Records, Checksum, Versions
<1> QED
  BY <1>2, <1>3

(* All the records of a release mean that all of it is there.              *)
LEMMA RecordedIsComplete ==
  ASSUME MigrationAssumption, Prefix, table, NEW r \in DOMAIN Releases,
         history = Records(r, Releases[r])
  PROVE  Complete(r)
<1>1. Releases[r] \in 1..5
  BY DEF MigrationAssumption, Versions
<1>2. PICK s \in DOMAIN Releases, n \in 0..5 : PrefixOf(s, n)
  BY DEF Prefix
<1>3. s = r /\ n = Releases[r]
  <2>1. Records(r, Releases[r]) = Records(s, n)
    BY <1>2 DEF PrefixOf
  <2> QED
    BY <1>1, <2>1, RecordsDiffer
<1>4. objects = 1..Releases[r]
  BY <1>1, <1>2, <1>3 DEF PrefixOf
<1> QED
  BY <1>1, <1>4 DEF Complete, Records, Baseline, Versions

(* What status() compares are the records of the release.                  *)
LEMMA InstalledIsComplete ==
  ASSUME MigrationAssumption, MigrationInv, NEW p \in Processes,
         process[p].release \in DOMAIN Releases, Installed(p)
  PROVE  Complete(process[p].release)
<1> DEFINE r == process[p].release
<1>1. Releases[r] \in 1..5
  BY DEF MigrationAssumption, Versions
<1>2. history = [v \in Versions |-> history[v]]
  BY DEF MigrationInv, Prefix, PrefixOf, Records
<1>3. history = Records(r, Releases[r])
  BY <1>1, <1>2 DEF Installed, Records, Baseline, Versions
<1> QED
  BY <1>3, RecordedIsComplete DEF MigrationInv, Installed

(* While an installer still writes, no release is complete.                *)
LEMMA WriterBeforeEnd ==
  ASSUME MigrationAssumption, NEW p \in Processes, process[p] \in ProcessType, Knows(p),
         process[p].at \in {"ensure", "apply", "record"}, NEW r \in DOMAIN Releases
  PROVE  ~Complete(r)
<1> DEFINE s == process[p].release
           n == process[p].next
<1>1. Releases[r] \in 1..5 /\ s \in DOMAIN Releases /\ Releases[s] \in 1..5
  BY DEF MigrationAssumption, Versions, ProcessType
<1>2. CASE At(p, "ensure")
  BY <1>1, <1>2 DEF Knows, Complete
<1>3. CASE process[p].at \in {"apply", "record"}
  <2>1. n \in 1..Releases[s] /\ history = Records(s, n - 1)
    BY <1>3 DEF Knows, At
  <2>2. SUFFICES ASSUME Complete(r) PROVE FALSE
    OBVIOUS
  <2>3. history = Records(r, Releases[r])
    BY <1>1, <2>1, <2>2 DEF Complete, Records, Baseline, Versions
  <2>4. s = r /\ n - 1 = Releases[r]
    BY <1>1, <2>1, <2>3, RecordsDiffer
  <2> QED
    BY <1>1, <2>1, <2>4
<1> QED
  BY <1>2, <1>3 DEF At

-----------------------------------------------------------------------------
(* What a step of p does not concern stays true of the other processes: it *)
(* leaves the database alone, or p is an installer at work.                *)
LEMMA OthersKept ==
  ASSUME MigrationAssumption, MigrationInv, NEW p \in Processes, NEW q \in Processes, q # p,
         process'[q] = process[q], recreated' = recreated,
         \/ UNCHANGED <<objects, table, history>>
         \/ Installing(p) /\ process[p].at \in {"ensure", "apply", "record"}
  PROVE  ProcessSound(q)'
<1>1. ProcessSound(q) /\ ProcessSound(p)
  BY DEF MigrationInv
<1>2. CASE UNCHANGED <<objects, table, history>>
  BY <1>1, <1>2 DEF ProcessSound, Installing, Knows, Concluded, Complete, At
<1>3. CASE Installing(p) /\ process[p].at \in {"ensure", "apply", "record"}
  <2>1. ~Installing(q)
    BY <1>3 DEF MigrationInv, Exclusive
  <2>2. process[p] \in ProcessType /\ Knows(p)
    BY <1>1, <1>3 DEF ProcessSound, Idle
  <2>3. \A r \in DOMAIN Releases : ~Complete(r)
    BY <1>3, <2>2, WriterBeforeEnd
  <2>4. process[q] # Idle => ~Concluded(q)
    BY <1>1, <2>3 DEF ProcessSound, ProcessType
  <2> QED
    BY <1>1, <2>1, <2>4 DEF ProcessSound, Installing, Concluded, At
<1> QED
  BY <1>2, <1>3

(* The typing that the steps below need.                                   *)
LEMMA Basics ==
  ASSUME MigrationInv
  PROVE  faults \in Nat /\ recreated \in Nat /\ table \in BOOLEAN /\ lock \in BOOLEAN
BY DEF MigrationInv

(* A step of p changes the record of p only.                               *)
LEMMA Apart ==
  ASSUME MigrationInv, NEW p \in Processes, NEW x, process' = [process EXCEPT ![p] = x]
  PROVE  process'[p] = x /\ \A q \in Processes : q # p => process'[q] = process[q]
BY DEF MigrationInv

(* A step of p that takes no lock keeps installers apart, if it lets the   *)
(* lock go only when p is the installer, and leaves it only by a fault.    *)
LEMMA ExclusiveKept ==
  ASSUME MigrationInv, NEW p \in Processes,
         \A q \in Processes : q # p => process'[q] = process[q],
         Installing(p)' => Installing(p),
         faults' \in Nat, faults' >= faults,
         \/ lock' = lock /\ (faults' > 0 \/ (Installing(p)' <=> Installing(p)))
         \/ Installing(p) /\ ~Installing(p)' /\ lock' = FALSE
  PROVE  Exclusive'
<1>1. \A q \in Processes : q # p => (Installing(q)' <=> Installing(q))
  BY DEF Installing
<1>2. \A q \in Processes : Installing(q)' => Installing(q)
  BY <1>1
<1>3. \A q, u \in Processes : Installing(q)' /\ Installing(u)' => q = u
  BY <1>2 DEF MigrationInv, Exclusive
<1>4. CASE lock' = lock /\ (faults' > 0 \/ (Installing(p)' <=> Installing(p)))
  <2>1. (\E q \in Processes : Installing(q)') => lock'
    BY <1>2, <1>4 DEF MigrationInv, Exclusive
  <2>2. lock' => faults' > 0 \/ \E q \in Processes : Installing(q)'
    BY <1>1, <1>4 DEF MigrationInv, Exclusive
  <2> QED
    BY <1>3, <2>1, <2>2 DEF Exclusive
<1>5. CASE Installing(p) /\ ~Installing(p)' /\ lock' = FALSE
  <2>1. \A q \in Processes : ~Installing(q)'
    BY <1>2, <1>5 DEF MigrationInv, Exclusive
  <2> QED
    BY <1>3, <1>5, <2>1 DEF Exclusive
<1> QED
  BY <1>4, <1>5

(* A step of p, put together from its parts.                               *)
LEMMA StepKept ==
  ASSUME MigrationAssumption, MigrationInv, NEW p \in Processes, NEW x,
         process' = [process EXCEPT ![p] = x], recreated' = recreated,
         faults' \in Nat, table' \in BOOLEAN, lock' \in BOOLEAN,
         \/ UNCHANGED <<objects, table, history>>
         \/ Installing(p) /\ process[p].at \in {"ensure", "apply", "record"},
         ProcessSound(p)', Prefix', Exclusive'
  PROVE  MigrationInv'
<1>1. /\ DOMAIN process' = Processes /\ process' = [q \in Processes |-> process'[q]]
      /\ \A q \in Processes : q # p => process'[q] = process[q]
  BY DEF MigrationInv
<1>2. \A q \in Processes : ProcessSound(q)'
  BY <1>1, OthersKept
<1> QED
  BY <1>1, <1>2 DEF MigrationInv

(* A process that is not idle has a full record.                           *)
LEMMA BusyProcess ==
  ASSUME MigrationInv, NEW p \in Processes, process[p].at # "idle"
  PROVE  process[p] \in ProcessType /\ ProcessSound(p) /\ process[p] # Idle
BY DEF MigrationInv, ProcessSound, Idle

(* The parts of the database that a step leaves alone.                     *)
LEMMA PrefixKept ==
  ASSUME Prefix, UNCHANGED <<objects, table, history>>
  PROVE  Prefix'
BY DEF Prefix, PrefixOf

(* Each action in turn.                                                    *)
LEMMA StartKept ==
  ASSUME MigrationAssumption, MigrationInv, NEW p \in Processes, NEW command \in {"up", "verify"},
         NEW release \in DOMAIN Releases, Start(p, command, release)
  PROVE  MigrationInv'
<1> DEFINE x == [at |-> IF command = "up" THEN "lock" ELSE "objects", command |-> command,
                 release |-> release, next |-> 0, seen |-> [table |-> FALSE, objects |-> {}],
                 result |-> "none", under |-> recreated]
<1>1. /\ process' = [process EXCEPT ![p] = x] /\ UNCHANGED <<objects, table, history, lock, faults, recreated>>
      /\ process[p].at \in {"idle", "end"} /\ process'[p] = x
  BY DEF Start, MigrationInv
<1>2. x \in ProcessType
  BY DEF ProcessType, MigrationInv
<1>3. ~Installing(p) /\ ~Installing(p)'
  BY <1>1 DEF Installing
<1>4. ProcessSound(p)'
  BY <1>1, <1>2, <1>3 DEF ProcessSound, Concluded, MigrationInv
<1>5. Exclusive'
  <2>1. faults' \in Nat /\ faults' >= faults /\ \A q \in Processes : q # p => process'[q] = process[q]
    BY <1>1, Basics, Apart
  <2> QED
    BY <1>1, <1>3, <2>1, ExclusiveKept
<1>6. Prefix'
  BY <1>1, PrefixKept DEF MigrationInv
<1> QED
  BY <1>1, <1>4, <1>5, <1>6, StepKept DEF MigrationInv

(* A process that ends without "installed".                                *)
LEMMA EndKept ==
  ASSUME MigrationAssumption, MigrationInv, NEW p \in Processes, process[p].at # "idle",
         NEW result \in {"none", "failed", "refused"}, End(p, result),
         UNCHANGED <<recreated, objects, table, history>>, faults' \in Nat, lock' \in BOOLEAN, Exclusive'
  PROVE  MigrationInv'
<1> DEFINE x == [process[p] EXCEPT !.at = "end", !.result = result, !.under = recreated]
<1>1. process' = [process EXCEPT ![p] = x] /\ process'[p] = x
  BY DEF End, MigrationInv
<1>2. process[p] \in ProcessType /\ process[p] # Idle
  BY BusyProcess
<1>3. x \in ProcessType /\ x.at = "end" /\ x.result = result /\ x.under = recreated
  BY <1>2 DEF ProcessType, MigrationInv
<1>4. ProcessSound(p)'
  <2>1. /\ process'[p] \in ProcessType /\ process'[p].at = "end" /\ process'[p].under = recreated'
        /\ process'[p].result # "installed" /\ recreated' \in Nat
    BY <1>1, <1>3, Basics
  <2> QED
    BY <2>1 DEF ProcessSound, Concluded, Installing
<1>5. Prefix'
  BY PrefixKept DEF MigrationInv
<1> QED
  BY <1>1, <1>4, <1>5, StepKept DEF MigrationInv

LEMMA AcquireKept ==
  ASSUME MigrationAssumption, MigrationInv, NEW p \in Processes, AcquireMigrationLock(p)
  PROVE  MigrationInv'
<1>1. /\ process[p] \in ProcessType /\ process[p].at = "lock" /\ process[p].command = "up"
      /\ ProcessSound(p) /\ ~Installing(p) /\ process[p] # Idle
  BY BusyProcess DEF AcquireMigrationLock, At, ProcessSound, ProcessType, Installing
<1>2. UNCHANGED <<objects, table, history, faults, recreated>>
  BY DEF AcquireMigrationLock
<1>3. CASE lock
  <2>1. End(p, "refused") /\ UNCHANGED lock
    BY <1>3 DEF AcquireMigrationLock
  <2>2. ~Installing(p)' /\ \A q \in Processes : q # p => process'[q] = process[q]
    BY <2>1 DEF End, Installing, MigrationInv
  <2>3. Exclusive'
    <3>1. faults' \in Nat /\ faults' >= faults
      BY <1>2, Basics
    <3> QED
      BY <1>1, <1>2, <2>1, <2>2, <3>1, ExclusiveKept
  <2> QED
    BY <1>1, <1>2, <2>1, <2>3, EndKept DEF MigrationInv
<1>4. CASE ~lock
  <2> DEFINE x == [process[p] EXCEPT !.at = "objects"]
  <2>1. lock' = TRUE /\ process' = [process EXCEPT ![p] = x] /\ process'[p] = x
    BY <1>4 DEF AcquireMigrationLock, Goto, MigrationInv
  <2>2. x \in ProcessType /\ x.at = "objects" /\ x.under = process[p].under
    BY <1>1 DEF ProcessType
  <2>3. ProcessSound(p)'
    BY <1>1, <1>2, <2>1, <2>2 DEF ProcessSound, Concluded, Knows, At
  <2>4. \A q \in Processes : Installing(q)' <=> q = p
    BY <1>1, <1>4, <2>1, <2>2 DEF MigrationInv, Exclusive, Installing
  <2>5. Exclusive'
    BY <2>1, <2>4 DEF Exclusive
  <2>6. Prefix'
    BY <1>2, PrefixKept DEF MigrationInv
  <2> QED
    BY <1>2, <2>1, <2>3, <2>5, <2>6, StepKept DEF MigrationInv
<1> QED
  BY <1>3, <1>4

LEMMA AcquireLostKept ==
  ASSUME MigrationAssumption, MigrationInv, NEW p \in Processes, AcquireLost(p)
  PROVE  MigrationInv'
<1>1. process[p].at = "lock" /\ End(p, "failed") /\ lock' = TRUE /\ ~lock /\ faults' = faults + 1
      /\ UNCHANGED <<objects, table, history, recreated>>
  BY DEF AcquireLost, At
<1>2. ~Installing(p)' /\ \A q \in Processes : q # p => process'[q] = process[q]
  BY <1>1 DEF End, Installing, MigrationInv
<1>3. \A q \in Processes : ~Installing(q)'
  BY <1>1, <1>2 DEF MigrationInv, Exclusive, Installing
<1>4. Exclusive'
  BY <1>1, <1>3 DEF Exclusive, MigrationInv
<1> QED
  BY <1>1, <1>4, EndKept DEF MigrationInv

LEMMA ReadKept ==
  ASSUME MigrationAssumption, MigrationInv, NEW p \in Processes, ReadSchemaObjects(p)
  PROVE  MigrationInv'
<1> DEFINE x == [process[p] EXCEPT !.at = "status", !.seen = [table |-> table, objects |-> objects]]
<1>1. /\ process' = [process EXCEPT ![p] = x] /\ process'[p] = x /\ process[p].at = "objects"
      /\ UNCHANGED <<objects, table, history, lock, faults, recreated>>
  BY DEF ReadSchemaObjects, At, MigrationInv
<1>2. process[p] \in ProcessType /\ ProcessSound(p) /\ process[p] # Idle
  BY <1>1, BusyProcess
<1>3. objects \subseteq Versions /\ table \in BOOLEAN
  BY DEF MigrationInv, Prefix, PrefixOf, MigrationAssumption, Versions
<1>4. x \in ProcessType /\ x.at = "status" /\ x.seen = [table |-> table, objects |-> objects]
      /\ x.under = process[p].under /\ x.command = process[p].command
  BY <1>2, <1>3 DEF ProcessType
<1>5. (Installing(p)' <=> Installing(p))
  BY <1>1, <1>4 DEF Installing
<1>6. ProcessSound(p)'
  BY <1>1, <1>2, <1>4 DEF ProcessSound, Concluded, Knows, At
<1>7. Exclusive'
  <2>1. faults' \in Nat /\ faults' >= faults /\ \A q \in Processes : q # p => process'[q] = process[q]
    BY <1>1, Basics, Apart
  <2> QED
    BY <1>1, <1>5, <2>1, ExclusiveKept
<1>8. Prefix'
  BY <1>1, PrefixKept DEF MigrationInv
<1> QED
  BY <1>1, <1>6, <1>7, <1>8, StepKept DEF MigrationInv

LEMMA StatusKept ==
  ASSUME MigrationAssumption, MigrationInv, NEW p \in Processes, Status(p)
  PROVE  MigrationInv'
<1>1. process[p].at = "status" /\ UNCHANGED <<objects, table, history, lock, faults, recreated>>
  BY DEF Status, At
<1>2. process[p] \in ProcessType /\ ProcessSound(p) /\ process[p] # Idle
  BY <1>1, BusyProcess
<1>3. Installed(p) => Complete(process[p].release)
  BY <1>2, InstalledIsComplete DEF ProcessType
<1>4. faults' \in Nat /\ faults' >= faults /\ recreated' = recreated /\ recreated \in Nat /\ Prefix'
  BY <1>1, Basics, PrefixKept DEF MigrationInv
<1>5. CASE process[p].command = "verify"
  <2> DEFINE x == [process[p] EXCEPT !.at = "end", !.result = IF Installed(p) THEN "installed" ELSE "failed",
                                     !.under = recreated]
  <2>1. process' = [process EXCEPT ![p] = x]
    BY <1>5 DEF Status, End, MigrationInv
  <2>2. process'[p] = x /\ \A q \in Processes : q # p => process'[q] = process[q]
    BY <2>1, Apart
  <2>3. /\ process'[p] \in ProcessType /\ process'[p].at = "end" /\ process'[p].under = recreated
        /\ process'[p].result = "installed" => Installed(p)
        /\ process'[p].release = process[p].release
    BY <1>2, <1>4, <2>2 DEF ProcessType
  <2>4. ProcessSound(p)'
    BY <1>1, <1>3, <1>4, <2>3 DEF ProcessSound, Concluded, Installing, Complete
  <2>5. ~Installing(p) /\ ~Installing(p)'
    BY <1>5, <2>3 DEF Installing
  <2>6. Exclusive'
    BY <1>1, <1>4, <2>2, <2>5, ExclusiveKept
  <2> QED
    BY <1>1, <1>4, <2>1, <2>4, <2>6, Basics, StepKept
<1>6. CASE process[p].command = "up"
  <2> DEFINE next == IF process[p].next = 0 /\ ~Installed(p) /\ Empty(p) THEN "ensure" ELSE "release"
             x == [process[p] EXCEPT !.at = next, !.result = IF Installed(p) THEN "installed" ELSE "failed"]
  <2>1. process' = [process EXCEPT ![p] = x]
    BY <1>6 DEF Status, MigrationInv
  <2>2. process'[p] = x /\ \A q \in Processes : q # p => process'[q] = process[q]
    BY <2>1, Apart
  <2>3. /\ process'[p] \in ProcessType /\ process'[p].at \in {"ensure", "release"}
        /\ process'[p].at = "ensure" => Empty(p)
        /\ process'[p].result = "installed" => Installed(p)
        /\ process'[p].release = process[p].release /\ process'[p].command = "up"
        /\ process'[p].under = process[p].under
    BY <1>2, <1>6, <2>2 DEF ProcessType
  <2>4. Installing(p) /\ Installing(p)' /\ Knows(p)
    BY <1>1, <1>2, <1>6, <2>3 DEF Installing, ProcessSound
  <2>5. Empty(p) => ~table /\ objects = {}
    BY <1>1, <2>4 DEF Knows, Empty, At
  <2>6. Knows(p)'
    BY <1>1, <2>3, <2>5 DEF Knows, At
  <2>7. ProcessSound(p)'
    BY <1>1, <1>2, <1>3, <2>3, <2>6 DEF ProcessSound, Concluded, Complete
  <2>8. Exclusive'
    BY <1>1, <1>4, <2>2, <2>4, ExclusiveKept
  <2> QED
    BY <1>1, <1>4, <2>1, <2>7, <2>8, Basics, StepKept
<1> QED
  BY <1>2, <1>5, <1>6 DEF ProcessType

(* An installer that writes, what it knows, and what its step must show.   *)
LEMMA WriterKnows ==
  ASSUME MigrationAssumption, MigrationInv, NEW p \in Processes,
         process[p].at \in {"ensure", "apply", "record"}
  PROVE  /\ process[p] \in ProcessType /\ process[p].command = "up" /\ process[p] # Idle
         /\ Installing(p) /\ Knows(p) /\ process[p].under <= recreated
         /\ process[p].release \in DOMAIN Releases /\ Releases[process[p].release] \in 1..5
         /\ process[p].next \in Nat
<1>1. process[p] \in ProcessType /\ ProcessSound(p) /\ process[p] # Idle
  BY BusyProcess
<1>2. process[p].command = "up"
  BY <1>1 DEF ProcessSound, ProcessType
<1> QED
  BY <1>1, <1>2 DEF ProcessSound, ProcessType, Installing, MigrationAssumption, Versions

LEMMA WriterStepKept ==
  ASSUME MigrationAssumption, MigrationInv, NEW p \in Processes,
         process[p].at \in {"ensure", "apply", "record"}, NEW x \in ProcessType,
         process' = [process EXCEPT ![p] = x], x.command = "up", x.under = process[p].under,
         x.at \in {"objects", "apply", "record", "release"}, x.at = "release" => x.result # "installed",
         table' \in BOOLEAN, faults' \in Nat, faults' >= faults, UNCHANGED <<lock, recreated>>,
         Knows(p)', Prefix'
  PROVE  MigrationInv'
<1>1. Installing(p) /\ process[p].under <= recreated
  BY WriterKnows
<1>2. process'[p] = x /\ \A q \in Processes : q # p => process'[q] = process[q]
  BY Apart
<1>3. Installing(p)'
  BY <1>2 DEF Installing
<1>4. Exclusive'
  BY <1>1, <1>2, <1>3, ExclusiveKept
<1>5. ProcessSound(p)'
  BY <1>1, <1>2 DEF ProcessSound, Concluded
<1> QED
  BY <1>1, <1>4, <1>5, Basics, StepKept

(* The effects of the three statements an installer sends, each of which   *)
(* leaves the first part of a release.                                     *)
LEMMA EnsureEffect ==
  ASSUME MigrationAssumption, MigrationInv, NEW p \in Processes, At(p, "ensure"),
         table' = TRUE, UNCHANGED <<objects, history>>
  PROVE  /\ ~table /\ objects = {} /\ Prefix'
         /\ \A r \in DOMAIN Releases : history' = Records(r, 0)
<1>1. ~table /\ objects = {}
  BY WriterKnows DEF At, Knows
<1>2. PICK r \in DOMAIN Releases, n \in 0..5 : PrefixOf(r, n)
  BY DEF MigrationInv, Prefix
<1>3. n = 0
  BY <1>1, <1>2 DEF PrefixOf
<1>4. PrefixOf(r, n)'
  BY <1>2 DEF PrefixOf
<1>5. \A s \in DOMAIN Releases : Records(s, 0) = Records(r, 0)
  BY DEF Records, Versions
<1> QED
  BY <1>1, <1>2, <1>3, <1>4, <1>5 DEF Prefix, PrefixOf

LEMMA ApplyEffect ==
  ASSUME MigrationAssumption, MigrationInv, NEW p \in Processes, At(p, "apply"),
         objects' = objects \cup {process[p].next}, UNCHANGED <<table, history>>
  PROVE  /\ process[p].next \notin objects /\ Prefix'
         /\ objects' = 1..process[p].next
<1>1. PICK r \in DOMAIN Releases, n \in Nat :
          r = process[p].release /\ n = process[p].next /\ Releases[r] \in 1..5 /\ Knows(p)
  BY WriterKnows DEF At
<1>2. table /\ n \in 1..Releases[r] /\ history = Records(r, n - 1) /\ objects = 1..(n - 1)
  BY <1>1 DEF Knows, At
<1>3. n \notin objects /\ objects' = 1..n
  BY <1>1, <1>2
<1>4. n - 1 \in 0..5 /\ PrefixOf(r, n - 1)'
  BY <1>1, <1>2, <1>3 DEF PrefixOf
<1> QED
  BY <1>1, <1>3, <1>4 DEF Prefix

LEMMA RecordEffect ==
  ASSUME MigrationAssumption, MigrationInv, NEW p \in Processes, At(p, "record"),
         history' = Recorded(p), UNCHANGED <<table, objects>>
  PROVE  history' = Records(process[p].release, process[p].next) /\ Prefix'
<1>1. PICK r \in DOMAIN Releases, n \in Nat :
          r = process[p].release /\ n = process[p].next /\ Releases[r] \in 1..5 /\ Knows(p)
  BY WriterKnows DEF At
<1>2. table /\ n \in 1..Releases[r] /\ history = Records(r, n - 1) /\ objects = 1..n
  BY <1>1 DEF Knows, At
<1>3. n \in Versions /\ history[n] = <<>>
  BY <1>1, <1>2 DEF Records, Versions
<1>4. history' = Records(r, n)
  <2>1. Append(<<>>, Checksum(r, n)) = <<Checksum(r, n)>>
    OBVIOUS
  <2>2. history' = [history EXCEPT ![n] = <<Checksum(r, n)>>]
    BY <1>1, <1>3, <2>1 DEF Recorded
  <2>3. \A v \in Versions : v <= n <=> v <= n - 1 \/ v = n
    BY <1>1 DEF Versions
  <2> QED
    BY <1>2, <1>3, <2>2, <2>3 DEF Records
<1>5. n \in 0..5 /\ PrefixOf(r, n)'
  BY <1>1, <1>2, <1>4 DEF PrefixOf
<1> QED
  BY <1>1, <1>4, <1>5 DEF Prefix

LEMMA EnsureKept ==
  ASSUME MigrationAssumption, MigrationInv, NEW p \in Processes, EnsureMigrationsTable(p)
  PROVE  MigrationInv'
<1>1. At(p, "ensure") /\ table' = TRUE /\ UNCHANGED <<objects, history, lock, faults, recreated>>
  BY DEF EnsureMigrationsTable
<1>2. ~table /\ objects = {} /\ Prefix' /\ \A r \in DOMAIN Releases : history' = Records(r, 0)
  BY <1>1, EnsureEffect
<1>3. /\ process[p] \in ProcessType /\ process[p].command = "up"
      /\ process[p].release \in DOMAIN Releases /\ Releases[process[p].release] \in 1..5
  BY <1>1, WriterKnows DEF At
<1> DEFINE x == [process[p] EXCEPT !.at = "apply", !.next = 1]
<1>4. process' = [process EXCEPT ![p] = x]
  BY <1>2 DEF EnsureMigrationsTable, MigrationInv
<1>5. /\ x \in ProcessType /\ x.command = "up" /\ x.under = process[p].under /\ x.at = "apply"
      /\ x.next = 1 /\ x.release = process[p].release
  BY <1>3 DEF ProcessType
<1>6. Knows(p)'
  <2>1. process'[p] = x
    BY <1>4, Apart
  <2>2. /\ process'[p].at = "apply" /\ process'[p].next = 1 /\ process'[p].release = process[p].release
    BY <1>5, <2>1
  <2>3. history' = Records(process[p].release, 1 - 1) /\ objects' = 1..(1 - 1) /\ table'
    BY <1>1, <1>2, <1>3
  <2> QED
    BY <1>3, <2>2, <2>3 DEF Knows, At
<1>7. faults' \in Nat /\ faults' >= faults /\ table' \in BOOLEAN /\ process[p].at = "ensure"
  BY <1>1, Basics DEF At
<1> QED
  BY <1>1, <1>2, <1>4, <1>5, <1>6, <1>7, WriterStepKept

LEMMA ApplyKept ==
  ASSUME MigrationAssumption, MigrationInv, NEW p \in Processes, Apply(p)
  PROVE  MigrationInv'
<1>1. /\ At(p, "apply") /\ objects' = objects \cup {process[p].next}
      /\ UNCHANGED <<table, history, lock, faults, recreated>>
  BY DEF Apply
<1>2. process[p].next \notin objects /\ Prefix' /\ objects' = 1..process[p].next
  BY <1>1, ApplyEffect
<1>3. process[p] \in ProcessType /\ process[p].command = "up" /\ Knows(p)
  BY <1>1, WriterKnows DEF At
<1> DEFINE x == [process[p] EXCEPT !.at = "record"]
<1>4. process' = [process EXCEPT ![p] = x]
  BY <1>2 DEF Apply, Goto, MigrationInv
<1>5. /\ x \in ProcessType /\ x.command = "up" /\ x.under = process[p].under /\ x.at = "record"
      /\ x.next = process[p].next /\ x.release = process[p].release
  BY <1>3 DEF ProcessType
<1>6. Knows(p)'
  <2>1. process'[p] = x
    BY <1>4, Apart
  <2>2. /\ process'[p].at = "record" /\ process'[p].next = process[p].next
        /\ process'[p].release = process[p].release
    BY <1>5, <2>1
  <2> QED
    BY <1>1, <1>2, <1>3, <2>2 DEF Knows, At
<1>7. faults' \in Nat /\ faults' >= faults /\ table' \in BOOLEAN /\ process[p].at = "apply"
  BY <1>1, Basics DEF At
<1> QED
  BY <1>1, <1>2, <1>4, <1>5, <1>6, <1>7, WriterStepKept

LEMMA RecordKept ==
  ASSUME MigrationAssumption, MigrationInv, NEW p \in Processes, Record(p)
  PROVE  MigrationInv'
<1>0. PICK r, n : r = process[p].release /\ n = process[p].next
  OBVIOUS
<1>8. PICK at \in {"objects", "apply"} : at = IF n = Releases[r] THEN "objects" ELSE "apply"
  OBVIOUS
<1> DEFINE x == [process[p] EXCEPT !.at = at, !.next = n + 1]
<1>1. /\ At(p, "record") /\ history' = Recorded(p)
      /\ UNCHANGED <<objects, table, lock, faults, recreated>>
  BY DEF Record
<1>2. history' = Records(r, n) /\ Prefix'
  BY <1>0, <1>1, RecordEffect
<1>3. /\ process[p] \in ProcessType /\ process[p].command = "up" /\ Knows(p)
      /\ Releases[r] \in 1..5 /\ n \in Nat
  BY <1>0, <1>1, WriterKnows DEF At
<1>4. process' = [process EXCEPT ![p] = x]
  BY <1>0, <1>8 DEF Record, MigrationInv
<1>5. /\ x \in ProcessType /\ x.command = "up" /\ x.under = process[p].under
      /\ x.at = at /\ x.next = n + 1 /\ x.release = r
  <2>1. n + 1 \in Nat
    BY <1>3
  <2>2. PICK m \in Nat : m = n + 1
    BY <2>1
  <2>3. [process[p] EXCEPT !.at = at, !.next = m] \in ProcessType
    BY <1>3 DEF ProcessType
  <2> QED
    BY <1>0, <1>3, <2>2, <2>3 DEF ProcessType
<1>6. Knows(p)'
  <2>1. process'[p] = x
    BY <1>4, Apart
  <2>2. process'[p].at = at /\ process'[p].next = n + 1 /\ process'[p].release = r
    BY <1>5, <2>1
  <2>3. table /\ n \in 1..Releases[r] /\ objects = 1..n
    BY <1>0, <1>1, <1>3 DEF Knows, At
  <2>4. n + 1 - 1 = n
    BY <1>3
  <2> QED
    BY <1>8, <1>1, <1>2, <1>3, <2>2, <2>3, <2>4 DEF Knows, At
<1>7. faults' \in Nat /\ faults' >= faults /\ table' \in BOOLEAN /\ process[p].at = "record"
  BY <1>1, Basics DEF At
<1> QED
  BY <1>1, <1>2, <1>4, <1>5, <1>6, <1>7, WriterStepKept

(* A failed request of the installer, with or without its effect.          *)
LEMMA RequestFailsKept ==
  ASSUME MigrationAssumption, MigrationInv, NEW p \in Processes, RequestFails(p)
  PROVE  MigrationInv'
<1>1. /\ process[p].at \in {"objects", "status", "ensure", "apply", "record"}
      /\ faults' = faults + 1 /\ UNCHANGED <<lock, recreated>>
  BY DEF RequestFails
<1>2. faults' \in Nat /\ faults' >= faults /\ faults' > 0
  BY <1>1, Basics
<1>3. process[p] \in ProcessType /\ ProcessSound(p) /\ process[p] # Idle
  BY <1>1, BusyProcess
<1>4. CASE process[p].command = "verify"
  <2>1. End(p, "failed") /\ UNCHANGED <<objects, table, history>>
    BY <1>3, <1>4 DEF RequestFails, ProcessSound, At
  <2>2. ~Installing(p)' /\ \A q \in Processes : q # p => process'[q] = process[q]
    BY <2>1 DEF End, Installing, MigrationInv
  <2>3. Exclusive'
    BY <1>1, <1>2, <2>2, ExclusiveKept
  <2> QED
    BY <1>1, <1>2, <2>1, <2>3, Basics, EndKept
<1>5. CASE process[p].command = "up"
  <2> DEFINE x == [process[p] EXCEPT !.at = "release", !.result = "failed"]
  <2>1. process' = [process EXCEPT ![p] = x]
    BY <1>5 DEF RequestFails, MigrationInv
  <2>2. /\ x \in ProcessType /\ x.command = "up" /\ x.under = process[p].under
        /\ x.at = "release" /\ x.result = "failed"
    BY <1>3, <1>5 DEF ProcessType
  <2>3. process'[p] = x /\ \A q \in Processes : q # p => process'[q] = process[q]
    BY <2>1, Apart
  <2>4. Knows(p)'
    BY <2>2, <2>3 DEF Knows, At
  <2>5. CASE UNCHANGED <<objects, table, history>>
    <3>1. Installing(p) /\ Installing(p)'
      BY <1>1, <1>5, <2>2, <2>3 DEF Installing
    <3>2. Exclusive'
      BY <1>1, <1>2, <2>3, <3>1, ExclusiveKept
    <3>3. ProcessSound(p)'
      BY <1>1, <1>3, <2>2, <2>3, <2>4 DEF ProcessSound, Concluded
    <3>4. Prefix'
      BY <2>5, PrefixKept DEF MigrationInv
    <3> QED
      BY <1>1, <1>2, <2>1, <2>5, <3>2, <3>3, <3>4, Basics, StepKept
  <2>6. CASE At(p, "ensure") /\ table' = TRUE /\ UNCHANGED <<objects, history>>
    <3>1. Prefix' /\ process[p].at = "ensure"
      BY <2>6, EnsureEffect DEF At
    <3> QED
      BY <1>1, <1>2, <2>1, <2>2, <2>4, <2>6, <3>1, WriterStepKept
  <2>7. CASE At(p, "apply") /\ objects' = objects \cup {process[p].next} /\ UNCHANGED <<table, history>>
    <3>1. Prefix' /\ process[p].at = "apply" /\ table' \in BOOLEAN
      BY <2>7, ApplyEffect, Basics DEF At
    <3> QED
      BY <1>1, <1>2, <2>1, <2>2, <2>4, <3>1, WriterStepKept
  <2>8. CASE At(p, "record") /\ history' = Recorded(p) /\ UNCHANGED <<objects, table>>
    <3>1. Prefix' /\ process[p].at = "record" /\ table' \in BOOLEAN
      BY <2>8, RecordEffect, Basics DEF At
    <3> QED
      BY <1>1, <1>2, <2>1, <2>2, <2>4, <3>1, WriterStepKept
  <2> QED
    BY <2>5, <2>6, <2>7, <2>8 DEF RequestFails
<1> QED
  BY <1>3, <1>4, <1>5 DEF ProcessType

LEMMA ReleaseKept ==
  ASSUME MigrationAssumption, MigrationInv, NEW p \in Processes, ReleaseMigrationLock(p)
  PROVE  MigrationInv'
<1> DEFINE x == [process[p] EXCEPT !.at = "end", !.result = process[p].result, !.under = recreated]
<1>1. /\ process[p].at = "release" /\ lock' = FALSE /\ process' = [process EXCEPT ![p] = x]
      /\ UNCHANGED <<objects, table, history, faults, recreated>>
  BY DEF ReleaseMigrationLock, At, End, MigrationInv
<1>2. process[p] \in ProcessType /\ ProcessSound(p) /\ process[p] # Idle
  BY <1>1, BusyProcess
<1>3. faults' \in Nat /\ faults' >= faults /\ recreated \in Nat /\ table' \in BOOLEAN
  BY <1>1, Basics
<1>4. /\ x \in ProcessType /\ x.at = "end" /\ x.release = process[p].release
      /\ x.result = process[p].result /\ x.under = recreated
  BY <1>2, <1>3 DEF ProcessType
<1>5. process'[p] = x /\ \A q \in Processes : q # p => process'[q] = process[q]
  BY <1>1, Apart
<1>6. Installing(p) /\ ~Installing(p)'
  BY <1>1, <1>2, <1>4, <1>5 DEF Installing, ProcessSound, ProcessType
<1>7. Exclusive'
  BY <1>1, <1>3, <1>5, <1>6, ExclusiveKept
<1>8. ProcessSound(p)'
  <2>1. process[p].result = "installed" => Complete(process[p].release)
    BY <1>1, <1>2 DEF ProcessSound, Concluded, At
  <2>2. Complete(process[p].release) => Complete(process[p].release)'
    BY <1>1, <1>4, <1>5 DEF Complete
  <2>3. /\ process'[p] \in ProcessType /\ process'[p].at = "end" /\ process'[p].under = recreated'
        /\ recreated' \in Nat /\ process'[p].result = process[p].result
        /\ process'[p].release = process[p].release
    BY <1>1, <1>3, <1>4, <1>5
  <2> QED
    BY <1>6, <2>1, <2>2, <2>3 DEF ProcessSound, Concluded, Complete
<1>9. Prefix'
  BY <1>1, PrefixKept DEF MigrationInv
<1> QED
  BY <1>1, <1>3, <1>7, <1>8, <1>9, StepKept

(* A process that dies, or whose release fails, leaves the lock behind.    *)
LEMMA DiesKept ==
  ASSUME MigrationAssumption, MigrationInv, NEW p \in Processes, Crash(p) \/ ReleaseFails(p)
  PROVE  MigrationInv'
<1>1. /\ process[p].at # "idle" /\ End(p, "failed") /\ faults' = faults + 1
      /\ UNCHANGED <<objects, table, history, lock, recreated>>
  BY DEF Crash, ReleaseFails, At
<1>2. faults' \in Nat /\ faults' >= faults /\ faults' > 0 /\ lock' \in BOOLEAN
  BY <1>1, Basics
<1>3. ~Installing(p)' /\ \A q \in Processes : q # p => process'[q] = process[q]
  BY <1>1 DEF End, Installing, MigrationInv
<1>4. Exclusive'
  BY <1>1, <1>2, <1>3, ExclusiveKept
<1> QED
  BY <1>1, <1>2, <1>4, EndKept

(* The operator acts when no installer is at work.                         *)
LEMMA OperatorKept ==
  ASSUME MigrationAssumption, MigrationInv, OperatorDropsLock \/ OperatorRecreates
  PROVE  MigrationInv'
<1>1. \A p \in Processes : ~Installing(p)
  BY DEF OperatorDropsLock, OperatorRecreates
<1>2. lock' = FALSE /\ UNCHANGED <<process, faults>>
  BY DEF OperatorDropsLock, OperatorRecreates
<1>3. Exclusive' /\ \A p \in Processes : ~Installing(p)'
  BY <1>1, <1>2 DEF Exclusive, Installing
<1>4. CASE OperatorDropsLock
  <2>1. UNCHANGED <<objects, table, history, recreated, process>>
    BY <1>4 DEF OperatorDropsLock
  <2>2. ASSUME NEW p \in Processes PROVE ProcessSound(p)'
    BY <1>3, <2>1 DEF MigrationInv, ProcessSound, Concluded, Complete, At
  <2>3. Prefix'
    BY <2>1, PrefixKept DEF MigrationInv
  <2> QED
    BY <1>2, <1>3, <2>1, <2>2, <2>3 DEF MigrationInv
<1>5. CASE OperatorRecreates
  <2>1. objects' = {} /\ table' = FALSE /\ history' = NoRecords /\ recreated' = recreated + 1
    BY <1>5 DEF OperatorRecreates
  <2>2. ASSUME NEW p \in Processes, process[p] # Idle PROVE ~Concluded(p)'
    <3>1. process[p] \in ProcessType /\ process[p].under <= recreated /\ recreated \in Nat
      BY <2>2 DEF MigrationInv, ProcessSound
    <3>2. process[p].at # "release"
      BY <1>1, <2>2, <3>1 DEF MigrationInv, ProcessSound, Installing, ProcessType
    <3> QED
      BY <1>2, <2>1, <3>1, <3>2 DEF Concluded, At, ProcessType
  <2>3. ASSUME NEW p \in Processes PROVE ProcessSound(p)'
    <3>1. process[p] # Idle => process[p] \in ProcessType /\ process[p].under <= recreated /\ recreated \in Nat
      BY DEF MigrationInv, ProcessSound
    <3>2. process[p] # Idle => process[p].under <= recreated'
      BY <2>1, <3>1 DEF ProcessType
    <3> QED
      BY <1>2, <1>3, <2>2, <3>1, <3>2 DEF MigrationInv, ProcessSound
  <2>4. PICK r \in DOMAIN Releases : Releases[r] \in 1..5
    BY DEF MigrationAssumption, Versions
  <2>5. PrefixOf(r, 0)'
    BY <2>1, <2>4 DEF PrefixOf, NoRecords, Records, Versions
  <2>6. Prefix'
    BY <2>5 DEF Prefix
  <2>7. recreated \in Nat
    BY Basics
  <2>8. recreated' \in Nat
    BY <2>1, <2>7
  <2>9. table' \in BOOLEAN /\ lock' \in BOOLEAN
    BY <1>2, <2>1
  <2> QED
    BY <1>2, <1>3, <2>3, <2>6, <2>8, <2>9 DEF MigrationInv
<1> QED
  BY <1>4, <1>5

-----------------------------------------------------------------------------
LEMMA MigrationInit ==
  ASSUME MigrationAssumption, Init
  PROVE  MigrationInv
<1>1. PICK r \in DOMAIN Releases : Releases[r] \in 1..5
  BY DEF MigrationAssumption, Versions
<1>2. PrefixOf(r, 0)
  BY <1>1 DEF Init, PrefixOf, NoRecords, Records, Versions
<1>3. Prefix
  BY <1>2 DEF Prefix
<1>4. \A p \in Processes : process[p] = Idle /\ ~Installing(p)
  BY DEF Init, Installing, Idle
<1>5. Exclusive /\ \A p \in Processes : ProcessSound(p)
  BY <1>4 DEF Exclusive, ProcessSound, Init
<1> QED
  BY <1>3, <1>5 DEF MigrationInv, Init

LEMMA MigrationNext ==
  ASSUME MigrationAssumption, MigrationInv, [Next]_vars
  PROVE  MigrationInv'
<1>1. CASE UNCHANGED vars
  <2>1. UNCHANGED <<objects, table, history, lock, process, faults, recreated>>
    BY <1>1 DEF vars
  <2>2. Prefix' /\ Exclusive'
    BY <2>1 DEF MigrationInv, Prefix, PrefixOf, Exclusive, Installing
  <2>3. \A p \in Processes : ProcessSound(p)'
    BY <2>1 DEF MigrationInv, ProcessSound, Installing, Knows, Concluded, Complete, At
  <2> QED
    BY <2>1, <2>2, <2>3 DEF MigrationInv
<1>2. CASE OperatorDropsLock \/ OperatorRecreates
  BY <1>2, OperatorKept
<1>3. ASSUME NEW p \in Processes,
             \/ \E command \in {"up", "verify"}, release \in DOMAIN Releases : Start(p, command, release)
             \/ AcquireMigrationLock(p) \/ AcquireLost(p) \/ ReadSchemaObjects(p) \/ Status(p)
             \/ EnsureMigrationsTable(p) \/ Apply(p) \/ Record(p)
             \/ RequestFails(p) \/ ReleaseMigrationLock(p) \/ ReleaseFails(p) \/ Crash(p)
      PROVE  MigrationInv'
  BY <1>3, StartKept, AcquireKept, AcquireLostKept, ReadKept, StatusKept, EnsureKept, ApplyKept,
     RecordKept, RequestFailsKept, ReleaseKept, DiesKept
<1> QED
  BY <1>1, <1>2, <1>3 DEF Next

LEMMA MigrationInvImplies ==
  ASSUME MigrationAssumption, MigrationInv
  PROVE  MigrationInvariant
<1>1. ASSUME NEW p \in Processes, At(p, "end"), process[p].result = "installed", process[p].under = recreated
      PROVE  Complete(process[p].release)
  BY <1>1, BusyProcess DEF ProcessSound, Concluded, At
<1>2. ASSUME NEW v \in Versions
      PROVE  Len(history[v]) <= 1 /\ (history[v] # <<>> => table /\ v \in objects)
  <2>1. PICK r \in DOMAIN Releases, n \in 0..5 : PrefixOf(r, n)
    BY DEF MigrationInv, Prefix
  <2>2. history[v] = IF v <= n THEN <<Checksum(r, v)>> ELSE <<>>
    BY <2>1 DEF PrefixOf, Records
  <2>3. Len(<<Checksum(r, v)>>) = 1 /\ Len(<<>>) = 0
    OBVIOUS
  <2>4. v <= n => table /\ v \in objects
    BY <2>1 DEF PrefixOf, Versions
  <2> QED
    BY <2>2, <2>3, <2>4
<1> QED
  BY <1>1, <1>2 DEF MigrationInv, Exclusive, MigrationInvariant

(* For any processes and releases, whatever fails and whoever dies: one    *)
(* installer at a time, which holds the lock; a process that says          *)
(* "installed" is right until the database is recreated; and what is       *)
(* recorded exists and is recorded once (applyClickHouseMigrations,        *)
(* verifyClickHouseMigrations).                                            *)
THEOREM MigrationIsSound ==
  ASSUME MigrationAssumption
  PROVE  Spec => []MigrationInvariant
<1>1. Init => MigrationInv
  BY MigrationInit
<1>2. MigrationInv /\ [Next]_vars => MigrationInv'
  BY MigrationNext
<1>3. MigrationInv => MigrationInvariant
  BY MigrationInvImplies
<1> QED
  BY <1>1, <1>2, <1>3, PTL DEF Spec

(* The baseline in the database is always the first part of one release,   *)
(* recorded in order, so an interrupted installation is never mistaken for *)
(* another release (EnsureMigrationsTable, Apply, Record).                 *)
THEOREM BaselineIsPrefix ==
  ASSUME MigrationAssumption
  PROVE  Spec => []Prefix
<1>1. Init => MigrationInv
  BY MigrationInit
<1>2. MigrationInv /\ [Next]_vars => MigrationInv'
  BY MigrationNext
<1>3. MigrationInv => Prefix
  BY DEF MigrationInv
<1> QED
  BY <1>1, <1>2, <1>3, PTL DEF Spec
=============================================================================
