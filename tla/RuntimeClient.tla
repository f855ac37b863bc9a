---------------------------- MODULE RuntimeClient ----------------------------
(***************************************************************************)
(* How a client follows the published configuration: the LiteLLM           *)
(* connector's policy thread, or an SDK's background refresh together with  *)
(* a refresh the application calls itself.  A refresh flushes the pending   *)
(* acknowledgements, asks for the snapshot with its ETag, verifies what it  *)
(* gets, acknowledges "received", writes the last-known-good file, swaps    *)
(* the snapshot in memory and acknowledges "applied".  The process may stop *)
(* between any two of these steps; the file and what the control plane has  *)
(* recorded survive, the rest does not.                                     *)
(*                                                                          *)
(* A configuration is its version number: RuntimePublication shows that a   *)
(* version never changes its content and that the newest is the one served. *)
(***************************************************************************)
EXTENDS Integers, Sequences, FiniteSets, SequencesExt

CONSTANTS
  Background, Manual, \* the two refreshes an SDK process may run at once
  MaxVersion,         \* configuration versions published
  Unsupported,        \* versions whose content this client cannot accept
  MaxFaults           \* lost or failed calls, failed writes and restarts

VARIABLES
  kind,      \* "litellm" or "sdk"
  latest,    \* the newest published version, 0 before the first
  acked,     \* version -> the states the control plane has recorded, in order
  snapshot,  \* the version in memory, 0 for none
  file,      \* the version in the last-known-good file, 0 for none
  pending,   \* acknowledgements queued in memory
  loop,      \* refresh -> where it is, its candidate, what follows its flush
  faults

vars == <<kind, latest, acked, snapshot, file, pending, loop, faults>>

Versions == 1..MaxVersion
States == {"received", "applied", "rejected"}
Ack(version, state) == [version |-> version, state |-> state]
Loops == IF kind = "litellm" THEN {Background} ELSE {Background, Manual}

At(place, candidate, then) == [at |-> place, candidate |-> candidate, then |-> then]
Resting == At("idle", 0, "none")

Started ==
  [l \in {Background, Manual} |->
     IF kind = "sdk" /\ l = Background THEN At("off", 0, "none") ELSE Resting]

Go(l, where) == loop' = [loop EXCEPT ![l] = where]
Fault == faults < MaxFaults /\ faults' = faults + 1
NoFault == UNCHANGED faults
Remote == UNCHANGED <<kind, latest>>

-----------------------------------------------------------------------------
(* The control plane.                                                      *)

Publish ==
  /\ latest < MaxVersion
  /\ latest' = latest + 1
  /\ UNCHANGED <<kind, acked, snapshot, file, pending, loop, faults>>

\* acknowledge: recorded once per acknowledgement id; a retry of the one
\* recorded last changes nothing.
Recorded(ack) ==
  [acked EXCEPT ![ack.version] = IF @ # <<>> /\ Last(@) = ack.state THEN @ ELSE Append(@, ack.state)]

\* The state list() shows for a version when the connector is active.
EffectiveState(v) ==
  CASE v # latest       -> "retired"
    [] acked[v] = <<>>  -> "pending"
    [] OTHER            -> Last(acked[v])

-----------------------------------------------------------------------------
(* A refresh.                                                              *)

\* A refresh ends with a snapshot or without.  An SDK's background loop runs
\* once start(), the application's first refresh, has ended with one.
End(l, held) ==
  /\ snapshot' = held
  /\ loop' = [loop EXCEPT ![l] = Resting,
                          ![Background] = IF @.at = "off" /\ held # 0 THEN Resting ELSE @]

\* Mutants: a failed refresh that drops the configuration in memory, and one
\* whose error ends the SDK's background loop.
FailDropping(l) == End(l, IF kind = "sdk" THEN file ELSE 0)
FailEndingLoop(l) ==
  IF kind = "sdk" /\ l = Background /\ snapshot # 0
  THEN Go(l, At("ended", 0, "none")) /\ UNCHANGED snapshot
  ELSE End(l, IF kind = "sdk" /\ snapshot = 0 THEN file ELSE snapshot)

\* A failed refresh keeps what it has; an SDK with nothing reads its file.
Fail(l) == End(l, IF kind = "sdk" /\ snapshot = 0 THEN file ELSE snapshot)

\* A flush ended after the last thing a refresh does, or failed.
FlushStopped(l) == IF loop[l].then = "done" THEN End(l, snapshot) ELSE Fail(l)

StartRefresh(l) ==
  /\ l \in Loops /\ loop[l].at = "idle"
  /\ Go(l, At("flush", 0, "get"))
  /\ UNCHANGED <<acked, snapshot, file, pending>> /\ Remote /\ NoFault

\* Post the head of the queue; the reply takes it off the queue.
Post(l) ==
  /\ loop[l].at = "flush" /\ pending # <<>>
  /\ acked' = Recorded(Head(pending))
  /\ \/ Go(l, [loop[l] EXCEPT !.at = "posted"]) /\ NoFault /\ UNCHANGED snapshot
     \/ Fault /\ FlushStopped(l)
  /\ UNCHANGED <<file, pending>> /\ Remote

PostFails(l) ==
  /\ loop[l].at = "flush" /\ pending # <<>>
  /\ Fault /\ FlushStopped(l)
  /\ UNCHANGED <<acked, file, pending>> /\ Remote

\* The other refresh may have emptied the queue meanwhile: in JavaScript
\* nothing is taken off, in Python the flush fails (and counts as a fault).
Shift(l) ==
  /\ loop[l].at = "posted"
  /\ \/ /\ pending' = IF pending = <<>> THEN <<>> ELSE Tail(pending)
        /\ Go(l, [loop[l] EXCEPT !.at = "flush"]) /\ NoFault /\ UNCHANGED snapshot
     \/ pending = <<>> /\ Fault /\ FlushStopped(l) /\ UNCHANGED pending
  /\ UNCHANGED <<acked, file>> /\ Remote

\* The queue is empty: the refresh goes on to what it was flushing for.
Flushed(l) ==
  /\ loop[l].at = "flush" /\ pending = <<>>
  /\ \/ /\ loop[l].then \in {"get", "write"}
        /\ Go(l, [loop[l] EXCEPT !.at = loop[l].then]) /\ UNCHANGED snapshot
     \/ /\ loop[l].then \in {"fail", "done"}
        /\ FlushStopped(l)
  /\ UNCHANGED <<acked, file, pending>> /\ Remote /\ NoFault

\* The snapshot endpoint: nothing published, 304 for the ETag held, or the
\* newest version.
Get(l) ==
  /\ loop[l].at = "get"
  /\ \/ latest = 0 /\ Fail(l)
     \/ latest # 0 /\ latest = snapshot /\ End(l, snapshot)
     \/ latest # 0 /\ latest # snapshot /\ Go(l, At("got", latest, "none")) /\ UNCHANGED snapshot
  /\ UNCHANGED <<acked, file, pending>> /\ Remote /\ NoFault

GetFails(l) ==
  /\ loop[l].at = "get" /\ Fault /\ Fail(l)
  /\ UNCHANGED <<acked, file, pending>> /\ Remote

Queue(l, state) == pending' = Append(pending, Ack(loop[l].candidate, state))

Verify(l) ==
  /\ loop[l].at = "got"
  /\ \/ /\ loop[l].candidate \notin Unsupported
        /\ Queue(l, "received") /\ Go(l, At("flush", loop[l].candidate, "write"))
     \/ /\ loop[l].candidate \in Unsupported
        /\ Queue(l, "rejected") /\ Go(l, At("flush", loop[l].candidate, "fail"))
  /\ UNCHANGED <<acked, snapshot, file>> /\ Remote /\ NoFault

\* Write a temporary file, sync it and rename it over the old one.
WriteLkg(l) ==
  /\ loop[l].at = "write"
  /\ file' = loop[l].candidate
  /\ Go(l, At("swap", loop[l].candidate, "none"))
  /\ UNCHANGED <<acked, snapshot, pending>> /\ Remote /\ NoFault

\* Mutant: a failed write is logged and the refresh goes on.
WriteFailsQuietly(l) ==
  /\ loop[l].at = "write" /\ Fault
  /\ Go(l, At("swap", loop[l].candidate, "none"))
  /\ UNCHANGED <<acked, snapshot, file, pending>> /\ Remote

WriteFails(l) ==
  /\ loop[l].at = "write" /\ Fault
  /\ Queue(l, "rejected") /\ Go(l, At("flush", loop[l].candidate, "fail"))
  /\ UNCHANGED <<acked, snapshot, file>> /\ Remote

Swap(l) ==
  /\ loop[l].at = "swap"
  /\ snapshot' = loop[l].candidate
  /\ Queue(l, "applied") /\ Go(l, At("flush", loop[l].candidate, "done"))
  /\ UNCHANGED <<acked, file>> /\ Remote /\ NoFault

\* The process stops and starts again.  The connector loads its file, unless
\* it cannot be read, and queues "applied" for it; an SDK starts empty.
Restart ==
  /\ Fault
  /\ loop' = Started
  /\ \/ /\ kind = "litellm" /\ file # 0
        /\ snapshot' = file /\ pending' = <<Ack(file, "applied")>>
     \/ snapshot' = 0 /\ pending' = <<>>
  /\ UNCHANGED <<acked, file>> /\ Remote

-----------------------------------------------------------------------------
Init ==
  /\ kind \in {"litellm", "sdk"}
  /\ latest = 0 /\ snapshot = 0 /\ file = 0
  /\ acked = [v \in Versions |-> <<>>] /\ pending = <<>>
  /\ loop = Started
  /\ faults = 0

Step(l) ==
  \/ StartRefresh(l) \/ Post(l) \/ PostFails(l) \/ Shift(l) \/ Flushed(l)
  \/ Get(l) \/ GetFails(l) \/ Verify(l) \/ WriteLkg(l) \/ WriteFails(l) \/ Swap(l)

Next == Publish \/ Restart \/ \E l \in {Background, Manual} : Step(l)

Spec == Init /\ [][Next]_vars

\* The background loop runs for as long as the process does, and a call it
\* has made returns.  Publications, faults and the application's own refresh
\* calls are not promised; a refresh in progress goes on.
FairSpec ==
  /\ Spec
  /\ WF_vars(Step(Background))
  /\ WF_vars(loop[Manual].at # "idle" /\ Step(Manual))

-----------------------------------------------------------------------------
(* Properties.                                                             *)

\* The connector's queue: what is still to be told of a version.
Pending(v, state) == \E i \in DOMAIN pending : pending[i] = Ack(v, state)

TypeOK ==
  /\ kind \in {"litellm", "sdk"} /\ latest \in 0..MaxVersion
  /\ snapshot \in 0..latest /\ file \in 0..latest
  /\ \A v \in Versions : acked[v] \in Seq(States)
  /\ \A i \in DOMAIN pending : pending[i].version \in 1..latest /\ pending[i].state \in States

\* What the connector reports is so, at every instant and across restarts:
\* the control plane is told "applied" only of a version that the durable
\* file holds (or a later one), never before it was told "received", and
\* "rejected" is its last word only on a version the connector does not run.
\* And what runs, in the connector or in an SDK, is always in the file first,
\* so that a restart without the control plane finds a configuration.
ReportsAreTrue ==
  /\ TypeOK
  /\ snapshot # 0 => file # 0
  /\ kind = "litellm" =>
       /\ snapshot <= file
       /\ \A v \in Versions : \A i \in DOMAIN acked[v] :
            acked[v][i] = "applied" => v <= file /\ \E j \in 1..(i - 1) : acked[v][j] = "received"
       /\ \A v \in Versions :
            EffectiveState(v) = "rejected" => snapshot # v \/ Pending(v, "applied")

\* A connector never returns to an older configuration, in its file or in
\* memory, not even by a restart; it can only lose the one in memory by a
\* restart that cannot read the file.
NeverOlder ==
  [][kind = "litellm" =>
       /\ file' >= file
       /\ snapshot' >= snapshot \/ (snapshot' = 0 /\ Restart)]_vars

\* Once publications and faults stop, an active connector comes to be listed
\* as having "applied" the newest version, and to stay so listed; one it cannot
\* accept is listed as "rejected".  The "applied" that a crash cut off is sent
\* by the restarted process.
NewestIsReported ==
  \A v \in Versions :
    <>[](kind = "litellm" /\ latest = v) =>
      <>[](EffectiveState(v) = IF v \in Unsupported THEN "rejected" ELSE "applied")

\* Once start() has succeeded and publications stop, an SDK comes to run the
\* newest version, if it can accept it, and to keep running it: a slow refresh
\* that brings an older one back is followed by one that corrects it.
NewestIsRun ==
  \A v \in Versions \ Unsupported :
    <>[](kind = "sdk" /\ latest = v /\ loop[Background].at # "off") => <>[](snapshot = v)

\* The newest version comes to be used: reported by a connector, run by an SDK.
NewestTakesEffect == NewestIsReported /\ NewestIsRun
=============================================================================
