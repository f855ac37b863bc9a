------------------------------ MODULE ModelCall ------------------------------
(***************************************************************************)
(* One chat call made through TokenPilot: the client picks the targets of  *)
(* the route, reserves AIU where the limit is hard, tries the targets in   *)
(* order with retries, reports one usage event per provider attempt, and   *)
(* settles or releases the reservation; the control plane expires what     *)
(* nobody closes and the worker charges the reported events.               *)
(*                                                                         *)
(* Seven clients make such calls: the Node and Python SDKs, with and       *)
(* without streaming, the latter synchronous or asynchronous, and the      *)
(* LiteLLM connector, whose proxy does the calling and hands every attempt *)
(* to a callback.  Reports go to the durable spool, and their delivery to  *)
(* the worker is UsageDelivery's; the rows of the allowance are            *)
(* UserAiuQuota's, kept here by what one reservation shows.                *)
(***************************************************************************)
EXTENDS Integers, Sequences

CONSTANTS
    MaxTargets,  \* targets of a route
    MaxRetries,  \* retries of a connection
    Estimate,    \* AIU reserved for the call, and settled by the client
    Measured,    \* AIU of a served attempt
    Partial,     \* AIU of a stream that broke off
    MaxFaults    \* bound on crashes and lost, late or refused requests

ASSUME CallAssumption ==
    /\ MaxTargets \in Nat \ {0} /\ MaxRetries \in Nat /\ MaxFaults \in Nat
    /\ Estimate \in Nat /\ Measured \in Nat /\ Partial \in Nat

VARIABLES
    client,       \* who calls, and how it is configured
    call,         \* the call's local state
    events,       \* its usage events, and where each is
    reservation,  \* the reservation row
    charged,      \* AIU consumed without a reservation
    late,         \* a settle or release request still under way
    faults

vars == <<client, call, events, reservation, charged, late, faults>>

Node == {"node", "node_stream"}
Async == {"async", "async_stream"}
Python == {"sync", "sync_stream"} \cup Async
Sdk == Node \cup Python
Kinds == Sdk \cup {"litellm"}

NewCall == [at |-> "start", targets |-> 0, target |-> 1, retry |-> 0, index |-> 0,
            calls |-> 0, token |-> FALSE, decision |-> "none", skipped |-> FALSE, cut |-> FALSE]

Init ==
    /\ client \in [kind : Kinds, failClosed : BOOLEAN, hardLimit : BOOLEAN]
    /\ call = NewCall
    /\ events = <<>>
    /\ reservation = [status |-> "NONE", settled |-> 0]
    /\ charged = 0 /\ late = "none" /\ faults = 0

(* Most events a call makes: one per try, and one for a late cancellation. *)
MaxEvents == MaxTargets * (MaxRetries + 1) + 1

Fault == faults < MaxFaults /\ faults' = faults + 1
Is(kind) == client.kind = kind

(* A usage event of the current attempt, not yet in the spool.             *)
UsageEvent(status, final, units) ==
    [attempt |-> call.index, status |-> status, final |-> final, units |-> units, in |-> "memory"]

-----------------------------------------------------------------------------
(* Before the call.                                                        *)

(* n targets of the route can serve the request; with none, or where the   *)
(* snapshot denies access or has no route, the call is refused.            *)
ChatTargets(n) ==
    /\ call.at = "start"
    /\ call' = [call EXCEPT !.targets = n, !.at = IF n = 0 THEN "done" ELSE "reserve"]
    /\ UNCHANGED <<client, events, reservation, charged, late, faults>>

(* The connector's hook decides alike, and asks for the reservation with   *)
(* the candidates of the route.                                            *)
ApplyToRequest(n) == Is("litellm") /\ ChatTargets(n)

RouteAndTargets(n) == client.kind \in Python /\ ChatTargets(n)

NodeTargets(n) == client.kind \in Node /\ ChatTargets(n)

(* What the reservation request did: "reserved", "unlimited" (no hard quota *)
(* of this user), "denied", "unreachable" (nothing happened) or "lost" (the *)
(* reservation is made and the reply is not seen).                          *)
Replies == {"reserved", "unlimited", "denied", "unreachable", "lost"}

Decision(reply) ==
    CASE reply \in {"reserved", "unlimited"} -> "allowed"
      [] reply = "denied" -> "denied"
      [] OTHER -> "unknown"

Reserved(reply, proceeds) ==
    /\ call.at = "reserve" /\ client.hardLimit
    /\ IF reply \in {"unreachable", "lost"} THEN Fault ELSE UNCHANGED faults
    /\ reservation' = IF reply \in {"reserved", "lost"}
                      THEN [reservation EXCEPT !.status = "RESERVED"] ELSE reservation
    /\ call' = [call EXCEPT !.token = (reply = "reserved"), !.decision = Decision(reply),
                            !.at = IF proceeds THEN "connect" ELSE "done"]
    /\ UNCHANGED <<client, events, charged, late>>

(* In the SDKs a denial is an error like any other, and an application     *)
(* that fails open goes on without a reservation.                          *)
ReserveUserAiu(reply) ==
    /\ client.kind \in Sdk
    /\ Reserved(reply, Decision(reply) = "allowed" \/ ~client.failClosed)

(* The connector never lets a denied call through.                         *)
ReserveQuota(reply) ==
    /\ Is("litellm")
    /\ Reserved(reply, \/ Decision(reply) = "allowed"
                       \/ Decision(reply) = "unknown" /\ ~client.failClosed)

NotRequired ==
    /\ call.at = "reserve" /\ ~client.hardLimit
    /\ call' = [call EXCEPT !.at = "connect"]
    /\ UNCHANGED <<client, events, reservation, charged, late, faults>>

-----------------------------------------------------------------------------
(* Trying the targets.                                                     *)

(* After the loop over the targets: release what is held, then report.     *)
GiveUp(c) == [c EXCEPT !.at = IF c.token THEN "release" ELSE "report_failed"]

NextTarget(c) ==
    IF c.target = c.targets THEN GiveUp(c)
    ELSE [c EXCEPT !.target = @ + 1, !.retry = 0, !.at = "connect"]

Connect ==
    /\ call.at = "connect"
    /\ call' = [call EXCEPT !.at = "attempt"]
    /\ UNCHANGED <<client, events, reservation, charged, late, faults>>

(* A credential that cannot be resolved skips the target without an event. *)
CredentialMissing ==
    /\ call.at = "connect" /\ client.kind \in Sdk
    /\ call' = NextTarget([call EXCEPT !.skipped = TRUE])
    /\ UNCHANGED <<client, events, reservation, charged, late, faults>>

(* A snapshot published while the call was routed may lack the connection: *)
(* Node ends the call, Python raises out of it.                            *)
UnknownConnection ==
    /\ call.at = "connect" /\ client.kind \in Sdk /\ Fault
    /\ call' = IF client.kind \in Node THEN GiveUp([call EXCEPT !.skipped = TRUE])
               ELSE [call EXCEPT !.at = "done", !.cut = TRUE]
    /\ UNCHANGED <<client, events, reservation, charged, late>>

Succeeds(units) ==
    /\ call.at = "attempt"
    /\ events' = Append(events, UsageEvent("success", TRUE, units))
    /\ call' = [call EXCEPT !.calls = @ + 1, !.skipped = FALSE, !.at = "report"]
    /\ UNCHANGED <<client, reservation, charged, late, faults>>

LastTry == call.target = call.targets /\ call.retry = MaxRetries

(* A failed attempt is final if it is not retried here and no target is    *)
(* left; a failure that cannot be retried also ends the other targets.     *)
Fails(retryable, units) ==
    /\ call.at = "attempt"
    /\ events' = Append(events, UsageEvent("failure", ~retryable \/ LastTry, units))
    /\ LET c == [call EXCEPT !.calls = @ + 1, !.index = @ + 1, !.skipped = FALSE]
       IN  call' = IF ~retryable THEN GiveUp(c)
                   ELSE IF c.retry < MaxRetries THEN [c EXCEPT !.retry = @ + 1]
                   ELSE NextTarget(c)
    /\ UNCHANGED <<client, reservation, charged, late, faults>>

(* A cancelled attempt is final: the reservation goes, the events stay.    *)
Cancelled(units) ==
    /\ events' = Append(events, UsageEvent("cancelled", TRUE, units))
    /\ call' = GiveUp([call EXCEPT !.skipped = FALSE,
                     !.calls = IF call.at = "attempt" THEN @ + 1 ELSE @])
    /\ UNCHANGED <<client, reservation, charged, faults>>

Chat == Succeeds(Measured) \/ \E retryable \in BOOLEAN : Fails(retryable, 0)

(* What a stream has given away cannot be taken back: a failure after the  *)
(* first part is never retried, and its event carries the usage so far.    *)
ChatStream == Succeeds(Measured) \/ (\E retryable \in BOOLEAN : Fails(retryable, 0))
              \/ Fails(FALSE, Partial)

NodeChat == Is("node") /\ Chat
SyncChat == Is("sync") /\ Chat
AsyncChat == Is("async") /\ Chat
NodeChatStream == Is("node_stream") /\ ChatStream
SyncChatStream == Is("sync_stream") /\ ChatStream
AsyncChatStream == Is("async_stream") /\ ChatStream

(* A consumer that stops reading a stream ends it.                         *)
NodeStreamReturn == /\ Is("node_stream") /\ call.at = "attempt"
                    /\ Cancelled(Partial) /\ UNCHANGED late
SyncStreamClose == /\ Is("sync_stream") /\ call.at = "attempt"
                   /\ Cancelled(Partial) /\ UNCHANGED late

(* A task is cancelled wherever it waits.  After a success that is while   *)
(* it flushes the report or settles, with the settlement perhaps sent, and *)
(* the same handler adds a second event for the attempt.                   *)
TaskCancelled(units) ==
    /\ call.at \in {"attempt", "flush", "settle"}
    /\ late' \in (IF call.at = "settle" THEN {"none", "settle"} ELSE {late})
    /\ Cancelled(units)

AsyncCancel == Is("async") /\ TaskCancelled(0)
AsyncStreamCancel == Is("async_stream") /\ TaskCancelled(Partial)

(* LiteLLM tries the candidates itself; every attempt goes to the spool.   *)
(* The event is final when it succeeded or was the last candidate's.       *)
Capture(status, stored) ==
    /\ Is("litellm") /\ call.at = "attempt"
    /\ IF stored THEN UNCHANGED faults ELSE Fault
    /\ LET last == status = "success" \/ call.target = call.targets
           event == [attempt |-> call.target - 1, status |-> status, final |-> last,
                     units |-> IF status = "success" THEN Measured ELSE 0,
                     in |-> IF stored THEN "spool" ELSE "lost"]
       IN  /\ events' = Append(events, event)
           /\ call' = [call EXCEPT !.calls = @ + 1,
                       !.target = IF last THEN @ ELSE @ + 1,
                       !.at = IF last THEN "done" ELSE "connect"]
    /\ UNCHANGED <<client, reservation, charged, late>>

-----------------------------------------------------------------------------
(* After the attempts.                                                     *)

(* The events go to the spool one by one, up to its capacity.              *)
Spooled(k) ==
    [i \in DOMAIN events |->
        IF events[i].in # "memory" THEN events[i]
        ELSE [events[i] EXCEPT !.in = IF i <= k THEN "spool" ELSE "lost"]]

Report(k) ==
    /\ call.at \in {"report", "report_failed"}
    /\ IF k < Len(events) THEN Fault ELSE UNCHANGED faults
    /\ events' = Spooled(k)
    /\ call' = [call EXCEPT !.at = IF @ = "report" THEN "flush" ELSE "done"]
    /\ UNCHANGED <<client, reservation, charged, late>>

(* The first delivery is tried at once; what it leaves stays in the spool. *)
Flush ==
    /\ call.at = "flush"
    /\ call' = [call EXCEPT !.at = IF call.token THEN "settle" ELSE "done"]
    /\ UNCHANGED <<client, events, reservation, charged, late, faults>>

Closed(status, amount) == [status |-> status, settled |-> amount]

(* Mutant of Transition: a settlement overwrites what was settled before.  *)
TransitionAgain(request) ==
    IF request = "settle" /\ reservation.status \in {"RESERVED", "SETTLED"}
    THEN Closed("SETTLED", Estimate)
    ELSE IF request = "release" /\ reservation.status = "RESERVED" THEN Closed("RELEASED", 0)
    ELSE reservation

(* The runtime API settles or releases an open reservation and answers any *)
(* other with a conflict.                                                  *)
Transition(request) ==
    IF reservation.status # "RESERVED" THEN reservation
    ELSE IF request = "settle" THEN Closed("SETTLED", Estimate)
    ELSE Closed("RELEASED", 0)

(* The client sends the request and goes on whatever the answer: it may    *)
(* have been applied, be applied later, or never arrive.                   *)
Requests(request, next) ==
    /\ call.at = request
    /\ call' = [call EXCEPT !.at = next]
    /\ \/ reservation' = Transition(request) /\ UNCHANGED <<late, faults>>
       \/ Fault /\ late' = request /\ UNCHANGED reservation
       \/ Fault /\ UNCHANGED <<late, reservation>>
    /\ UNCHANGED <<client, events, charged>>

SettleUserAiuReservation == Requests("settle", "done")
ReleaseUserAiuReservation == Requests("release", "report_failed")

(* A request the client gave up on is applied after all.                   *)
Arrives ==
    /\ late # "none" /\ late' = "none"
    /\ reservation' = Transition(late)
    /\ UNCHANGED <<client, call, events, charged, faults>>

(* The process dies, or a cancelled task is outside the handler: what is   *)
(* in memory is gone and nobody closes the reservation.                    *)
Crash ==
    /\ call.at # "done" /\ Fault
    /\ call' = [call EXCEPT !.at = "done", !.cut = TRUE]
    /\ events' = Spooled(0)
    /\ UNCHANGED <<client, reservation, charged, late>>

-----------------------------------------------------------------------------
(* The worker.                                                             *)

(* Mutant of Expire: the sweeper leaves a reservation whose call ended.    *)
ExpireRunning ==
    /\ reservation.status = "RESERVED" /\ call.at # "done"
    /\ reservation' = Closed("EXPIRED", 0)
    /\ UNCHANGED <<client, call, events, charged, late, faults>>

Expire ==
    /\ reservation.status = "RESERVED"
    /\ reservation' = Closed("EXPIRED", 0)
    /\ UNCHANGED <<client, call, events, charged, late, faults>>

(* An event without a reservation is consumed directly.  One with it       *)
(* settles the reservation, or corrects what was settled, to its own usage.*)
Commit(i) ==
    /\ i \in DOMAIN events /\ events[i].in = "spool"
    /\ IF call.token
       THEN /\ reservation.status \in {"RESERVED", "SETTLED"}
            /\ reservation' = Closed("SETTLED", events[i].units)
            /\ UNCHANGED charged
       ELSE charged' = charged + events[i].units /\ UNCHANGED reservation
    /\ events' = [events EXCEPT ![i].in = "committed"]
    /\ UNCHANGED <<client, call, late, faults>>

(* A released or expired reservation refuses its events: they are retried  *)
(* until their attempts are used up.                                       *)
DeadLetter(i) ==
    /\ i \in DOMAIN events /\ events[i].in = "spool"
    /\ call.token /\ reservation.status \in {"RELEASED", "EXPIRED"}
    /\ events' = [events EXCEPT ![i].in = "dead"]
    /\ UNCHANGED <<client, call, reservation, charged, late, faults>>

-----------------------------------------------------------------------------
Attempt == NodeChat \/ SyncChat \/ AsyncChat \/ NodeChatStream \/ SyncChatStream \/ AsyncChatStream

Interrupt == NodeStreamReturn \/ SyncStreamClose \/ AsyncCancel \/ AsyncStreamCancel

Begin == \E n \in 0..MaxTargets : ApplyToRequest(n) \/ RouteAndTargets(n) \/ NodeTargets(n)

Admit == NotRequired \/ \E reply \in Replies : ReserveUserAiu(reply) \/ ReserveQuota(reply)

Try == \/ Connect \/ CredentialMissing \/ UnknownConnection
       \/ Attempt \/ Interrupt
       \/ \E status \in {"success", "failure"}, stored \in BOOLEAN : Capture(status, stored)

Finish == \/ (\E k \in 0..Len(events) : Report(k))
          \/ Flush
          \/ SettleUserAiuReservation \/ ReleaseUserAiuReservation

Steps == Begin \/ Admit \/ Try \/ Finish

Worker == \E i \in 1..MaxEvents : Commit(i) \/ DeadLetter(i)

Over == call.at = "done" /\ UNCHANGED vars

Next == Steps \/ Crash \/ Arrives \/ Expire \/ Worker \/ Over

Spec == Init /\ [][Next]_vars

(* Every wait of a call has a timeout, the sweeper runs on a timer, and    *)
(* the worker takes every delivered event up again.                        *)
FairSpec == /\ Spec
            /\ WF_vars(Steps)
            /\ WF_vars(Expire)
            /\ \A i \in 1..MaxEvents : WF_vars(Commit(i) \/ DeadLetter(i))

-----------------------------------------------------------------------------
EventType == [attempt : 0..MaxEvents, status : {"success", "failure", "cancelled"},
              final : BOOLEAN, units : {0, Partial, Measured},
              in : {"memory", "spool", "lost", "committed", "dead"}]

TypeOK ==
    /\ client \in [kind : Kinds, failClosed : BOOLEAN, hardLimit : BOOLEAN]
    /\ call.at \in {"start", "reserve", "connect", "attempt", "report", "flush", "settle",
                    "release", "report_failed", "done"}
    /\ call.target \in 1..MaxTargets /\ call.retry \in 0..MaxRetries
    /\ Len(events) <= MaxEvents /\ \A i \in DOMAIN events : events[i] \in EventType
    /\ reservation.status \in {"NONE", "RESERVED", "SETTLED", "RELEASED", "EXPIRED"}
    /\ late \in {"none", "settle", "release"}

(* The one case in which an attempt has two events.                        *)
CancelledAfterSuccess ==
    \E i \in DOMAIN events : i > 1 /\ events[i].status = "cancelled"
                                   /\ events[i - 1].status = "success"

(* An SDK call that ran to its end made one event for each provider        *)
(* attempt, numbered in order, and exactly the last of them is the final   *)
(* attempt; there is no final one only if the last target was skipped for  *)
(* its credential or connection.                                           *)
OneFinalAttempt ==
    (call.at = "done" /\ ~call.cut /\ client.kind \in Sdk /\ ~CancelledAfterSuccess) =>
        /\ Len(events) = call.calls
        /\ \A i \in DOMAIN events :
              /\ events[i].attempt = i - 1
              /\ events[i].final => i = Len(events)
        /\ events # <<>> /\ ~call.skipped => events[Len(events)].final

(* A provider is called under a hard limit only when the control plane     *)
(* allowed it, or when the client was told to go on without an answer; the *)
(* connector stops at a denial in any case.                                *)
AdmittedBeforeCalled ==
    call.calls > 0 /\ client.hardLimit =>
        \/ call.decision = "allowed"
        \/ ~client.failClosed /\ (call.decision = "denied" => client.kind \in Sdk)

(* A call that reached no provider costs nothing: nothing is consumed, and *)
(* its reservation ends released or expired, never settled.                *)
NoAttemptNoCharge ==
    call.calls = 0 => charged = 0 /\ reservation.status # "SETTLED"

(* Once the worker committed an event of the reservation, what is settled  *)
(* is the usage of a committed event: the client's own settlement, with    *)
(* the estimate, never wins, however late it arrives.                      *)
MeasuredWins ==
    (\E i \in DOMAIN events : events[i].in = "committed") /\ call.token =>
        \E i \in DOMAIN events : /\ events[i].in = "committed"
                                 /\ reservation = Closed("SETTLED", events[i].units)

(* Every reservation is closed in the end, also after a crash, a lost      *)
(* reply and a lost release.                                               *)
ReservationCloses == (reservation.status = "RESERVED") ~> (reservation.status # "RESERVED")

(* In the end no event waits in the spool: each one that reached it is     *)
(* committed or dead-lettered, whatever the client did to the reservation. *)
EventsDecided == <>[](\A i \in DOMAIN events : events[i].in # "spool")

(* What a call must keep at every instant, whatever fails: its events tell *)
(* one final attempt, it was admitted before it was made, it costs nothing *)
(* unless a provider was called, and measured usage stands.                *)
CallInvariant == /\ TypeOK
                 /\ OneFinalAttempt /\ AdmittedBeforeCalled
                 /\ NoAttemptNoCharge /\ MeasuredWins

(* Nothing a call started stays open: neither its reservation nor an event *)
(* that reached the spool.                                                 *)
CallsEnd == ReservationCloses /\ EventsDecided

=============================================================================
