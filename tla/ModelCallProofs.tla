--------------------------- MODULE ModelCallProofs ---------------------------
(***************************************************************************)
(* Proof that a chat call keeps CallInvariant, for every number of targets *)
(* and retries, every amount and any number of faults.  The invariant      *)
(* speaks of a call that ended; the strengthening CallSound follows it     *)
(* from its start: how many events there are at each target and retry,     *)
(* that they are numbered, and that only the last may be final.            *)
(***************************************************************************)
EXTENDS ModelCall, TLAPS

Steady == {"start", "reserve", "connect", "attempt"}
Served == {"report", "flush", "settle"}
Failed == {"release", "report_failed"}

CallType ==
    [at : Steady \cup Served \cup Failed \cup {"done"}, targets : 0..MaxTargets,
     target : 1..MaxTargets, retry : 0..MaxRetries, index : Nat, calls : Nat, token : BOOLEAN,
     decision : {"none", "allowed", "denied", "unknown"}, skipped : BOOLEAN, cut : BOOLEAN]

CallTypeOK ==
    /\ client \in [kind : Kinds, failClosed : BOOLEAN, hardLimit : BOOLEAN]
    /\ call \in CallType
    /\ events \in Seq(EventType)
    /\ reservation \in [status : {"NONE", "RESERVED", "SETTLED", "RELEASED", "EXPIRED"}, settled : Nat]
    /\ charged \in Nat /\ faults \in Nat
    /\ late \in {"none", "settle", "release"}

(* The events a call can have made when it begins target t.                *)
Before(t) == (t - 1) * (MaxRetries + 1)

(* How far the call is, and the events it made on the way.                 *)
Progress ==
    /\ call.at \in {"start", "reserve"} =>
          events = <<>> /\ call.calls = 0 /\ call.target = 1 /\ call.retry = 0
    /\ call.at \notin {"start", "done"} => call.target <= call.targets
    /\ call.at \in Steady => Len(events) <= Before(call.target) + call.retry
    /\ call.at \in Served => Len(events) < MaxEvents
    /\ Len(events) <= MaxEvents
    /\ call.index <= Len(events)

Numbered == Len(events) = call.calls /\ \A i \in 1..Len(events) : events[i].attempt = i - 1

(* The events of a call that ended as the code ends it.                    *)
Whole ==
    /\ Numbered
    /\ \A i \in 1..Len(events) : events[i].final => i = Len(events)
    /\ Len(events) > 0 /\ ~call.skipped => events[Len(events)].final

(* The events of an SDK's call, at each of its steps.                      *)
Story ==
    client.kind \in Sdk =>
        /\ call.at \in Steady => /\ Numbered /\ call.index = call.calls
                                 /\ \A i \in 1..Len(events) : ~events[i].final
        /\ call.at \in Served => /\ Whole /\ Len(events) > 0
                                 /\ events[Len(events)].status = "success"
        /\ call.at \in Failed \cup {"done"} => call.cut \/ Whole \/ CancelledAfterSuccess

(* What allowed the call to go on.                                         *)
Admitted ==
    client.hardLimit => \/ call.decision = "allowed"
                        \/ ~client.failClosed /\ (call.decision = "denied" => client.kind \in Sdk)

(* A provider is called after the admission only, and what is consumed or  *)
(* settled, or will be by a request under way, comes after a provider.     *)
Cause ==
    /\ call.at \in {"connect", "attempt"} \/ call.calls > 0 => Admitted
    /\ call.at \in Served => call.calls > 0
    /\ call.calls = 0 => /\ events = <<>> /\ charged = 0
                         /\ reservation.status # "SETTLED" /\ late # "settle"

CallSound == CallTypeOK /\ Progress /\ Story /\ Cause /\ MeasuredWins

-----------------------------------------------------------------------------
(* Counting the events.                                                    *)

(* The tries of a call: a target begins where the one before it used up    *)
(* its retries, and the last one ends below MaxEvents.                     *)
LEMMA Tries ==
    /\ MaxEvents \in Nat /\ Before(1) = 0
    /\ \A t \in 1..MaxTargets :
          /\ Before(t) \in Nat /\ t <= MaxEvents
          /\ Before(t + 1) = Before(t) + MaxRetries + 1
          /\ Before(t) + MaxRetries + 1 < MaxEvents
<1> DEFINE k == MaxRetries + 1
<1>1. k \in Nat /\ k >= 1 /\ MaxTargets \in Nat BY CallAssumption
<1>2. \A a, b \in Nat : a * b \in Nat OBVIOUS
<1>3. ASSUME NEW t \in 1..MaxTargets
      PROVE  /\ (t - 1) * k \in Nat /\ t * k \in Nat /\ (MaxTargets - t) * k \in Nat
             /\ (t - 1) * k + k = t * k
             /\ t * k + (MaxTargets - t) * k = MaxTargets * k
             /\ t <= t * k
  <2>1. t - 1 \in Nat /\ t \in Nat /\ MaxTargets - t \in Nat /\ k - 1 \in Nat BY <1>1
  <2>2. (t - 1) * k \in Nat /\ t * k \in Nat /\ (MaxTargets - t) * k \in Nat /\ t * (k - 1) \in Nat
    BY <2>1, <1>1, <1>2
  <2>3. (t - 1) * k + k = t * k /\ t * k + (MaxTargets - t) * k = MaxTargets * k
        /\ t * k = t * (k - 1) + t
    BY <2>1, <1>1
  <2> QED BY <2>1, <2>2, <2>3, <1>1
<1>4. MaxTargets * k \in Nat /\ MaxEvents = MaxTargets * k + 1
  BY <1>1, <1>2 DEF MaxEvents
<1>5. Before(1) = 0 BY <1>1 DEF Before
<1>6. ASSUME NEW t \in 1..MaxTargets
      PROVE  /\ Before(t) = (t - 1) * k /\ Before(t + 1) = t * k
  BY <1>1 DEF Before
<1>7. k = MaxRetries + 1 /\ MaxRetries \in Nat BY CallAssumption
<1> HIDE DEF k
<1> QED BY <1>1, <1>3, <1>4, <1>5, <1>6, <1>7

LEMMA Appended ==
    ASSUME NEW S, NEW s \in Seq(S), NEW e \in S
    PROVE  /\ Append(s, e) \in Seq(S) /\ Len(s) \in Nat /\ Len(Append(s, e)) = Len(s) + 1
           /\ \A i \in 1..Len(s) : Append(s, e)[i] = s[i]
           /\ Append(s, e)[Len(s) + 1] = e
OBVIOUS

(* Two sequences of events that differ only in where the events are.       *)
Alike(e, f) ==
    /\ Len(f) = Len(e)
    /\ \A i \in 1..Len(e) : /\ f[i].attempt = e[i].attempt /\ f[i].status = e[i].status
                            /\ f[i].final = e[i].final /\ f[i].units = e[i].units

(* ... and the same ones are committed.                                    *)
CommittedStays(e, f) ==
    \A i \in 1..Len(e) : e[i].in = "committed" \/ f[i].in = "committed" => f[i] = e[i]

LEMMA MovedEvent ==
    ASSUME NEW e \in EventType, NEW place \in {"memory", "spool", "lost", "committed", "dead"}
    PROVE  [e EXCEPT !.in = place] \in EventType
BY DEF EventType

LEMMA SpooledAlike ==
    ASSUME CallTypeOK, NEW k \in Nat
    PROVE  Spooled(k) \in Seq(EventType) /\ Alike(events, Spooled(k)) /\ CommittedStays(events, Spooled(k))
<1>1. Spooled(k) \in [1..Len(events) -> EventType]
  <2>1. DOMAIN events = 1..Len(events) /\ \A i \in 1..Len(events) : events[i] \in EventType
    BY DEF CallTypeOK
  <2>2. ASSUME NEW i \in 1..Len(events)
        PROVE  [events[i] EXCEPT !.in = IF i <= k THEN "spool" ELSE "lost"] \in EventType
    BY <2>1, MovedEvent
  <2> QED BY <2>1, <2>2 DEF Spooled
<1>2. Spooled(k) \in Seq(EventType) /\ Len(Spooled(k)) = Len(events) BY <1>1 DEF CallTypeOK
<1> QED BY <1>2 DEF Spooled, EventType, CallTypeOK, Alike, CommittedStays

LEMMA MovedAlike ==
    ASSUME CallTypeOK, NEW i \in DOMAIN events, NEW place \in {"committed", "dead"}
    PROVE  LET f == [events EXCEPT ![i].in = place]
           IN  f \in Seq(EventType) /\ Alike(events, f) /\ f[i] = [events[i] EXCEPT !.in = place]
               /\ (events[i].in = "spool" /\ place = "dead" => CommittedStays(events, f))
<1> DEFINE f == [events EXCEPT ![i].in = place]
<1>1. DOMAIN events = 1..Len(events) /\ \A j \in 1..Len(events) : events[j] \in EventType
  BY DEF CallTypeOK
<1>2. [events[i] EXCEPT !.in = place] \in EventType BY <1>1, MovedEvent
<1>3. /\ f \in [1..Len(events) -> EventType]
      /\ \A j \in 1..Len(events) : f[j] = IF j = i THEN [events[i] EXCEPT !.in = place] ELSE events[j]
  BY <1>1, <1>2
<1>4. f \in Seq(EventType) /\ Len(f) = Len(events) BY <1>3 DEF CallTypeOK
<1> HIDE DEF f
<1>5. Alike(events, f) BY SMTT(30), <1>1, <1>3, <1>4 DEF Alike, EventType
<1>6. events[i].in = "spool" /\ place = "dead" => CommittedStays(events, f)
  BY <1>1, <1>3 DEF CommittedStays, EventType
<1> QED BY <1>1, <1>3, <1>4, <1>5, <1>6 DEF f

(* What the invariant asks follows from its strengthening.                 *)
LEMMA SoundIsEnough == CallSound => CallInvariant
<1> SUFFICES ASSUME CallSound PROVE CallInvariant OBVIOUS
<1>1. DOMAIN events = 1..Len(events) /\ Len(events) \in Nat BY DEF CallSound, CallTypeOK
<1>2. TypeOK
  BY <1>1 DEF CallSound, CallTypeOK, CallType, TypeOK, Progress, Steady, Served, Failed
<1>3. OneFinalAttempt
  <2>1. events # <<>> => Len(events) > 0 BY DEF CallSound, CallTypeOK
  <2> QED BY <1>1, <2>1 DEF CallSound, OneFinalAttempt, Story, Whole, Numbered
<1>4. AdmittedBeforeCalled /\ NoAttemptNoCharge
  BY DEF CallSound, Cause, Admitted, AdmittedBeforeCalled, NoAttemptNoCharge
<1> QED BY <1>2, <1>3, <1>4 DEF CallSound, CallInvariant

-----------------------------------------------------------------------------
(* What a step keeps.                                                      *)

LEMMA AlikeKeeps ==
    ASSUME CallTypeOK, events' \in Seq(EventType), Alike(events, events'),
           call'.calls = call.calls
    PROVE  /\ Len(events') = Len(events) /\ Len(events) \in Nat
           /\ (events = <<>> => events' = <<>>)
           /\ (Numbered => Numbered')
           /\ (Whole /\ call'.skipped = call.skipped => Whole')
           /\ (CancelledAfterSuccess => CancelledAfterSuccess')
<1>1. /\ Len(events') = Len(events) /\ Len(events) \in Nat
      /\ DOMAIN events = 1..Len(events) /\ DOMAIN events' = 1..Len(events')
  BY DEF CallTypeOK, Alike
<1>2. events = <<>> => events' = <<>> BY <1>1
<1>3. Numbered => Numbered' BY <1>1 DEF Numbered, Alike
<1>4. ASSUME Whole, call'.skipped = call.skipped PROVE Whole'
  <2>1. \A i \in 1..Len(events) : events'[i].final = events[i].final BY DEF Alike
  <2>2. Len(events) > 0 => events'[Len(events)].final = events[Len(events)].final BY <1>1, <2>1
  <2> QED BY <1>1, <1>3, <1>4, <2>1, <2>2 DEF Whole
<1>5. CancelledAfterSuccess => CancelledAfterSuccess' BY <1>1 DEF CancelledAfterSuccess, Alike
<1> QED BY <1>1, <1>2, <1>3, <1>4, <1>5

(* A committed event and a reservation that is not settled exclude each    *)
(* other, so a transition of an open reservation undoes nothing.           *)
LEMMA MeasuredKept ==
    ASSUME CallTypeOK, MeasuredWins, events' \in Seq(EventType), Alike(events, events'),
           CommittedStays(events, events'), call'.token = call.token,
           reservation' = reservation \/ reservation.status = "RESERVED"
    PROVE  MeasuredWins'
<1>1. DOMAIN events = 1..Len(events) /\ DOMAIN events' = 1..Len(events)
  BY DEF CallTypeOK, Alike
<1> QED BY <1>1 DEF MeasuredWins, CommittedStays, Closed

(* A new event is never committed yet.                                     *)
LEMMA MeasuredAppended ==
    ASSUME CallTypeOK, MeasuredWins, NEW e \in EventType, e.in # "committed",
           events' = Append(events, e), call'.token = call.token, reservation' = reservation
    PROVE  MeasuredWins'
<1>1. /\ Len(events) \in Nat
      /\ DOMAIN events = 1..Len(events) /\ DOMAIN events' = 1..(Len(events) + 1)
      /\ \A i \in 1..Len(events) : events'[i] = events[i]
      /\ events'[Len(events) + 1] = e
  BY Appended DEF CallTypeOK
<1> QED BY <1>1 DEF MeasuredWins, Closed

LEMMA CancelledAppended ==
    ASSUME CallTypeOK, NEW e \in EventType, events' = Append(events, e)
    PROVE  CancelledAfterSuccess => CancelledAfterSuccess'
<1>1. /\ Len(events) \in Nat
      /\ DOMAIN events = 1..Len(events) /\ DOMAIN events' = 1..(Len(events) + 1)
      /\ \A i \in 1..Len(events) : events'[i] = events[i]
  BY Appended DEF CallTypeOK
<1> QED BY <1>1 DEF CancelledAfterSuccess

-----------------------------------------------------------------------------
(* Before the call.                                                        *)

LEMMA InitSound == Init => CallSound
<1> SUFFICES ASSUME Init PROVE CallSound OBVIOUS
<1>1. CallTypeOK
  BY CallAssumption DEF Init, CallTypeOK, CallType, NewCall, Steady
<1>2. Len(events) = 0 BY DEF Init
<1>3. Progress BY Tries, <1>2 DEF Init, Progress, NewCall, Steady, Served
<1>4. Story BY <1>2 DEF Init, Story, NewCall, Numbered, Steady, Served, Failed
<1>5. Cause BY DEF Init, Cause, NewCall, Served
<1>6. MeasuredWins BY DEF Init, MeasuredWins, NewCall
<1> QED BY <1>1, <1>3, <1>4, <1>5, <1>6 DEF CallSound

LEMMA ChatTargetsSound ==
    ASSUME CallSound, NEW n \in 0..MaxTargets, ChatTargets(n)
    PROVE  CallSound'
<1> USE DEF CallSound, ChatTargets
<1>1. CallTypeOK' BY DEF CallTypeOK, CallType, Steady
<1>2. Len(events) = 0 /\ call.calls = 0 /\ events = <<>> BY DEF Progress
<1>3. Progress'
  <2>1. /\ events' = <<>> /\ Len(events') = 0 /\ call'.calls = 0 /\ call'.target = 1 /\ call'.retry = 0
        /\ call'.index = call.index /\ (call'.at = "reserve" => 1 <= call'.targets)
        /\ call'.at \in {"reserve", "done"}
    BY <1>2 DEF Progress, CallTypeOK, CallType
  <2> QED BY <1>2, <2>1, Tries DEF Progress, Steady, Served
<1>4. Story' BY <1>2 DEF Story, Whole, Numbered, Steady, Served, Failed, CallTypeOK, CallType
<1>5. Cause' BY <1>2 DEF Cause, Served, CallTypeOK, CallType
<1>6. MeasuredWins' BY <1>2 DEF MeasuredWins
<1> QED BY <1>1, <1>3, <1>4, <1>5, <1>6

LEMMA ReservedSound ==
    ASSUME CallSound, NEW reply \in Replies, NEW proceeds \in BOOLEAN,
           Reserved(reply, proceeds), proceeds => Admitted'
    PROVE  CallSound'
<1> USE DEF CallSound, Reserved
<1>1. CallTypeOK'
  <2>1. faults' \in Nat BY DEF CallTypeOK, Fault
  <2>2. Decision(reply) \in {"allowed", "denied", "unknown"} BY DEF Decision
  <2>3. call' \in CallType BY <2>2 DEF CallTypeOK, CallType, Steady
  <2> QED BY <2>1, <2>3 DEF CallTypeOK
<1>2. Len(events) = 0 /\ call.calls = 0 /\ events = <<>> BY DEF Progress
<1>3. Progress'
  BY <1>2, CallAssumption, Tries DEF Progress, CallTypeOK, CallType, Steady, Served
<1>4. Story' BY <1>2 DEF Story, Whole, Numbered, Steady, Served, Failed, CallTypeOK, CallType
<1>5. Cause' BY <1>2 DEF Cause, Served, CallTypeOK, CallType
<1>6. MeasuredWins' BY <1>2 DEF MeasuredWins
<1> QED BY <1>1, <1>3, <1>4, <1>5, <1>6

LEMMA NotRequiredSound == CallSound /\ NotRequired => CallSound'
<1> SUFFICES ASSUME CallSound, NotRequired PROVE CallSound' OBVIOUS
<1> USE DEF CallSound, NotRequired
<1>1. CallTypeOK' BY DEF CallTypeOK, CallType, Steady
<1>2. Len(events) = 0 /\ call.calls = 0 /\ events = <<>> BY DEF Progress
<1>3. Progress'
  BY <1>2, CallAssumption, Tries DEF Progress, CallTypeOK, CallType, Steady, Served
<1>4. Story' BY <1>2 DEF Story, Whole, Numbered, Steady, Served, Failed, CallTypeOK, CallType
<1>5. Cause' BY <1>2 DEF Cause, Served, CallTypeOK, CallType, Admitted
<1>6. MeasuredWins' BY <1>2 DEF MeasuredWins
<1> QED BY <1>1, <1>3, <1>4, <1>5, <1>6

LEMMA AdmitSound == CallSound /\ Admit => CallSound'
<1>1. ASSUME CallSound, NEW reply \in Replies, ReserveUserAiu(reply) PROVE CallSound'
  <2> DEFINE p == Decision(reply) = "allowed" \/ ~client.failClosed
  <2>1. p \in BOOLEAN /\ Reserved(reply, p) BY <1>1 DEF ReserveUserAiu
  <2>2. p => Admitted'
    BY <1>1 DEF ReserveUserAiu, Reserved, Admitted, CallSound, CallTypeOK, CallType
  <2> HIDE DEF p
  <2> QED BY <1>1, <2>1, <2>2, ReservedSound
<1>2. ASSUME CallSound, NEW reply \in Replies, ReserveQuota(reply) PROVE CallSound'
  <2> DEFINE p == \/ Decision(reply) = "allowed"
                  \/ Decision(reply) = "unknown" /\ ~client.failClosed
  <2>1. p \in BOOLEAN /\ Reserved(reply, p) BY <1>2 DEF ReserveQuota
  <2>2. p => Admitted'
    BY <1>2 DEF ReserveQuota, Reserved, Admitted, CallSound, CallTypeOK, CallType
  <2> HIDE DEF p
  <2> QED BY <1>2, <2>1, <2>2, ReservedSound
<1> QED BY <1>1, <1>2, NotRequiredSound DEF Admit

-----------------------------------------------------------------------------
(* Trying the targets.                                                     *)

(* The fields that leaving a target does not touch.                        *)
SameCount(c, d) ==
    /\ d.targets = c.targets /\ d.index = c.index /\ d.calls = c.calls /\ d.token = c.token
    /\ d.decision = c.decision /\ d.skipped = c.skipped /\ d.cut = c.cut

(* Where the loop over the targets goes from c.                            *)
LEMMA Going ==
    ASSUME NEW c \in CallType, c.target <= c.targets
    PROVE  /\ GiveUp(c) \in CallType /\ GiveUp(c).at \in Failed /\ SameCount(c, GiveUp(c))
           /\ GiveUp(c).target = c.target
           /\ NextTarget(c) \in CallType /\ SameCount(c, NextTarget(c))
           /\ \/ c.target = c.targets /\ NextTarget(c) = GiveUp(c)
              \/ /\ c.target < c.targets /\ NextTarget(c).at = "connect"
                 /\ NextTarget(c).target = c.target + 1 /\ NextTarget(c).retry = 0
<1>1. GiveUp(c) \in CallType /\ GiveUp(c).at \in Failed /\ SameCount(c, GiveUp(c)) /\ GiveUp(c).target = c.target
  BY DEF GiveUp, CallType, Failed, SameCount
<1>2. CASE c.target = c.targets BY <1>1, <1>2 DEF NextTarget
<1>3. CASE c.target # c.targets
  <2> DEFINE d == [c EXCEPT !.target = c.target + 1, !.retry = 0, !.at = "connect"]
  <2>1. /\ c.target \in 1..MaxTargets /\ c.targets \in 0..MaxTargets /\ 0 \in 0..MaxRetries
        /\ MaxTargets \in Nat
    BY CallAssumption DEF CallType
  <2>2. c.target < c.targets /\ c.target + 1 \in 1..MaxTargets BY <1>3, <2>1
  <2>3. /\ d \in CallType /\ d.at = "connect" /\ d.target = c.target + 1 /\ d.retry = 0
        /\ SameCount(c, d)
    BY <2>1, <2>2 DEF CallType, Steady, SameCount
  <2>4. NextTarget(c) = d BY <1>3 DEF NextTarget
  <2> HIDE DEF d
  <2> QED BY <1>1, <2>2, <2>3, <2>4
<1> QED BY <1>2, <1>3

(* A step that makes no event and ends or continues the loop.              *)
LEMMA ConnectSound == CallSound /\ Connect => CallSound'
<1> SUFFICES ASSUME CallSound, Connect PROVE CallSound' OBVIOUS
<1> USE DEF CallSound, Connect
<1>1. CallTypeOK' BY DEF CallTypeOK, CallType, Steady
<1>2. Progress' BY DEF Progress, CallTypeOK, CallType, Steady, Served
<1>3. Story' BY DEF Story, Numbered, Steady, Served, Failed, CallTypeOK, CallType
<1>4. Cause' BY DEF Cause, Admitted, Served, CallTypeOK, CallType
<1>5. MeasuredWins' BY DEF MeasuredWins, CallTypeOK, CallType
<1> QED BY <1>1, <1>2, <1>3, <1>4, <1>5

LEMMA SkipSound ==
    ASSUME CallSound, call.at = "connect", NEW c, c = [call EXCEPT !.skipped = TRUE],
           call' = GiveUp(c) \/ call' = NextTarget(c),
           UNCHANGED <<client, events, reservation, charged, late>>, faults' \in Nat
    PROVE  CallSound'
<1> USE DEF CallSound
<1>1. c \in CallType /\ call \in CallType BY DEF CallTypeOK, CallType
<1>2. c.target <= c.targets /\ c.target = call.target
  BY DEF CallTypeOK, CallType, Progress, Steady
<1>3. CallTypeOK' BY <1>1, <1>2, Going DEF CallTypeOK
<1>4. /\ call'.index = call.index /\ call'.calls = call.calls /\ call'.token = call.token
      /\ call'.decision = call.decision /\ call'.skipped = TRUE
      /\ \/ call'.at \in Failed /\ call'.target = call.target /\ call'.targets = call.targets
         \/ /\ call'.at = "connect" /\ call'.target = call.target + 1 /\ call'.retry = 0
            /\ call'.target <= call'.targets
  <2>1. /\ c.targets = call.targets /\ c.index = call.index /\ c.calls = call.calls /\ c.token = call.token
        /\ c.decision = call.decision /\ c.skipped = TRUE
    BY DEF CallTypeOK, CallType
  <2>2. CASE call' = GiveUp(c) BY <1>1, <1>2, <2>1, <2>2, Going DEF SameCount
  <2>3. CASE call' = NextTarget(c)
    <3>1. c.target \in Int /\ c.targets \in Int BY <1>1 DEF CallType
    <3>2. SameCount(c, call') BY <1>1, <1>2, <2>3, Going
    <3>3. \/ call' = GiveUp(c)
          \/ /\ c.target < c.targets /\ call'.at = "connect"
             /\ call'.target = c.target + 1 /\ call'.retry = 0
      BY <1>1, <1>2, <2>3, Going
    <3>4. CASE c.target < c.targets /\ call'.at = "connect" /\ call'.target = c.target + 1 /\ call'.retry = 0
      BY <1>2, <2>1, <3>1, <3>2, <3>4 DEF SameCount
    <3> QED BY <2>2, <3>3, <3>4
  <2> QED BY <2>2, <2>3
<1>5. Progress'
  <2>1. call.target \in 1..MaxTargets /\ Len(events) \in Nat BY DEF CallTypeOK, CallType
  <2>2. call'.at = "connect" => Len(events) <= Before(call'.target) + call'.retry
    <3>1. Len(events) <= Before(call.target) + call.retry /\ call.retry \in 0..MaxRetries
      BY DEF Progress, Steady, CallTypeOK, CallType
    <3>2. Before(call.target + 1) = Before(call.target) + MaxRetries + 1 /\ Before(call.target) \in Nat
      BY <2>1, Tries
    <3>3. CASE call'.at \in Failed BY Zenon, <3>3 DEF Failed
    <3>4. CASE call'.target = call.target + 1 /\ call'.retry = 0
      BY ONLY <2>1, <3>1, <3>2, <3>4, CallAssumption
    <3> QED BY Zenon, <1>4, <3>3, <3>4
  <2> QED BY <1>2, <1>4, <2>1, <2>2 DEF Progress, Steady, Served, Failed
<1>6. Story' BY <1>4 DEF Story, Whole, Numbered, Steady, Served, Failed
<1>7. Cause' BY <1>4 DEF Cause, Admitted, Served, Failed
<1>8. MeasuredWins' BY <1>4 DEF MeasuredWins
<1> QED BY <1>3, <1>5, <1>6, <1>7, <1>8

LEMMA CredentialMissingSound == CallSound /\ CredentialMissing => CallSound'
BY SkipSound DEF CredentialMissing, CallSound, CallTypeOK

(* A step after which the call is over, whatever became of its events.     *)
LEMMA CutSound ==
    ASSUME CallSound, call.at # "done", call' = [call EXCEPT !.at = "done", !.cut = TRUE],
           events' \in Seq(EventType), Alike(events, events'), CommittedStays(events, events'),
           UNCHANGED <<client, reservation, charged, late>>, faults' \in Nat
    PROVE  CallSound'
<1> USE DEF CallSound
<1>1. /\ CallTypeOK' /\ call'.at = "done" /\ call'.cut /\ call'.calls = call.calls
      /\ call'.index = call.index /\ call'.token = call.token /\ call'.decision = call.decision
  BY DEF CallTypeOK, CallType
<1>2. Len(events') = Len(events) /\ (events = <<>> => events' = <<>>) BY <1>1, AlikeKeeps
<1>3. Progress' BY <1>1, <1>2 DEF Progress, Steady, Served
<1>4. Story' BY <1>1 DEF Story, Steady, Served
<1>5. Cause' BY <1>1, <1>2 DEF Cause, Admitted, Served
<1>6. MeasuredWins' BY <1>1, MeasuredKept
<1> QED BY <1>1, <1>3, <1>4, <1>5, <1>6

LEMMA SameEventsAlike == Alike(events, events) /\ CommittedStays(events, events)
BY DEF Alike, CommittedStays

LEMMA UnknownConnectionSound == CallSound /\ UnknownConnection => CallSound'
<1> SUFFICES ASSUME CallSound, UnknownConnection PROVE CallSound' OBVIOUS
<1>1. faults' \in Nat BY DEF UnknownConnection, Fault, CallSound, CallTypeOK
<1>2. CASE client.kind \in Node BY <1>1, <1>2, SkipSound DEF UnknownConnection
<1>3. CASE client.kind \notin Node
  BY <1>1, <1>3, CutSound, SameEventsAlike DEF UnknownConnection, CallSound, CallTypeOK
<1> QED BY <1>2, <1>3

LEMMA CrashSound == CallSound /\ Crash => CallSound'
<1> SUFFICES ASSUME CallSound, Crash PROVE CallSound' OBVIOUS
<1>1. faults' \in Nat BY DEF Crash, Fault, CallSound, CallTypeOK
<1> QED BY <1>1, CutSound, SpooledAlike DEF Crash, CallSound

(* The event of an attempt, and the events with it.                        *)
LEMMA EventTyped ==
    ASSUME CallTypeOK, Progress, NEW status \in {"success", "failure", "cancelled"},
           NEW final \in BOOLEAN, NEW units \in {0, Partial, Measured}
    PROVE  /\ UsageEvent(status, final, units) \in EventType
           /\ UsageEvent(status, final, units).attempt = call.index
           /\ UsageEvent(status, final, units).status = status
           /\ UsageEvent(status, final, units).final = final
           /\ UsageEvent(status, final, units).in = "memory"
<1>1. call.index \in 0..MaxEvents
  BY Tries DEF CallTypeOK, CallType, Progress
<1> QED BY <1>1 DEF UsageEvent, EventType

LEMMA NumberedAppended ==
    ASSUME CallTypeOK, Numbered, call.index = call.calls, NEW e \in EventType, e.attempt = call.index,
           \A i \in 1..Len(events) : ~events[i].final,
           events' = Append(events, e), call'.calls = call.calls + 1
    PROVE  /\ Numbered' /\ Len(events') = Len(events) + 1 /\ Len(events') > 0
           /\ events'[Len(events')] = e
           /\ \A i \in 1..Len(events') : events'[i].final => i = Len(events')
           /\ ~e.final => \A i \in 1..Len(events') : ~events'[i].final
<1>1. /\ Len(events) \in Nat /\ Len(events') = Len(events) + 1
      /\ \A i \in 1..Len(events) : events'[i] = events[i]
      /\ events'[Len(events) + 1] = e
  BY Appended DEF CallTypeOK
<1>2. ASSUME NEW i \in 1..Len(events') PROVE i \in 1..Len(events) \/ i = Len(events) + 1
  BY <1>1
<1>3. \A i \in 1..Len(events') : events'[i].attempt = i - 1
  BY <1>1, <1>2 DEF Numbered, CallTypeOK, CallType
<1>4. Numbered' BY <1>1, <1>3 DEF Numbered, CallTypeOK, CallType
<1>5. \A i \in 1..Len(events') : events'[i].final => i = Len(events') BY <1>1, <1>2
<1>6. ~e.final => \A i \in 1..Len(events') : ~events'[i].final BY <1>1, <1>2
<1> QED BY <1>1, <1>4, <1>5, <1>6

(* An attempt adds one event: the count, and the causes.                   *)
LEMMA AttemptCounted ==
    ASSUME CallSound, call.at = "attempt", NEW e \in EventType, e.in # "committed",
           events' = Append(events, e), call' \in CallType, call'.calls = call.calls + 1,
           call'.token = call.token, call'.decision = call.decision,
           UNCHANGED <<client, reservation, charged>>, late' = late, faults' \in Nat
    PROVE  /\ CallTypeOK' /\ Cause' /\ MeasuredWins'
           /\ Len(events') = Len(events) + 1 /\ Len(events) \in Nat
           /\ Len(events') <= Before(call.target) + call.retry + 1
           /\ Len(events') < MaxEvents
<1> USE DEF CallSound
<1>1. events \in Seq(EventType) /\ call \in CallType BY DEF CallTypeOK
<1>2. events' \in Seq(EventType) /\ Len(events') = Len(events) + 1 /\ Len(events) \in Nat
  BY <1>1, Appended
<1>3. CallTypeOK' BY <1>2 DEF CallTypeOK
<1>4. call.calls \in Nat /\ call.target \in 1..MaxTargets /\ call.retry \in 0..MaxRetries
  BY <1>1 DEF CallType
<1>5. Cause' BY <1>4 DEF Cause, Admitted
<1>6. MeasuredWins' BY MeasuredAppended
<1>7. Len(events') <= Before(call.target) + call.retry + 1
  BY <1>2, <1>4, Tries DEF Progress, Steady
<1>8. Len(events') < MaxEvents
  <2>1. /\ Before(call.target) \in Nat /\ MaxEvents \in Nat /\ MaxRetries \in Nat
        /\ Before(call.target) + MaxRetries + 1 < MaxEvents
    BY <1>4, Tries, CallAssumption
  <2> QED BY <1>2, <1>4, <1>7, <2>1
<1> QED BY <1>2, <1>3, <1>5, <1>6, <1>7, <1>8

LEMMA CountedType ==
    ASSUME NEW c \in CallType
    PROVE  LET n == [c EXCEPT !.calls = c.calls + 1, !.index = c.index + 1, !.skipped = FALSE]
           IN  /\ n \in CallType /\ n.calls = c.calls + 1 /\ n.index = c.index + 1 /\ n.skipped = FALSE
               /\ n.token = c.token /\ n.decision = c.decision /\ n.target = c.target
               /\ n.targets = c.targets /\ n.retry = c.retry /\ n.at = c.at
<1>1. c.calls + 1 \in Nat /\ c.index + 1 \in Nat BY DEF CallType
<1> QED BY <1>1 DEF CallType

LEMMA SucceedsSound ==
    ASSUME CallSound, NEW units \in {0, Partial, Measured}, Succeeds(units)
    PROVE  CallSound'
<1> USE DEF CallSound
<1> DEFINE e == UsageEvent("success", TRUE, units)
<1>1. /\ e \in EventType /\ e.attempt = call.index /\ e.status = "success" /\ e.final
      /\ e.in # "committed"
  <2>1. CallTypeOK /\ Progress OBVIOUS
  <2> QED BY ONLY ZenonT(60), <2>1, units \in {0, Partial, Measured}, EventTyped
<1>2. call.at = "attempt" /\ events' = Append(events, e) /\ call \in CallType
  BY DEF Succeeds, CallTypeOK
<1> HIDE DEF e
<1>3. /\ call' \in CallType /\ call'.at = "report" /\ call'.calls = call.calls + 1
      /\ call'.token = call.token /\ call'.decision = call.decision /\ call'.index = call.index
      /\ call'.target = call.target /\ call'.targets = call.targets
  <2>1. call' = [call EXCEPT !.calls = call.calls + 1, !.skipped = FALSE, !.at = "report"]
    BY DEF Succeeds
  <2>2. call.calls + 1 \in Nat BY <1>2 DEF CallType
  <2> QED BY <1>2, <2>1, <2>2 DEF CallType, Served
<1>4. /\ CallTypeOK' /\ Cause' /\ MeasuredWins' /\ Len(events') = Len(events) + 1
      /\ Len(events) \in Nat /\ Len(events') < MaxEvents
  BY <1>1, <1>2, <1>3, AttemptCounted DEF Succeeds, CallTypeOK
<1>5. Progress'
  <2>1. call'.index <= Len(events') BY <1>2, <1>3, <1>4 DEF Progress, CallType
  <2>2. call'.target <= call'.targets BY <1>2, <1>3 DEF Progress
  <2> QED BY <1>3, <1>4, <2>1, <2>2, Tries DEF Progress, Steady, Served
<1>6. Story'
  <2>1. CASE client.kind \in Sdk
    <3>1. Numbered /\ call.index = call.calls /\ \A i \in 1..Len(events) : ~events[i].final
      BY <1>2, <2>1 DEF Story, Steady
    <3>2. /\ Numbered' /\ Len(events') > 0 /\ events'[Len(events')] = e
          /\ \A i \in 1..Len(events') : events'[i].final => i = Len(events')
      BY <1>1, <1>2, <1>3, <3>1, NumberedAppended
    <3> QED BY <1>1, <1>3, <3>2 DEF Story, Whole, Steady, Served, Failed
  <2>2. CASE client.kind \notin Sdk BY <2>2 DEF Story, Succeeds
  <2> QED BY <2>1, <2>2
<1> QED BY <1>4, <1>5, <1>6

LEMMA FailsSound ==
    ASSUME CallSound, NEW retryable \in BOOLEAN, NEW units \in {0, Partial, Measured},
           Fails(retryable, units)
    PROVE  CallSound'
<1> USE DEF CallSound
<1> DEFINE e == UsageEvent("failure", ~retryable \/ LastTry, units)
           c == [call EXCEPT !.calls = call.calls + 1, !.index = call.index + 1, !.skipped = FALSE]
<1>1. /\ e \in EventType /\ e.attempt = call.index /\ e.final = (~retryable \/ LastTry)
      /\ e.in # "committed"
  <2> DEFINE last == ~retryable \/ LastTry
  <2>1. last \in BOOLEAN OBVIOUS
  <2> HIDE DEF last
  <2>2. /\ UsageEvent("failure", last, units) \in EventType
        /\ UsageEvent("failure", last, units).attempt = call.index
        /\ UsageEvent("failure", last, units).final = last
        /\ UsageEvent("failure", last, units).in = "memory"
    BY <2>1, EventTyped
  <2> QED BY <2>2 DEF last
<1>2. call.at = "attempt" /\ events' = Append(events, e) /\ call \in CallType
  BY DEF Fails, CallTypeOK
<1>3. /\ c \in CallType /\ c.calls = call.calls + 1 /\ c.index = call.index + 1 /\ c.skipped = FALSE
      /\ c.token = call.token /\ c.decision = call.decision /\ c.target = call.target
      /\ c.targets = call.targets /\ c.retry = call.retry /\ c.target <= c.targets /\ c.at = "attempt"
  <2>1. call.target <= call.targets BY <1>2 DEF Progress
  <2> QED BY <1>2, <2>1, CountedType
<1>4. call' = IF ~retryable THEN GiveUp(c)
              ELSE IF c.retry < MaxRetries THEN [c EXCEPT !.retry = c.retry + 1]
              ELSE NextTarget(c)
  BY DEF Fails
<1>5. /\ call.target \in 1..MaxTargets /\ call.retry \in 0..MaxRetries /\ MaxRetries \in Nat
      /\ call.targets \in Int
  BY <1>2, CallAssumption DEF CallType
<1> HIDE DEF e, c
<1>6. /\ call' \in CallType /\ call'.calls = call.calls + 1 /\ call'.index = call.index + 1
      /\ call'.skipped = FALSE /\ call'.token = call.token /\ call'.decision = call.decision
      /\ call'.target <= call'.targets
      /\ \/ call'.at \in Failed /\ e.final
         \/ /\ call'.at = "attempt" /\ ~e.final
            /\ call'.target = call.target /\ call'.retry = call.retry + 1
         \/ /\ call'.at = "connect" /\ ~e.final /\ call.retry = MaxRetries
            /\ call'.target = call.target + 1 /\ call'.retry = 0
  <2>1. CASE ~retryable BY <1>1, <1>3, <1>4, <2>1, Going DEF SameCount
  <2>2. CASE retryable /\ c.retry < MaxRetries
    <3>0. call.retry # MaxRetries BY <1>3, <1>5, <2>2
    <3>1. ~e.final BY <1>1, <2>2, <3>0, Zenon DEF LastTry
    <3>2. call' = [c EXCEPT !.retry = c.retry + 1] /\ c.retry + 1 \in 0..MaxRetries
      BY <1>3, <1>4, <1>5, <2>2
    <3> QED BY <1>3, <3>1, <3>2 DEF CallType
  <2>3. CASE retryable /\ ~(c.retry < MaxRetries)
    <3>1. call' = NextTarget(c) /\ call.retry = MaxRetries BY <1>3, <1>4, <1>5, <2>3
    <3>2. e.final <=> c.target = c.targets BY <1>1, <1>3, <2>3, <3>1 DEF LastTry
    <3>3. call' \in CallType /\ SameCount(c, call') BY <1>3, <3>1, Going
    <3>4. CASE c.target = c.targets
      BY <1>3, <1>5, <3>1, <3>2, <3>3, <3>4, Going DEF SameCount
    <3>5. CASE c.target # c.targets
      <4>1. /\ c.target < c.targets /\ call'.at = "connect"
            /\ call'.target = c.target + 1 /\ call'.retry = 0
        BY <1>3, <3>1, <3>5, Going
      <4> QED BY <1>3, <1>5, <3>1, <3>2, <3>3, <3>5, <4>1 DEF SameCount
    <3> QED BY <3>4, <3>5
  <2> QED BY <2>1, <2>2, <2>3
<1>7. /\ CallTypeOK' /\ Cause' /\ MeasuredWins' /\ Len(events') = Len(events) + 1
      /\ Len(events) \in Nat /\ Len(events') < MaxEvents
      /\ Len(events') <= Before(call.target) + call.retry + 1
  BY <1>1, <1>2, <1>6, AttemptCounted DEF Fails, CallTypeOK
<1>8. Progress'
  <2>1. call'.index <= Len(events') BY <1>2, <1>6, <1>7 DEF Progress, CallType
  <2>2. call'.at \in Steady => Len(events') <= Before(call'.target) + call'.retry
    <3>1. /\ Before(call.target) \in Nat
          /\ Before(call.target + 1) = Before(call.target) + MaxRetries + 1
      BY <1>5, Tries
    <3>2. CASE call'.at \in Failed BY Zenon, <3>2 DEF Steady, Failed
    <3>3. CASE call'.target = call.target /\ call'.retry = call.retry + 1
      BY ONLY <1>5, <1>7, <3>1, <3>3
    <3>4. CASE call.retry = MaxRetries /\ call'.target = call.target + 1 /\ call'.retry = 0
      BY ONLY <1>5, <1>7, <3>1, <3>4
    <3> QED BY Zenon, <1>6, <3>2, <3>3, <3>4
  <2> QED BY <1>6, <1>7, <2>1, <2>2, Tries DEF Progress, Steady, Served, Failed
<1>9. Story'
  <2>1. CASE client.kind \in Sdk
    <3>1. Numbered /\ call.index = call.calls /\ \A i \in 1..Len(events) : ~events[i].final
      BY <1>2, <2>1 DEF Story, Steady
    <3>2. /\ Numbered' /\ Len(events') > 0 /\ events'[Len(events')] = e
          /\ \A i \in 1..Len(events') : events'[i].final => i = Len(events')
          /\ ~e.final => \A i \in 1..Len(events') : ~events'[i].final
      BY <1>1, <1>2, <1>6, <3>1, NumberedAppended
    <3>3. call'.index = call'.calls BY <1>6, <3>1
    <3> QED BY <1>6, <3>2, <3>3 DEF Story, Whole, Steady, Served, Failed
  <2>2. CASE client.kind \notin Sdk BY <2>2 DEF Story, Fails
  <2> QED BY <2>1, <2>2
<1> QED BY <1>7, <1>8, <1>9

(* A cancellation ends the call: as its last attempt, or, after a success, *)
(* as a second event of it.                                                *)
LEMMA CancelledSound ==
    ASSUME CallSound, NEW units \in {0, Partial, Measured}, Cancelled(units),
           client.kind \in Sdk,
           \/ call.at = "attempt" /\ late' = late
           \/ call.at \in {"flush", "settle"} /\ late' \in {"none", "settle", "release"}
    PROVE  CallSound'
<1> USE DEF CallSound
<1> DEFINE e == UsageEvent("cancelled", TRUE, units)
           n == IF call.at = "attempt" THEN call.calls + 1 ELSE call.calls
           c == [call EXCEPT !.skipped = FALSE, !.calls = n]
<1>1. /\ e \in EventType /\ e.attempt = call.index /\ e.status = "cancelled" /\ e.final
      /\ e.in # "committed"
  <2>1. CallTypeOK /\ Progress OBVIOUS
  <2> QED BY ONLY ZenonT(60), <2>1, units \in {0, Partial, Measured}, EventTyped
<1>2. /\ events' = Append(events, e) /\ call \in CallType /\ call' = GiveUp(c)
      /\ UNCHANGED <<client, reservation, charged, faults>>
  BY DEF Cancelled, CallTypeOK
<1>3. /\ c \in CallType /\ c.calls = n /\ c.skipped = FALSE /\ c.target <= c.targets
      /\ c.token = call.token /\ c.decision = call.decision /\ c.index = call.index
  <2>1. call.target <= call.targets BY DEF Progress
  <2>2. n \in Nat BY <1>2 DEF CallType
  <2> HIDE DEF n
  <2> QED BY <1>2, <2>1, <2>2 DEF CallType
<1>4. /\ call' \in CallType /\ call'.at \in Failed /\ call'.calls = n /\ call'.skipped = FALSE
      /\ call'.token = call.token /\ call'.decision = call.decision /\ call'.index = call.index
      /\ call'.target <= call'.targets
  <2> HIDE DEF n, c
  <2>1. call' \in CallType /\ call'.at \in Failed /\ SameCount(c, call') /\ call'.target = c.target
    BY <1>2, <1>3, Going
  <2> QED BY <1>3, <2>1 DEF SameCount
<1>5. CASE call.at = "attempt"
  <2>1. n = call.calls + 1 BY <1>5
  <2> HIDE DEF e, n, c
  <2>2. /\ CallTypeOK' /\ Cause' /\ MeasuredWins' /\ Len(events') = Len(events) + 1
        /\ Len(events) \in Nat /\ Len(events') < MaxEvents
    BY <1>1, <1>2, <1>4, <1>5, <2>1, AttemptCounted DEF CallTypeOK
  <2>3. Progress'
    <3>1. call'.index <= Len(events') BY <1>2, <1>4, <2>2 DEF Progress, CallType
    <3> QED BY <1>4, <2>2, <3>1, Tries DEF Progress, Steady, Served, Failed
  <2>4. Numbered /\ call.index = call.calls /\ \A i \in 1..Len(events) : ~events[i].final
    BY <1>5 DEF Story, Steady
  <2>5. /\ Numbered' /\ Len(events') > 0 /\ events'[Len(events')] = e
        /\ \A i \in 1..Len(events') : events'[i].final => i = Len(events')
    BY <1>1, <1>2, <1>4, <2>1, <2>4, NumberedAppended
  <2>6. Story' BY <1>1, <1>4, <2>5 DEF Story, Whole, Steady, Served, Failed
  <2> QED BY <2>2, <2>3, <2>6
<1>6. CASE call.at \in {"flush", "settle"}
  <2>1. n = call.calls BY <1>6
  <2>2. /\ Len(events) \in Nat /\ Len(events) > 0 /\ Len(events) < MaxEvents /\ call.calls > 0
        /\ events[Len(events)].status = "success"
    BY <1>6 DEF Story, Served, Progress, Cause, CallTypeOK
  <2> HIDE DEF e, n, c
  <2>3. /\ events' \in Seq(EventType) /\ Len(events') = Len(events) + 1
        /\ \A i \in 1..Len(events) : events'[i] = events[i]
        /\ events'[Len(events) + 1] = e
    BY <1>1, <1>2, Appended DEF CallTypeOK
  <2>4. CallTypeOK' BY <1>2, <1>4, <1>6, <2>3 DEF CallTypeOK
  <2>5. Progress'
    <3>1. call'.index <= Len(events') BY <1>2, <1>4, <2>2, <2>3 DEF Progress, CallType
    <3> QED BY <1>4, <2>2, <2>3, <3>1, Tries DEF Progress, Steady, Served, Failed
  <2>6. CancelledAfterSuccess'
    <3>1. /\ Len(events) + 1 \in DOMAIN events' /\ Len(events) + 1 > 1
          /\ events'[Len(events) + 1].status = "cancelled"
          /\ events'[(Len(events) + 1) - 1].status = "success"
      BY <1>1, <2>2, <2>3
    <3> QED BY <3>1 DEF CancelledAfterSuccess
  <2>7. Story' BY <1>4, <2>6 DEF Story, Steady, Served, Failed
  <2>8. Cause' BY <1>2, <1>4, <2>1, <2>2 DEF Cause, Admitted, Served, Failed
  <2>9. MeasuredWins' BY <1>1, <1>2, <1>4, MeasuredAppended
  <2> QED BY <2>4, <2>5, <2>7, <2>8, <2>9
<1> QED BY <1>5, <1>6

LEMMA CaptureSound ==
    ASSUME CallSound, NEW status \in {"success", "failure"}, NEW stored \in BOOLEAN,
           Capture(status, stored)
    PROVE  CallSound'
<1> USE DEF CallSound
<1> DEFINE last == status = "success" \/ call.target = call.targets
           e == [attempt |-> call.target - 1, status |-> status, final |-> last,
                 units |-> IF status = "success" THEN Measured ELSE 0,
                 in |-> IF stored THEN "spool" ELSE "lost"]
<1>1. call \in CallType /\ call.target \in 1..MaxTargets /\ call.targets \in 0..MaxTargets
      /\ MaxTargets \in Nat /\ call.calls \in Nat
  BY CallAssumption DEF CallTypeOK, CallType
<1>2. /\ client.kind = "litellm" /\ call.at = "attempt" /\ events' = Append(events, e)
      /\ UNCHANGED <<client, reservation, charged, late>>
      /\ call' = [call EXCEPT !.calls = call.calls + 1,
                       !.target = IF last THEN call.target ELSE call.target + 1,
                       !.at = IF last THEN "done" ELSE "connect"]
      /\ faults' \in Nat
  BY DEF Capture, Is, Fault, CallTypeOK
<1>3. e \in EventType /\ e.in # "committed"
  <2>1. call.target - 1 \in 0..MaxEvents BY <1>1, Tries
  <2>2. last \in BOOLEAN OBVIOUS
  <2> HIDE DEF last
  <2> QED BY <2>1, <2>2 DEF EventType
<1>4. call.target <= call.targets BY <1>2 DEF Progress
<1>5. /\ call' \in CallType /\ call'.calls = call.calls + 1 /\ call'.index = call.index
      /\ call'.token = call.token /\ call'.decision = call.decision
      /\ \/ call'.at = "done"
         \/ /\ call'.at = "connect" /\ call'.target = call.target + 1 /\ call'.retry = call.retry
            /\ call'.target <= call'.targets
  <2>0. call.calls + 1 \in Nat BY <1>1
  <2>1. CASE last
    <3>1. call' = [call EXCEPT !.calls = call.calls + 1, !.target = call.target, !.at = "done"]
      BY <1>2, <2>1
    <3> QED BY <1>1, <2>0, <3>1 DEF CallType
  <2>2. CASE ~last
    <3>1. call.target + 1 \in 1..MaxTargets /\ call.target + 1 <= call.targets BY <1>1, <1>4, <2>2
    <3>2. call' = [call EXCEPT !.calls = call.calls + 1, !.target = call.target + 1, !.at = "connect"]
      BY <1>2, <2>2
    <3> QED BY <1>1, <2>0, <3>1, <3>2 DEF CallType, Steady
  <2> QED BY <2>1, <2>2
<1> HIDE DEF e, last
<1>6. /\ CallTypeOK' /\ Cause' /\ MeasuredWins' /\ Len(events') = Len(events) + 1
      /\ Len(events) \in Nat /\ Len(events') < MaxEvents
      /\ Len(events') <= Before(call.target) + call.retry + 1
  BY <1>2, <1>3, <1>5, AttemptCounted
<1>7. Progress'
  <2>1. call'.index <= Len(events') BY <1>1, <1>5, <1>6 DEF Progress, CallType
  <2>2. call'.at = "connect" => Len(events') <= Before(call'.target) + call'.retry
    <3>1. /\ Before(call.target) \in Nat /\ MaxRetries \in Nat /\ call.retry \in 0..MaxRetries
          /\ Before(call.target + 1) = Before(call.target) + MaxRetries + 1
      BY <1>1, Tries, CallAssumption DEF CallType
    <3> QED BY <1>5, <1>6, <3>1
  <2> QED BY <1>5, <1>6, <2>1, <2>2, Tries DEF Progress, Steady, Served
<1>8. Story' BY <1>2 DEF Story, Sdk, Node, Python, Async
<1> QED BY <1>6, <1>7, <1>8

-----------------------------------------------------------------------------
(* After the attempts.                                                     *)

ReservationType == [status : {"NONE", "RESERVED", "SETTLED", "RELEASED", "EXPIRED"}, settled : Nat]

(* A step that makes no event and does not go back.                        *)
LEMMA QuietSound ==
    ASSUME CallSound, NEW next, call' = [call EXCEPT !.at = next],
           \/ next = call.at
           \/ call.at \in Served /\ next \in Served \cup {"done"}
           \/ call.at \in Failed /\ next \in Failed \cup {"done"},
           client' = client, events' \in Seq(EventType), Alike(events, events'),
           reservation' \in ReservationType, charged' \in Nat, faults' \in Nat,
           late' \in {"none", "settle", "release"}, MeasuredWins',
           call.calls = 0 => charged' = 0 /\ reservation'.status # "SETTLED" /\ late' # "settle"
    PROVE  CallSound'
<1> USE DEF CallSound
<1>1. call \in CallType BY DEF CallTypeOK
<1>2. /\ call' \in CallType /\ call'.at = next /\ call'.calls = call.calls /\ call'.index = call.index
      /\ call'.target = call.target /\ call'.targets = call.targets /\ call'.retry = call.retry
      /\ call'.token = call.token /\ call'.decision = call.decision
      /\ call'.skipped = call.skipped /\ call'.cut = call.cut
  BY <1>1 DEF CallType, Served, Failed, Steady
<1>3. CallTypeOK' BY <1>2 DEF CallTypeOK, ReservationType
<1>4. /\ Len(events') = Len(events) /\ Len(events) \in Nat /\ (events = <<>> => events' = <<>>)
      /\ (Numbered => Numbered') /\ (Whole => Whole')
      /\ (CancelledAfterSuccess => CancelledAfterSuccess')
  BY <1>2, AlikeKeeps
<1>5. Progress' BY <1>2, <1>4 DEF Progress, Steady, Served, Failed
<1>6. Story'
  <2>1. CASE client.kind \in Sdk
    <3>1. /\ \A i \in 1..Len(events) : events'[i].final = events[i].final
          /\ Len(events) > 0 => events'[Len(events)].status = events[Len(events)].status
      BY <1>4 DEF Alike
    <3>2. call'.at \in Steady => /\ Numbered' /\ call'.index = call'.calls
                                 /\ \A i \in 1..Len(events') : ~events'[i].final
      BY <1>2, <1>4, <2>1, <3>1 DEF Story, Steady, Served, Failed
    <3>3. call'.at \in Served => /\ Whole' /\ Len(events') > 0
                                 /\ events'[Len(events')].status = "success"
      BY <1>2, <1>4, <2>1, <3>1 DEF Story, Steady, Served, Failed
    <3>4. call'.at \in Failed \cup {"done"} => call'.cut \/ Whole' \/ CancelledAfterSuccess'
      BY <1>2, <1>4, <2>1 DEF Story, Steady, Served, Failed
    <3> QED BY <3>2, <3>3, <3>4 DEF Story
  <2>2. CASE client.kind \notin Sdk BY <2>2 DEF Story
  <2> QED BY <2>1, <2>2
<1>7. Cause' BY <1>2, <1>4 DEF Cause, Admitted, Served, Failed
<1> QED BY <1>3, <1>5, <1>6, <1>7

LEMMA TypesOfSound ==
    CallSound => /\ call \in CallType /\ events \in Seq(EventType) /\ reservation \in ReservationType
                 /\ charged \in Nat /\ faults \in Nat /\ late \in {"none", "settle", "release"}
                 /\ (call.calls = 0 => charged = 0 /\ reservation.status # "SETTLED" /\ late # "settle")
BY DEF CallSound, CallTypeOK, ReservationType, Cause

LEMMA ReportSound ==
    ASSUME CallSound, NEW k \in 0..Len(events), Report(k)
    PROVE  CallSound'
<1> DEFINE next == IF call.at = "report" THEN "flush" ELSE "done"
<1>1. /\ events' \in Seq(EventType) /\ Alike(events, events') /\ CommittedStays(events, events')
  <2>1. k \in Nat BY TypesOfSound
  <2> QED BY <2>1, SpooledAlike DEF Report, CallSound
<1>2. faults' \in Nat BY TypesOfSound DEF Report, Fault
<1>3. /\ call' = [call EXCEPT !.at = next] /\ UNCHANGED <<client, reservation, charged, late>>
      /\ \/ call.at \in Served /\ next \in Served \cup {"done"}
         \/ call.at \in Failed /\ next \in Failed \cup {"done"}
  BY TypesOfSound DEF Report, CallType, Served, Failed
<1> HIDE DEF next
<1>4. call'.token = call.token BY <1>3, TypesOfSound DEF CallType
<1>5. MeasuredWins' BY <1>1, <1>3, <1>4, MeasuredKept DEF CallSound
<1> QED BY <1>1, <1>2, <1>3, <1>5, TypesOfSound, QuietSound

LEMMA FlushSound == CallSound /\ Flush => CallSound'
<1> SUFFICES ASSUME CallSound, Flush PROVE CallSound' OBVIOUS
<1> DEFINE next == IF call.token THEN "settle" ELSE "done"
<1>1. /\ call' = [call EXCEPT !.at = next]
      /\ UNCHANGED <<client, events, reservation, charged, late, faults>>
      /\ call.at \in Served /\ next \in Served \cup {"done"}
  BY DEF Flush, Served
<1> HIDE DEF next
<1>2. call'.token = call.token BY <1>1, TypesOfSound DEF CallType
<1>3. MeasuredWins' BY <1>1, <1>2 DEF MeasuredWins, CallSound
<1>4. events' \in Seq(EventType) /\ Alike(events, events') BY <1>1, TypesOfSound, SameEventsAlike
<1> QED BY <1>1, <1>3, <1>4, TypesOfSound, QuietSound

(* A transition closes an open reservation or does nothing.                *)
LEMMA TransitionTyped ==
    ASSUME CallSound, NEW request \in {"settle", "release"}
    PROVE  /\ Transition(request) \in ReservationType
           /\ Transition(request) = reservation \/ reservation.status = "RESERVED"
           /\ Transition(request).status = "SETTLED" => reservation.status = "SETTLED" \/ request = "settle"
BY TypesOfSound, CallAssumption DEF Transition, Closed, ReservationType

LEMMA RequestsSound ==
    ASSUME CallSound, NEW request, NEW next, Requests(request, next),
           \/ request = "settle" /\ next = "done"
           \/ request = "release" /\ next = "report_failed"
    PROVE  CallSound'
<1>1. /\ call' = [call EXCEPT !.at = next] /\ call.at = request
      /\ UNCHANGED <<client, events, charged>>
      /\ \/ call.at \in Served /\ next \in Served \cup {"done"}
         \/ call.at \in Failed /\ next \in Failed \cup {"done"}
  BY DEF Requests, Served, Failed
<1>2. faults' \in Nat /\ late' \in {"none", "settle", "release"} /\ (late' = late \/ late' = request)
  BY TypesOfSound DEF Requests, Fault
<1>3. /\ reservation' \in ReservationType /\ (reservation' = reservation \/ reservation.status = "RESERVED")
      /\ reservation'.status = "SETTLED" => reservation.status = "SETTLED" \/ request = "settle"
  BY TypesOfSound, TransitionTyped DEF Requests
<1>4. request = "settle" => call.calls > 0 BY <1>1 DEF CallSound, Cause, Served
<1>5. call.calls = 0 => charged' = 0 /\ reservation'.status # "SETTLED" /\ late' # "settle"
  BY <1>1, <1>2, <1>3, <1>4, TypesOfSound
<1>6. events' \in Seq(EventType) /\ Alike(events, events') /\ CommittedStays(events, events')
  BY <1>1, TypesOfSound, SameEventsAlike
<1>7. call'.token = call.token BY <1>1, TypesOfSound DEF CallType
<1>8. MeasuredWins' BY <1>3, <1>6, <1>7, MeasuredKept DEF CallSound
<1> QED BY <1>1, <1>2, <1>3, <1>5, <1>6, <1>8, TypesOfSound, QuietSound

(* A step of the worker or of a request under way: the call stands still.  *)
LEMMA StandingSound ==
    ASSUME CallSound, UNCHANGED <<client, call, faults>>,
           events' \in Seq(EventType), Alike(events, events'),
           reservation' \in ReservationType, charged' \in Nat,
           late' \in {"none", late}, MeasuredWins',
           call.calls = 0 => charged' = 0 /\ reservation'.status # "SETTLED"
    PROVE  CallSound'
<1>1. call' = [call EXCEPT !.at = call.at] BY TypesOfSound DEF CallType
<1> QED BY <1>1, TypesOfSound, QuietSound

LEMMA ArrivesSound == CallSound /\ Arrives => CallSound'
<1> SUFFICES ASSUME CallSound, Arrives PROVE CallSound' OBVIOUS
<1>1. late \in {"settle", "release"} /\ late' = "none" /\ UNCHANGED <<client, call, events, charged, faults>>
  BY TypesOfSound DEF Arrives
<1>2. /\ reservation' \in ReservationType /\ (reservation' = reservation \/ reservation.status = "RESERVED")
      /\ reservation'.status = "SETTLED" => reservation.status = "SETTLED" \/ late = "settle"
  BY <1>1, TransitionTyped DEF Arrives
<1>3. events' \in Seq(EventType) /\ Alike(events, events') /\ CommittedStays(events, events')
  BY <1>1, TypesOfSound, SameEventsAlike
<1>4. MeasuredWins' BY <1>1, <1>2, <1>3, MeasuredKept DEF CallSound
<1>5. call.calls = 0 => charged' = 0 /\ reservation'.status # "SETTLED" BY <1>1, <1>2, TypesOfSound
<1> QED BY <1>1, <1>2, <1>3, <1>4, <1>5, TypesOfSound, StandingSound

LEMMA ExpireSound == CallSound /\ Expire => CallSound'
<1> SUFFICES ASSUME CallSound, Expire PROVE CallSound' OBVIOUS
<1>1. /\ UNCHANGED <<client, call, events, charged, late, faults>> /\ reservation.status = "RESERVED"
      /\ reservation' \in ReservationType /\ reservation'.status # "SETTLED"
  BY DEF Expire, Closed, ReservationType
<1>2. events' \in Seq(EventType) /\ Alike(events, events') /\ CommittedStays(events, events')
  BY <1>1, TypesOfSound, SameEventsAlike
<1>3. MeasuredWins' BY <1>1, <1>2, MeasuredKept DEF CallSound
<1> QED BY <1>1, <1>2, <1>3, TypesOfSound, StandingSound

-----------------------------------------------------------------------------
(* The worker.                                                             *)

LEMMA CommitSound ==
    ASSUME CallSound, NEW i, Commit(i)
    PROVE  CallSound'
<1>1. i \in DOMAIN events /\ events' = [events EXCEPT ![i].in = "committed"]
      /\ UNCHANGED <<client, call, late, faults>>
  BY DEF Commit
<1>2. /\ events' \in Seq(EventType) /\ Alike(events, events')
      /\ events'[i] = [events[i] EXCEPT !.in = "committed"]
  BY <1>1, MovedAlike DEF CallSound
<1>3. events[i] \in EventType /\ i \in DOMAIN events' /\ events[i].units \in Nat
  <2>1. events[i] \in EventType /\ i \in DOMAIN events' BY <1>1, <1>2, TypesOfSound DEF Alike
  <2> QED BY <2>1, CallAssumption DEF EventType
<1>4. events'[i].in = "committed" /\ events'[i].units = events[i].units
  BY <1>2, <1>3 DEF EventType
<1>5. call.calls # 0
  <2>1. events # <<>> BY <1>1
  <2> QED BY <2>1 DEF CallSound, Cause
<1>6. reservation' \in ReservationType /\ charged' \in Nat
  BY <1>3, TypesOfSound DEF Commit, Closed, ReservationType
<1>7. MeasuredWins'
  <2>1. CASE call.token
    <3>1. reservation' = Closed("SETTLED", events'[i].units) BY <1>4, <2>1 DEF Commit
    <3> QED BY <1>3, <1>4, <3>1 DEF MeasuredWins, Closed
  <2>2. CASE ~call.token BY <1>1, <2>2 DEF MeasuredWins
  <2> QED BY <2>1, <2>2
<1> QED BY <1>1, <1>2, <1>5, <1>6, <1>7, TypesOfSound, StandingSound

LEMMA DeadLetterSound ==
    ASSUME CallSound, NEW i, DeadLetter(i)
    PROVE  CallSound'
<1>1. /\ i \in DOMAIN events /\ events' = [events EXCEPT ![i].in = "dead"] /\ events[i].in = "spool"
      /\ UNCHANGED <<client, call, reservation, charged, late, faults>>
  BY DEF DeadLetter
<1>2. events' \in Seq(EventType) /\ Alike(events, events') /\ CommittedStays(events, events')
  BY <1>1, MovedAlike DEF CallSound
<1>3. MeasuredWins' BY <1>1, <1>2, MeasuredKept DEF CallSound
<1> QED BY <1>1, <1>2, <1>3, TypesOfSound, StandingSound

-----------------------------------------------------------------------------
LEMMA TrySound == CallSound /\ Try => CallSound'
<1>1. ASSUME CallSound, Chat \/ ChatStream PROVE CallSound'
  BY <1>1, SucceedsSound, FailsSound DEF Chat, ChatStream
<1>2. CallSound /\ Attempt => CallSound'
  BY <1>1 DEF Attempt, NodeChat, SyncChat, AsyncChat, NodeChatStream, SyncChatStream, AsyncChatStream
<1>3. ASSUME CallSound, Interrupt PROVE CallSound'
  <2>1. client.kind \in Sdk
    BY <1>3 DEF Interrupt, NodeStreamReturn, SyncStreamClose, AsyncCancel, AsyncStreamCancel, Is, Sdk,
                Node, Python, Async
  <2>2. PICK units \in {0, Partial} :
          /\ Cancelled(units)
          /\ \/ call.at = "attempt" /\ late' = late
             \/ call.at \in {"flush", "settle"} /\ late' \in {"none", "settle", "release"}
    BY <1>3, TypesOfSound
    DEF Interrupt, NodeStreamReturn, SyncStreamClose, AsyncCancel, AsyncStreamCancel, TaskCancelled
  <2> QED BY <1>3, <2>1, <2>2, CancelledSound
<1> QED BY <1>2, <1>3, ConnectSound, CredentialMissingSound, UnknownConnectionSound, CaptureSound DEF Try

LEMMA StepSound == CallSound /\ [Next]_vars => CallSound'
<1> SUFFICES ASSUME CallSound, [Next]_vars PROVE CallSound' OBVIOUS
<1>1. CASE Begin
  BY <1>1, ChatTargetsSound DEF Begin, ApplyToRequest, RouteAndTargets, NodeTargets
<1>2. CASE Finish
  <2>1. CASE SettleUserAiuReservation \/ ReleaseUserAiuReservation
    BY <2>1, RequestsSound DEF SettleUserAiuReservation, ReleaseUserAiuReservation
  <2> QED BY <1>2, <2>1, ReportSound, FlushSound DEF Finish
<1>3. CASE Worker BY <1>3, CommitSound, DeadLetterSound DEF Worker
<1>4. CASE UNCHANGED vars
  <2>1. CallTypeOK' /\ Progress' BY <1>4 DEF vars, CallSound, CallTypeOK, Progress
  <2>2. Story' BY <1>4 DEF vars, CallSound, Story, Whole, Numbered, CancelledAfterSuccess
  <2>3. Cause' /\ MeasuredWins' BY <1>4 DEF vars, CallSound, Cause, Admitted, MeasuredWins
  <2> QED BY Zenon, <2>1, <2>2, <2>3 DEF CallSound
<1>5. CASE Over BY <1>4, <1>5 DEF Over
<1> QED BY <1>1, <1>2, <1>3, <1>4, <1>5, AdmitSound, TrySound, CrashSound, ArrivesSound, ExpireSound
        DEF Next, Steps

(* A chat call keeps its promises at every instant, for every client, any  *)
(* number of targets and retries and any faults: its usage events number   *)
(* the provider attempts and mark one as final, a hard limit was asked     *)
(* first, a call that reached no provider costs nothing, and measured      *)
(* usage is never overwritten by the client's own settlement.              *)
THEOREM CallIsSound == Spec => []CallInvariant
BY InitSound, StepSound, SoundIsEnough, PTL DEF Spec
=============================================================================
