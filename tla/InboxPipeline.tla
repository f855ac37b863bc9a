---------------------------- MODULE InboxPipeline ----------------------------
(***************************************************************************)
(* The leased usage pipeline of the worker: ingestion_inbox rows are leased *)
(* in batches, taken stage by stage through fenced checkpoints, committed  *)
(* once with their outbox rows, completed, retried or dead-lettered, and   *)
(* replayed by the dead-letter console and by reconciliation.              *)
(*                                                                         *)
(* One action is one database transaction.  Between two transactions a     *)
(* worker may crash, its lease may run out, or an operator may requeue the *)
(* row.  A transaction's reply may be lost after it committed.             *)
(*                                                                         *)
(* Time is abstracted to what the statements compare: whether a row is due *)
(* (available_at, next_retry_at), whether its lease ran out, and whether   *)
(* its payload's retention ended.                                          *)
(***************************************************************************)
EXTENDS Integers, FiniteSets

CONSTANTS
    Events,       \* inbox rows, one per application and event id
    EventId,      \* the event id of a row; unique within an application only
    Lane,         \* the application user whose lane processes a row
    Workers,
    Tokens,       \* lease tokens: UUIDs, so a new lease takes one no job holds
    None,
    Prices,       \* amounts a rating may come to
    AiuEnabled,   \* the instance's aiu feature flag
    BatchSize,
    MaxAttempts,
    MaxFailures,  \* bound: failing handlers, statements and lost replies
    MaxReplays    \* bound: operator replays

ReplayTypes == {"rerun_provider_cost", "rerun_aiu_observe"}

ASSUME PipelineAssumption ==
    /\ None \notin Tokens /\ None \notin Prices /\ None \notin ReplayTypes
    /\ AiuEnabled \in BOOLEAN
    /\ MaxAttempts \in Nat \ {0} /\ BatchSize \in Nat \ {0}
    /\ MaxFailures \in Nat /\ MaxReplays \in Nat
    /\ Cardinality(Tokens) >= Cardinality(Workers) * BatchSize

VARIABLES
    inbox,      \* ingestion_inbox
    registry,   \* usage_event_registry: processing_stage, clickhouse_raw_synced_at
    dead,       \* dead_letter_events of a row, counted by status
    official,   \* what commitOfficial made durable for a row
    job,        \* the leases in the workers' memory, by token
    failures,   \* failures so far
    replays     \* operator replays so far

vars == <<inbox, registry, dead, official, job, failures, replays>>

(* PIPELINE_STAGES, by rank.                                               *)
received == 0
normalized == 1
model_resolved == 2
provider_cost_rated == 3
aiu_rated == 4
quota_settled == 5
official_committed == 6
outbox_created == 7
completed == 8
dead_letter == 9

Stages == received..dead_letter

InboxType == [status : {"absent", "pending", "leased", "failed", "completed", "dead_letter"},
              stage : Stages, attempts : 0..MaxAttempts, due : BOOLEAN,
              owner : Tokens \cup {None}, expired : BOOLEAN, payload : BOOLEAN,
              purgeDue : BOOLEAN, intent : ReplayTypes \cup {None}]

JobType == [mode : {"idle", "waiting", "run", "retry", "bury"}, worker : Workers \cup {None},
            event : Events \cup {None}, stage : Stages, attempts : 0..MaxAttempts,
            intent : ReplayTypes \cup {None}]

RegistryType == [stage : Stages, rawSynced : BOOLEAN]
DeadType == [open : Nat, queued : Nat]
OfficialType == [projected : BOOLEAN, rating : Prices \cup {None}, published : Prices \cup {None}]

TypeOK ==
    /\ inbox \in [Events -> InboxType]
    /\ registry \in [Events -> RegistryType]
    /\ dead \in [Events -> DeadType]
    /\ official \in [Events -> OfficialType]
    /\ job \in [Tokens -> JobType]
    /\ \A t \in Tokens : job[t].mode # "idle" => job[t].event \in Events
    /\ failures \in 0..MaxFailures
    /\ replays \in 0..MaxReplays

NoJob == [mode |-> "idle", worker |-> None, event |-> None, stage |-> received,
          attempts |-> 0, intent |-> None]

NoRow == [status |-> "absent", stage |-> received, attempts |-> 0, due |-> FALSE,
          owner |-> None, expired |-> FALSE, payload |-> FALSE, purgeDue |-> FALSE,
          intent |-> None]

Init ==
    /\ inbox = [e \in Events |-> NoRow]
    /\ registry = [e \in Events |-> [stage |-> received, rawSynced |-> FALSE]]
    /\ dead = [e \in Events |-> [open |-> 0, queued |-> 0]]
    /\ official = [e \in Events |-> [projected |-> FALSE, rating |-> None, published |-> None]]
    /\ job = [t \in Tokens |-> NoJob]
    /\ failures = 0
    /\ replays = 0

-----------------------------------------------------------------------------
(* Ingestion writes the registry and inbox rows of a new event; a repeated *)
(* event id writes nothing.                                                *)
AcceptedRow == [status |-> "pending", stage |-> received, attempts |-> 0, due |-> TRUE,
                owner |-> None, expired |-> FALSE, payload |-> TRUE, purgeDue |-> FALSE,
                intent |-> None]

Accept(e) ==
    /\ inbox[e].status = "absent"
    /\ inbox' = [inbox EXCEPT ![e] = AcceptedRow]
    /\ UNCHANGED <<registry, dead, official, job, failures, replays>>

(* Mutant of Candidate: a lease that ran out is never taken over.          *)
CandidateUnleased(row) ==
    /\ row.status \in {"pending", "failed"} /\ row.due
    /\ row.stage \notin {completed, dead_letter}

(* Rows that leaseInbox may take.                                          *)
Candidate(row) ==
    /\ \/ row.status \in {"pending", "failed"} /\ row.due
       \/ row.status = "leased" /\ row.expired
    /\ row.stage \notin {completed, dead_letter}

Idle(w) == \A t \in Tokens : job[t].worker # w

Unused(t) == job[t].mode = "idle"

NextAttempt(n) == IF n < MaxAttempts THEN n + 1 ELSE n

LeasedRow(row, t) ==
    [row EXCEPT !.status = "leased", !.attempts = NextAttempt(@), !.owner = t,
                !.expired = FALSE]

LeasedJob(w, e, row) ==
    [mode |-> "waiting", worker |-> w, event |-> e, stage |-> row.stage,
     attempts |-> NextAttempt(row.attempts), intent |-> row.intent]

(* A worker whose last batch is done leases the next one.  Rows locked by  *)
(* others are skipped, so any candidates may come back.  mapLease throws   *)
(* on a purged payload: the whole batch then stays leased with no job.     *)
LeaseInbox(w) ==
    /\ Idle(w)
    /\ \E S \in SUBSET {e \in Events : Candidate(inbox[e])} :
       /\ S # {} /\ Cardinality(S) <= BatchSize
       /\ \E token \in [S -> {t \in Tokens : Unused(t)}] :
          /\ \A d, e \in S : token[d] = token[e] => d = e
          /\ inbox' = [e \in Events |->
                 IF e \in S THEN LeasedRow(inbox[e], token[e]) ELSE inbox[e]]
          /\ job' = IF \A e \in S : inbox[e].payload
                    THEN [t \in Tokens |->
                             IF \E e \in S : token[e] = t
                             THEN LET e == CHOOSE x \in S : token[x] = t
                                  IN  LeasedJob(w, e, inbox[e])
                             ELSE job[t]]
                    ELSE job
    /\ UNCHANGED <<registry, dead, official, failures, replays>>

(* A lane processes its rows one after the other.                          *)
Begin(t) ==
    /\ job[t].mode = "waiting"
    /\ \A s \in Tokens \ {t} :
           (job[s].worker = job[t].worker /\ job[s].mode \in {"run", "retry", "bury"})
           => Lane[job[s].event] # Lane[job[t].event]
    /\ job' = [job EXCEPT ![t].mode = "run"]
    /\ UNCHANGED <<inbox, registry, dead, official, failures, replays>>

(* Mutant of Fenced: the owner is not compared.                            *)
FencedByStatus(row, t) == row.status = "leased" /\ ~row.expired

(* The fence of every statement of the store.                              *)
Fenced(row, t) == row.status = "leased" /\ row.owner = t /\ ~row.expired

(* The catch block of process: what a failure turns the job into.          *)
Failed(j, retryable) ==
    [j EXCEPT !.mode = IF retryable /\ j.attempts < MaxAttempts THEN "retry" ELSE "bury"]

(* A handler, or a statement that wrote nothing, throws.                   *)
Fail(t) ==
    /\ job[t].mode = "run" /\ failures < MaxFailures
    /\ \E retryable \in BOOLEAN : job' = [job EXCEPT ![t] = Failed(@, retryable)]
    /\ failures' = failures + 1
    /\ UNCHANGED <<inbox, registry, dead, official, replays>>

(* A statement that meets a lost fence throws; so does the one that would  *)
(* persist that failure, and the job ends.                                 *)
LoseLease(t) ==
    /\ job[t].mode \in {"run", "retry", "bury"}
    /\ ~Fenced(inbox[job[t].event], t)
    /\ job' = [job EXCEPT ![t] = NoJob]
    /\ UNCHANGED <<inbox, registry, dead, official, failures, replays>>

(* The job after a transaction that committed: the next lease record, or,  *)
(* when the reply is lost, the failure of a job that kept its old record.  *)
Replied(t, next) ==
    \/ /\ job' = [job EXCEPT ![t] = next]
       /\ UNCHANGED failures
    \/ /\ failures < MaxFailures
       /\ \E retryable \in BOOLEAN : job' = [job EXCEPT ![t] = Failed(@, retryable)]
       /\ failures' = failures + 1

(* advance(): the stage is written as given, the lease is extended.        *)
Advanced(row, stage) == [row EXCEPT !.stage = stage]

Checkpoint(t) ==
    LET e == job[t].event
        stage == job[t].stage + 1
    IN  /\ job[t].mode = "run" /\ job[t].stage < quota_settled
        /\ Fenced(inbox[e], t)
        /\ inbox' = [inbox EXCEPT ![e] = Advanced(@, stage)]
        /\ registry' = [registry EXCEPT ![e].stage = stage]
        /\ Replied(t, [job[t] EXCEPT !.stage = stage])
        /\ UNCHANGED <<dead, official, replays>>

(* costArtifact and aiuArtifact accept only a rating that was computed: a  *)
(* stage that a flag or a replay intent disabled leaves none.              *)
Rated(intent) ==
    /\ intent \in {None, "rerun_provider_cost"}
    /\ IF intent = None THEN AiuEnabled ELSE intent = "rerun_aiu_observe"

(* Mutant of Commit: the replayed rating replaces the one published.       *)
CommitRepublishes(o, mapped, price) ==
    [projected |-> TRUE,
     rating |-> IF mapped /\ o.rating = None THEN price ELSE o.rating,
     published |-> IF mapped THEN price ELSE o.published]

(* Mutant of Commit: an unmapped event returns before its outbox rows.     *)
CommitMapped(o, mapped, price) ==
    [projected |-> mapped \/ o.projected,
     rating |-> IF mapped /\ o.rating = None THEN price ELSE o.rating,
     published |-> IF mapped /\ o.published = None THEN price ELSE o.published]

(* ApplicationUsageOfficialWriter.commit and the outbox rows: an unmapped  *)
(* model has no rating; a rating and its outbox rows are kept once written.*)
Commit(o, mapped, price) ==
    [projected |-> TRUE,
     rating |-> IF mapped /\ o.rating = None THEN price ELSE o.rating,
     published |-> IF mapped /\ o.published = None THEN price ELSE o.published]

CommitOfficial(t) ==
    LET e == job[t].event
    IN  /\ job[t].mode = "run" /\ job[t].stage \in quota_settled..official_committed
        /\ Fenced(inbox[e], t) /\ Rated(job[t].intent)
        /\ inbox' = [inbox EXCEPT ![e] = Advanced(@, outbox_created)]
        /\ registry' = [registry EXCEPT ![e].stage = outbox_created]
        /\ \E mapped \in BOOLEAN, price \in Prices :
               official' = [official EXCEPT ![e] = Commit(@, mapped, price)]
        /\ Replied(t, [job[t] EXCEPT !.stage = outbox_created])
        /\ UNCHANGED <<dead, replays>>

(* The TypeError of a missing rating rolls the transaction back.           *)
RejectCommit(t) ==
    /\ job[t].mode = "run" /\ job[t].stage \in quota_settled..official_committed
    /\ Fenced(inbox[job[t].event], t) /\ ~Rated(job[t].intent)
    /\ job' = [job EXCEPT ![t] = Failed(@, FALSE)]
    /\ UNCHANGED <<inbox, registry, dead, official, failures, replays>>

CompletedRow(row) ==
    [row EXCEPT !.status = "completed", !.stage = completed, !.purgeDue = FALSE, !.intent = None]

Complete(t) ==
    LET e == job[t].event
    IN  /\ job[t].mode = "run" /\ job[t].stage >= outbox_created
        /\ Fenced(inbox[e], t)
        /\ inbox' = [inbox EXCEPT ![e] = CompletedRow(@)]
        /\ registry' = [registry EXCEPT ![e].stage = completed]
        /\ dead' = [dead EXCEPT ![e].queued = 0]
        /\ Replied(t, NoJob)
        /\ UNCHANGED <<official, replays>>

RetriedRow(row) == [row EXCEPT !.status = "failed", !.due = FALSE]

Retry(t) ==
    /\ job[t].mode = "retry"
    /\ Fenced(inbox[job[t].event], t)
    /\ inbox' = [inbox EXCEPT ![job[t].event] = RetriedRow(@)]
    /\ job' = [job EXCEPT ![t] = NoJob]
    /\ UNCHANGED <<registry, dead, official, failures, replays>>

(* Mutant of Buried: the queued replay is not resolved.                    *)
BuriedKeepsQueued(d) == [open |-> d.open + 1, queued |-> d.queued]

(* deadLetter(): queued replays are superseded by one open dead letter.    *)
Buried(d) == [open |-> d.open + 1, queued |-> 0]

BuriedRow(row) == [row EXCEPT !.status = "dead_letter", !.stage = dead_letter]

DeadLetter(t) ==
    LET e == job[t].event
    IN  /\ job[t].mode = "bury"
        /\ Fenced(inbox[e], t)
        /\ inbox' = [inbox EXCEPT ![e] = BuriedRow(@)]
        /\ registry' = [registry EXCEPT ![e].stage = dead_letter]
        /\ dead' = [dead EXCEPT ![e] = Buried(@)]
        /\ job' = [job EXCEPT ![t] = NoJob]
        /\ UNCHANGED <<official, failures, replays>>

(* retry or deadLetter itself fails: the lease is left to run out.         *)
GiveUp(t) ==
    /\ job[t].mode \in {"retry", "bury"} /\ failures < MaxFailures
    /\ job' = [job EXCEPT ![t] = NoJob]
    /\ failures' = failures + 1
    /\ UNCHANGED <<inbox, registry, dead, official, replays>>

Crash(w) ==
    /\ ~Idle(w)
    /\ job' = [t \in Tokens |-> IF job[t].worker = w THEN NoJob ELSE job[t]]
    /\ UNCHANGED <<inbox, registry, dead, official, failures, replays>>

-----------------------------------------------------------------------------
(* The clock passes available_at, lease_expires_at or payload_purge_after. *)
BecomeDue(e) ==
    /\ inbox[e].status = "failed" /\ ~inbox[e].due
    /\ inbox' = [inbox EXCEPT ![e].due = TRUE]
    /\ UNCHANGED <<registry, dead, official, job, failures, replays>>

LeaseExpires(e) ==
    /\ inbox[e].status = "leased" /\ ~inbox[e].expired
    /\ inbox' = [inbox EXCEPT ![e].expired = TRUE]
    /\ UNCHANGED <<registry, dead, official, job, failures, replays>>

RetentionEnds(e) ==
    /\ inbox[e].status = "completed" /\ ~inbox[e].purgeDue
    /\ inbox' = [inbox EXCEPT ![e].purgeDue = TRUE]
    /\ UNCHANGED <<registry, dead, official, job, failures, replays>>

(* Mutant of Requeued: the row keeps its stage.                            *)
RequeuedAtStage(row, intent) ==
    [status |-> "pending", stage |-> row.stage, attempts |-> 0, due |-> TRUE, owner |-> None,
     expired |-> FALSE, payload |-> row.payload, purgeDue |-> FALSE, intent |-> intent]

(* The row as an operator's replay leaves it.                              *)
Requeued(row, intent) ==
    [status |-> "pending", stage |-> received, attempts |-> 0, due |-> TRUE, owner |-> None,
     expired |-> FALSE, payload |-> row.payload, purgeDue |-> FALSE, intent |-> intent]

Replayable(e) == dead[e].open > 0 /\ inbox[e].payload

(* The dead-letter console replays an open dead letter, whatever became of *)
(* the row since.                                                          *)
ReplayDeadLetter(e) ==
    /\ replays < MaxReplays
    /\ Replayable(e)
    /\ dead' = [dead EXCEPT ![e] = [open |-> @.open - 1, queued |-> @.queued + 1]]
    /\ inbox' = [inbox EXCEPT ![e] = Requeued(@, @.intent)]
    /\ registry' = [registry EXCEPT ![e].stage = received]
    /\ replays' = replays + 1
    /\ UNCHANGED <<official, job, failures>>

Resettable(row) ==
    row.payload /\ row.status \in {"pending", "failed", "completed", "dead_letter"}

(* A reconciliation replay requeues the rows of a time range of one        *)
(* application at once; it leaves the registry and the dead letters alone. *)
ResetInbox(range, type) ==
    /\ replays < MaxReplays
    /\ \A d, e \in range : EventId[d] = EventId[e] => d = e
    /\ \E e \in range : Resettable(inbox[e])
    /\ inbox' = [e \in Events |->
           IF e \in range /\ Resettable(inbox[e]) THEN Requeued(inbox[e], type) ELSE inbox[e]]
    /\ replays' = replays + 1
    /\ UNCHANGED <<registry, dead, official, job, failures>>

(* The ClickHouse outbox acknowledges the raw rows of a committed event.   *)
RawDelivered(e) ==
    /\ official[e].projected /\ ~registry[e].rawSynced
    /\ registry' = [registry EXCEPT ![e].rawSynced = TRUE]
    /\ UNCHANGED <<inbox, dead, official, job, failures, replays>>

(* The gates of the payload cleanup join on the event id alone.  Its gate  *)
(* on reconciliation differences only ever keeps more payloads.            *)
Purgeable(e) ==
    /\ inbox[e].status = "completed" /\ inbox[e].stage = completed
    /\ inbox[e].payload /\ inbox[e].purgeDue
    /\ \E d \in Events : EventId[d] = EventId[e] /\ registry[d].rawSynced
    /\ \A d \in Events : EventId[d] = EventId[e] => dead[d].open = 0 /\ dead[d].queued = 0

PurgePayload(e) ==
    /\ Purgeable(e)
    /\ inbox' = [inbox EXCEPT ![e].payload = FALSE]
    /\ UNCHANGED <<registry, dead, official, job, failures, replays>>

-----------------------------------------------------------------------------
JobStep(t) ==
    \/ Begin(t) \/ Fail(t) \/ LoseLease(t) \/ Checkpoint(t) \/ CommitOfficial(t)
    \/ RejectCommit(t) \/ Complete(t) \/ Retry(t) \/ DeadLetter(t) \/ GiveUp(t)

RowStep(e) ==
    \/ Accept(e) \/ BecomeDue(e) \/ LeaseExpires(e) \/ RetentionEnds(e)
    \/ ReplayDeadLetter(e) \/ RawDelivered(e) \/ PurgePayload(e)

Next ==
    \/ \E w \in Workers : LeaseInbox(w) \/ Crash(w)
    \/ \E t \in Tokens : JobStep(t)
    \/ \E e \in Events : RowStep(e)
    \/ \E range \in SUBSET Events, type \in ReplayTypes : ResetInbox(range, type)

Spec == Init /\ [][Next]_vars

(* A durable step of a row's job.                                          *)
Progress(e) ==
    \E t \in Tokens :
        /\ job[t].event = e
        /\ Checkpoint(t) \/ CommitOfficial(t) \/ Complete(t) \/ Retry(t) \/ DeadLetter(t)

BeginOne(e) == \E t \in Tokens : job[t].event = e /\ Fenced(inbox[e], t) /\ Begin(t)

RejectOne(e) == \E t \in Tokens : job[t].event = e /\ RejectCommit(t)

LeaseOne(e) ==
    /\ Candidate(inbox[e])
    /\ \E w \in Workers : LeaseInbox(w)
    /\ inbox'[e].status = "leased" /\ ~inbox'[e].expired

(* Time passes, pollers poll, and a row that is leased again and again     *)
(* gets through one more transaction before its lease runs out: leases     *)
(* last a minute and every checkpoint renews them.                         *)
Fairness ==
    /\ \A e \in Events : /\ WF_vars(BecomeDue(e)) /\ WF_vars(LeaseExpires(e))
                         /\ SF_vars(LeaseOne(e)) /\ SF_vars(BeginOne(e))
                         /\ SF_vars(Progress(e)) /\ SF_vars(RejectOne(e))
    /\ \A t \in Tokens : WF_vars(LoseLease(t)) /\ WF_vars(Begin(t))

FairSpec == Spec /\ Fairness

-----------------------------------------------------------------------------
(* "re-enters pure stages after a crash but never regresses persisted stage *)
(* checkpoints": a row's stage only ever goes back to received, and only   *)
(* when an operator requeues the row.                                      *)
StagesNeverRegress ==
    [][\A e \in Events : inbox'[e].stage < inbox[e].stage =>
           inbox'[e].stage = received /\ inbox'[e].status = "pending"]_vars

(* A row past the official commit has its outbox rows, so a completed event *)
(* always reaches analytics, even when complete() runs in a later lease    *)
(* that skips the commit.                                                  *)
CompletedIsProjected ==
    \A e \in Events :
        inbox[e].stage \in {outbox_created, completed} => official[e].projected

(* A replay that the console queued is still ahead: the row is waiting or  *)
(* leased.  It is not lost to a worker that held the row when it was       *)
(* requeued.                                                               *)
QueuedReplaysRun ==
    \A e \in Events : dead[e].queued > 0 => inbox[e].status \in {"pending", "leased", "failed"}

(* A payload is gone only for good: its row is completed and no dead letter *)
(* of it can still be replayed, so no lease ever meets a purged payload.   *)
PurgedIsFinal ==
    \A e \in Events : (inbox[e].status # "absent" /\ ~inbox[e].payload) =>
        inbox[e].status = "completed" /\ dead[e].open = 0 /\ dead[e].queued = 0

(* The registry's processing_stage is the row's stage, except that a       *)
(* reconciliation replay leaves it behind until the row's first checkpoint.*)
RegistryFollowsInbox ==
    \A e \in Events : registry[e].stage # inbox[e].stage =>
        inbox[e].stage = received /\ inbox[e].intent # None

(* What the outbox publishes to ClickHouse is the rating PostgreSQL holds, *)
(* however often and at whatever price the event is replayed.              *)
PublishedMatchesRating ==
    \A e \in Events : official[e].published = official[e].rating

AtRest == \A e \in Events : inbox[e].status \in {"absent", "completed", "dead_letter"}

(* Once operators stop replaying, every accepted event comes to rest:      *)
(* completed or dead-lettered, for good.                                   *)
EventsSettle == <>[]AtRest

(* "gates every optional side effect while still durably projecting raw    *)
(* usage": without failures and reconciliation replays, an instance whose  *)
(* aiu flag is off projects every event it stops working on.               *)
OptionalStagesAreOptional ==
    \A e \in Events :
        (inbox[e].status = "dead_letter" /\ failures = 0 /\ inbox[e].intent = None) =>
            official[e].projected

=============================================================================
