------------------------- MODULE InboxPipelineProofs -------------------------
(***************************************************************************)
(* Proofs about InboxPipeline, for any number of rows, workers, lease      *)
(* tokens, attempts, failures and replays.                                 *)
(*                                                                         *)
(* The argument: a job whose lease still holds knows the stage its row is  *)
(* in (JobsAreCurrent), because every write of the row is fenced by the    *)
(* lease or breaks it.  So checkpoints only ever advance, and a commit is  *)
(* never skipped.  What holds of each row separately (RowSound) is kept by *)
(* every way a row is written.                                             *)
(***************************************************************************)
EXTENDS InboxPipeline, TLAPS

USE DEF received, normalized, model_resolved, provider_cost_rated, aiu_rated,
        quota_settled, official_committed, outbox_created, completed, dead_letter

(* What holds of one row, its registry entry, dead letters and commit.     *)
RowSound(row, reg, d, o) ==
    /\ row.stage \in {outbox_created, completed} => o.projected
    /\ d.queued > 0 => row.status \in {"pending", "leased", "failed"}
    /\ (row.status # "absent" /\ ~row.payload) =>
           row.status = "completed" /\ d.open = 0 /\ d.queued = 0
    /\ reg.stage # row.stage => row.stage = received /\ row.intent # None
    /\ o.published = o.rating
    /\ row.status = "absent" => reg.stage = received
    /\ row.status = "leased" => row.stage \notin {completed, dead_letter}

(* A step of a row that is no regression.                                  *)
NoRegression(row, next) ==
    next.stage < row.stage => next.stage = received /\ next.status = "pending"

(* Whoever holds the lease after the step held it before, at this stage.   *)
FenceKept(row, next) ==
    \A t : Fenced(next, t) => Fenced(row, t) /\ next.stage = row.stage

-----------------------------------------------------------------------------
(* What each way to write a row leaves in the fields that matter.          *)
Fields(next, status, stage, owner, expired, payload, intent) ==
    /\ next.status = status /\ next.stage = stage /\ next.owner = owner
    /\ next.expired = expired /\ next.payload = payload /\ next.intent = intent

IsLeased(next, row, t) ==
    Fields(next, "leased", row.stage, t, FALSE, row.payload, row.intent)

IsRequeued(next, row, intent) ==
    Fields(next, "pending", received, None, FALSE, row.payload, intent)

(* A new row starts at received with its payload and no lease.             *)
LEMMA AcceptedFields ==
    /\ AcceptedRow \in InboxType
    /\ Fields(AcceptedRow, "pending", received, None, FALSE, TRUE, None)
  BY PipelineAssumption DEF AcceptedRow, InboxType, Stages, Fields

(* The attempt counter saturates.                                          *)
LEMMA NextAttemptType == \A n \in 0..MaxAttempts : NextAttempt(n) \in 0..MaxAttempts
  BY PipelineAssumption DEF NextAttempt

(* A lease keeps stage, payload and intent and names its holder.           *)
LEMMA LeasedFields ==
    ASSUME NEW row \in InboxType, NEW t \in Tokens
    PROVE  /\ LeasedRow(row, t) \in InboxType
           /\ IsLeased(LeasedRow(row, t), row, t)
  <1>1. NextAttempt(row.attempts) \in 0..MaxAttempts
    BY NextAttemptType DEF InboxType
  <1>2. LeasedRow(row, t) \in InboxType
    BY <1>1, ZenonT(30) DEF LeasedRow, InboxType
  <1>3. IsLeased(LeasedRow(row, t), row, t)
    BY DEF LeasedRow, InboxType, Fields, IsLeased
  <1> QED BY <1>2, <1>3, Zenon

(* A checkpoint writes the stage only.                                     *)
LEMMA AdvancedFields ==
    ASSUME NEW row \in InboxType, NEW s \in Stages
    PROVE  /\ Advanced(row, s) \in InboxType
           /\ Fields(Advanced(row, s), row.status, s, row.owner, row.expired, row.payload, row.intent)
  BY DEF Advanced, InboxType, Fields

(* Completion ends the lease and clears the replay intent.                 *)
LEMMA CompletedFields ==
    ASSUME NEW row \in InboxType
    PROVE  /\ CompletedRow(row) \in InboxType
           /\ Fields(CompletedRow(row), "completed", completed, row.owner, row.expired,
                     row.payload, None)
  <1>1. completed \in Stages
    BY DEF Stages
  <1>2. CompletedRow(row) \in InboxType
    BY <1>1, ZenonT(30) DEF CompletedRow, InboxType
  <1>3. Fields(CompletedRow(row), "completed", completed, row.owner, row.expired,
               row.payload, None)
    BY DEF CompletedRow, InboxType, Fields
  <1> QED BY <1>2, <1>3

(* A retry keeps everything but status and due time.                       *)
LEMMA RetriedFields ==
    ASSUME NEW row \in InboxType
    PROVE  /\ RetriedRow(row) \in InboxType
           /\ Fields(RetriedRow(row), "failed", row.stage, row.owner, row.expired,
                     row.payload, row.intent)
  <1>1. RetriedRow(row) \in InboxType
    BY ZenonT(30) DEF RetriedRow, InboxType
  <1>2. Fields(RetriedRow(row), "failed", row.stage, row.owner, row.expired,
               row.payload, row.intent)
    BY DEF RetriedRow, InboxType, Fields
  <1> QED BY <1>1, <1>2

(* A dead letter keeps the payload and the intent.                         *)
LEMMA BuriedFields ==
    ASSUME NEW row \in InboxType
    PROVE  /\ BuriedRow(row) \in InboxType
           /\ Fields(BuriedRow(row), "dead_letter", dead_letter, row.owner, row.expired,
                     row.payload, row.intent)
  <1>1. dead_letter \in Stages
    BY DEF Stages
  <1>2. BuriedRow(row) \in InboxType
    BY <1>1, ZenonT(30) DEF BuriedRow, InboxType
  <1>3. Fields(BuriedRow(row), "dead_letter", dead_letter, row.owner, row.expired,
               row.payload, row.intent)
    BY DEF BuriedRow, InboxType, Fields
  <1> QED BY <1>2, <1>3

(* A requeued row starts again, with its payload and the given intent.     *)
LEMMA RequeuedFields ==
    ASSUME NEW row \in InboxType, NEW intent \in ReplayTypes \cup {None}
    PROVE  /\ Requeued(row, intent) \in InboxType
           /\ IsRequeued(Requeued(row, intent), row, intent)
  BY PipelineAssumption DEF Requeued, InboxType, Stages, Fields, IsRequeued

-----------------------------------------------------------------------------
(* persistEvent creates a sound row.                                       *)
LEMMA AcceptSound ==
    ASSUME NEW row \in InboxType, NEW reg \in RegistryType, NEW d \in DeadType,
           NEW o \in OfficialType, NEW next \in InboxType, RowSound(row, reg, d, o),
           row.status = "absent", Fields(next, "pending", received, None, FALSE, TRUE, None)
    PROVE  /\ RowSound(next, reg, d, o)
           /\ NoRegression(row, next)
           /\ FenceKept(row, next)
  BY DEF Fields, InboxType, RegistryType, DeadType, OfficialType, RowSound, NoRegression,
         FenceKept, Fenced

(* leaseInbox keeps a candidate row sound; only the new token fences it.   *)
LEMMA LeaseSound ==
    ASSUME NEW row \in InboxType, NEW reg \in RegistryType, NEW d \in DeadType,
           NEW o \in OfficialType, NEW next \in InboxType, NEW t \in Tokens,
           RowSound(row, reg, d, o), Candidate(row),
           IsLeased(next, row, t)
    PROVE  /\ RowSound(next, reg, d, o)
           /\ NoRegression(row, next)
           /\ \A s : Fenced(next, s) => s = t
  <1>1. row.status \in {"pending", "failed", "leased"} /\ row.stage \notin {completed, dead_letter}
    BY DEF Candidate
  <1>2. RowSound(next, reg, d, o)
    BY <1>1 DEF IsLeased, Fields, InboxType, RegistryType, DeadType, OfficialType, RowSound, Stages
  <1>3. NoRegression(row, next)
    BY DEF IsLeased, Fields, NoRegression, InboxType, Stages
  <1>4. \A s : Fenced(next, s) => s = t
    BY DEF IsLeased, Fields, Fenced
  <1> QED BY <1>2, <1>3, <1>4

(* A checkpoint by the holder, from the stage the row is in.               *)
LEMMA CheckpointSound ==
    ASSUME NEW row \in InboxType, NEW reg \in RegistryType, NEW d \in DeadType,
           NEW o \in OfficialType, NEW next \in InboxType, NEW nextReg \in RegistryType,
           NEW t \in Tokens, RowSound(row, reg, d, o), Fenced(row, t),
           row.stage < quota_settled, nextReg.stage = row.stage + 1,
           Fields(next, row.status, row.stage + 1, row.owner, row.expired, row.payload, row.intent)
    PROVE  /\ RowSound(next, nextReg, d, o)
           /\ NoRegression(row, next)
           /\ \A s : Fenced(next, s) => s = t
  BY DEF Fields, InboxType, RegistryType, DeadType, OfficialType, RowSound, NoRegression,
         Fenced, Stages

(* The official commit by the holder.                                      *)
LEMMA CommitSound ==
    ASSUME NEW row \in InboxType, NEW reg \in RegistryType, NEW d \in DeadType,
           NEW o \in OfficialType, NEW next \in InboxType, NEW nextReg \in RegistryType,
           NEW nextO \in OfficialType,
           NEW t \in Tokens, RowSound(row, reg, d, o), Fenced(row, t),
           row.stage <= official_committed, nextReg.stage = outbox_created,
           nextO.projected, nextO.published = nextO.rating,
           Fields(next, row.status, outbox_created, row.owner, row.expired, row.payload, row.intent)
    PROVE  /\ RowSound(next, nextReg, d, nextO)
           /\ NoRegression(row, next)
           /\ \A s : Fenced(next, s) => s = t
  BY DEF Fields, InboxType, RegistryType, DeadType, OfficialType, RowSound, NoRegression,
         Fenced, Stages

(* Completion by the holder of a row whose outbox rows exist.              *)
LEMMA CompleteSound ==
    ASSUME NEW row \in InboxType, NEW reg \in RegistryType, NEW d \in DeadType,
           NEW o \in OfficialType, NEW next \in InboxType, NEW nextReg \in RegistryType,
           NEW nextD \in DeadType, NEW t \in Tokens, RowSound(row, reg, d, o), Fenced(row, t),
           row.stage \in {outbox_created, completed}, nextReg.stage = completed, nextD.queued = 0,
           Fields(next, "completed", completed, row.owner, row.expired, row.payload, None)
    PROVE  /\ RowSound(next, nextReg, nextD, o)
           /\ NoRegression(row, next)
           /\ FenceKept(row, next)
  BY DEF Fields, InboxType, RegistryType, DeadType, OfficialType, RowSound, NoRegression,
         Fenced, FenceKept, Stages

(* A retry by the holder.                                                  *)
LEMMA RetrySound ==
    ASSUME NEW row \in InboxType, NEW reg \in RegistryType, NEW d \in DeadType,
           NEW o \in OfficialType, NEW next \in InboxType, NEW t \in Tokens,
           RowSound(row, reg, d, o), Fenced(row, t),
           Fields(next, "failed", row.stage, row.owner, row.expired, row.payload, row.intent)
    PROVE  /\ RowSound(next, reg, d, o)
           /\ NoRegression(row, next)
           /\ FenceKept(row, next)
  BY DEF Fields, InboxType, RegistryType, DeadType, OfficialType, RowSound, NoRegression,
         Fenced, FenceKept, Stages

(* A dead letter by the holder.                                            *)
LEMMA BurySound ==
    ASSUME NEW row \in InboxType, NEW reg \in RegistryType, NEW d \in DeadType,
           NEW o \in OfficialType, NEW next \in InboxType, NEW nextReg \in RegistryType,
           NEW nextD \in DeadType, NEW t \in Tokens, RowSound(row, reg, d, o), Fenced(row, t),
           nextReg.stage = dead_letter, nextD.queued = 0,
           Fields(next, "dead_letter", dead_letter, row.owner, row.expired, row.payload, row.intent)
    PROVE  /\ RowSound(next, nextReg, nextD, o)
           /\ NoRegression(row, next)
           /\ FenceKept(row, next)
  BY DEF Fields, InboxType, RegistryType, DeadType, OfficialType, RowSound, NoRegression,
         Fenced, FenceKept, Stages

(* An operator's replay of a row that has its payload.                     *)
LEMMA RequeueSound ==
    ASSUME NEW row \in InboxType, NEW reg \in RegistryType, NEW d \in DeadType,
           NEW o \in OfficialType, NEW next \in InboxType, NEW nextReg \in RegistryType,
           NEW nextD \in DeadType, NEW intent \in ReplayTypes \cup {None},
           RowSound(row, reg, d, o), row.payload, nextReg.stage = received \/ intent # None,
           IsRequeued(next, row, intent)
    PROVE  /\ RowSound(next, nextReg, nextD, o)
           /\ NoRegression(row, next)
           /\ FenceKept(row, next)
  BY DEF IsRequeued, Fields, InboxType, RegistryType, DeadType, OfficialType, RowSound, NoRegression,
         Fenced, FenceKept, Stages

-----------------------------------------------------------------------------
(* The types of what the workers hold.                                     *)
LEMMA NoJobType == NoJob \in JobType /\ NoJob.mode = "idle"
  BY PipelineAssumption DEF NoJob, JobType, Stages

(* A failed job is to be retried or buried; it keeps its row.              *)
LEMMA FailedFields ==
    ASSUME NEW j \in JobType, NEW retryable \in BOOLEAN
    PROVE  /\ Failed(j, retryable) \in JobType
           /\ Failed(j, retryable).mode \in {"retry", "bury"}
           /\ Failed(j, retryable).event = j.event
  <1> DEFINE m == IF retryable /\ j.attempts < MaxAttempts THEN "retry" ELSE "bury"
  <1>1. m \in {"retry", "bury"}
    OBVIOUS
  <1> HIDE DEF m
  <1>2. [j EXCEPT !.mode = m] \in JobType /\ [j EXCEPT !.mode = m].mode = m
        /\ [j EXCEPT !.mode = m].event = j.event
    BY <1>1 DEF JobType
  <1> QED BY <1>1, <1>2 DEF Failed, m

(* A leased job knows the stage its row is in.                             *)
LEMMA LeasedJobFields ==
    ASSUME NEW row \in InboxType, NEW w \in Workers, NEW e \in Events
    PROVE  /\ LeasedJob(w, e, row) \in JobType
           /\ LeasedJob(w, e, row).mode = "waiting"
           /\ LeasedJob(w, e, row).event = e
           /\ LeasedJob(w, e, row).stage = row.stage
  <1>1. NextAttempt(row.attempts) \in 0..MaxAttempts
    BY NextAttemptType DEF InboxType
  <1> QED BY <1>1 DEF LeasedJob, JobType, InboxType

(* A job's next record after a checkpoint.                                 *)
LEMMA AdvancedJobFields ==
    ASSUME NEW j \in JobType, NEW s \in Stages
    PROVE  /\ [j EXCEPT !.stage = s] \in JobType
           /\ [j EXCEPT !.stage = s].mode = j.mode
           /\ [j EXCEPT !.stage = s].event = j.event
           /\ [j EXCEPT !.stage = s].stage = s
  BY DEF JobType

(* A job that begins keeps its record.                                     *)
LEMMA BegunJobFields ==
    ASSUME NEW j \in JobType
    PROVE  /\ [j EXCEPT !.mode = "run"] \in JobType
           /\ [j EXCEPT !.mode = "run"].event = j.event
           /\ [j EXCEPT !.mode = "run"].stage = j.stage
  BY DEF JobType

-----------------------------------------------------------------------------
(* The clock's writes touch none of the fields that matter but the lease.  *)
LEMMA ClockFields ==
    ASSUME NEW row \in InboxType
    PROVE  /\ [row EXCEPT !.due = TRUE] \in InboxType
           /\ Fields([row EXCEPT !.due = TRUE], row.status, row.stage, row.owner, row.expired,
                     row.payload, row.intent)
           /\ [row EXCEPT !.expired = TRUE] \in InboxType
           /\ Fields([row EXCEPT !.expired = TRUE], row.status, row.stage, row.owner, TRUE,
                     row.payload, row.intent)
           /\ [row EXCEPT !.purgeDue = TRUE] \in InboxType
           /\ Fields([row EXCEPT !.purgeDue = TRUE], row.status, row.stage, row.owner, row.expired,
                     row.payload, row.intent)
           /\ [row EXCEPT !.payload = FALSE] \in InboxType
           /\ Fields([row EXCEPT !.payload = FALSE], row.status, row.stage, row.owner, row.expired,
                     FALSE, row.intent)
  BY ZenonT(30) DEF InboxType, Fields

(* A write that keeps status, stage, lease, payload and intent.            *)
LEMMA ClockSound ==
    ASSUME NEW row \in InboxType, NEW reg \in RegistryType, NEW d \in DeadType,
           NEW o \in OfficialType, NEW next \in InboxType, RowSound(row, reg, d, o),
           Fields(next, row.status, row.stage, row.owner, row.expired, row.payload, row.intent)
    PROVE  /\ RowSound(next, reg, d, o)
           /\ NoRegression(row, next)
           /\ FenceKept(row, next)
  BY DEF Fields, InboxType, RegistryType, DeadType, OfficialType, RowSound, NoRegression,
         Fenced, FenceKept, Stages

(* A lease that runs out.                                                  *)
LEMMA ExpirySound ==
    ASSUME NEW row \in InboxType, NEW reg \in RegistryType, NEW d \in DeadType,
           NEW o \in OfficialType, NEW next \in InboxType, RowSound(row, reg, d, o),
           Fields(next, row.status, row.stage, row.owner, TRUE, row.payload, row.intent)
    PROVE  /\ RowSound(next, reg, d, o)
           /\ NoRegression(row, next)
           /\ FenceKept(row, next)
  BY DEF Fields, InboxType, RegistryType, DeadType, OfficialType, RowSound, NoRegression,
         Fenced, FenceKept, Stages

(* A purge of a completed row without live dead letters.                   *)
LEMMA PurgeSound ==
    ASSUME NEW row \in InboxType, NEW reg \in RegistryType, NEW d \in DeadType,
           NEW o \in OfficialType, NEW next \in InboxType,
           RowSound(row, reg, d, o), row.status = "completed", d.open = 0, d.queued = 0,
           Fields(next, row.status, row.stage, row.owner, row.expired, FALSE, row.intent)
    PROVE  /\ RowSound(next, reg, d, o)
           /\ NoRegression(row, next)
           /\ FenceKept(row, next)
  BY DEF Fields, InboxType, RegistryType, DeadType, OfficialType, RowSound, NoRegression,
         Fenced, FenceKept, Stages

(* The commit keeps the rating and what was published in agreement.        *)
LEMMA CommittedFields ==
    ASSUME NEW o \in OfficialType, o.published = o.rating, NEW mapped \in BOOLEAN,
           NEW price \in Prices
    PROVE  /\ Commit(o, mapped, price) \in OfficialType
           /\ Commit(o, mapped, price).projected
           /\ Commit(o, mapped, price).published = Commit(o, mapped, price).rating
  <1> DEFINE r == IF mapped /\ o.rating = None THEN price ELSE o.rating
  <1>1. r \in Prices \cup {None}
    BY DEF OfficialType
  <1>2. Commit(o, mapped, price) = [projected |-> TRUE, rating |-> r, published |-> r]
    BY DEF Commit
  <1> HIDE DEF r
  <1> QED BY <1>1, <1>2 DEF OfficialType

-----------------------------------------------------------------------------
(* Jobs and steps.                                                        *)

(* A job that is still at work, and whose lease holds, knows its row's stage.*)
JobCurrent(j, t) ==
    (j.mode \in {"waiting", "run"} /\ Fenced(inbox[j.event], t)) =>
        inbox[j.event].stage = j.stage

JobsAreCurrent == \A t \in Tokens : JobCurrent(job[t], t)

RowsAreSound == \A e \in Events : RowSound(inbox[e], registry[e], dead[e], official[e])

(* The inductive invariant.                                                *)
PipelineInv == TypeOK /\ JobsAreCurrent /\ RowsAreSound

-----------------------------------------------------------------------------
JobsTyped ==
    /\ job \in [Tokens -> JobType]
    /\ \A t \in Tokens : job[t].mode # "idle" => job[t].event \in Events

RowsTyped ==
    /\ inbox \in [Events -> InboxType] /\ registry \in [Events -> RegistryType]
    /\ dead \in [Events -> DeadType] /\ official \in [Events -> OfficialType]

CountersTyped == failures \in 0..MaxFailures /\ replays \in 0..MaxReplays

(* TypeOK, in the parts the proofs use.                                    *)
LEMMA TypeParts == TypeOK <=> JobsTyped /\ RowsTyped /\ CountersTyped
  BY DEF TypeOK, JobsTyped, RowsTyped, CountersTyped

(* What every step is shown to do.                                         *)
StepSound == PipelineInv' /\ \A e \in Events : NoRegression(inbox[e], inbox'[e])

(* A step after which only a row's holders of before still hold it, and    *)
(* whose jobs at work were at work on the same row and stage, leaves jobs  *)
(* current.                                                                *)
LEMMA JobsStayCurrent ==
    ASSUME JobsAreCurrent, JobsTyped, JobsTyped',
           \A e \in Events : FenceKept(inbox[e], inbox'[e]),
           \A t \in Tokens : job'[t].mode \in {"waiting", "run"} =>
               /\ job[t].mode \in {"waiting", "run"}
               /\ job'[t].event = job[t].event /\ job'[t].stage = job[t].stage
    PROVE  JobsAreCurrent'
  <1> SUFFICES ASSUME NEW t \in Tokens, job'[t].mode \in {"waiting", "run"},
                      Fenced(inbox'[job'[t].event], t)
               PROVE  inbox'[job'[t].event].stage = job'[t].stage
    BY DEF JobsAreCurrent, JobCurrent
  <1>1. /\ job[t].mode \in {"waiting", "run"} /\ job'[t].event = job[t].event
        /\ job'[t].stage = job[t].stage /\ job[t].event \in Events
    BY DEF JobsTyped
  <1>2. /\ Fenced(inbox[job[t].event], t)
        /\ inbox'[job[t].event].stage = inbox[job[t].event].stage
    BY <1>1 DEF FenceKept
  <1>3. inbox[job[t].event].stage = job[t].stage
    BY <1>1, <1>2 DEF JobsAreCurrent, JobCurrent
  <1> QED BY <1>1, <1>2, <1>3

(* A row that is not written keeps its holder and stage.                   *)
LEMMA UnwrittenRow ==
    ASSUME NEW row \in InboxType
    PROVE  FenceKept(row, row) /\ NoRegression(row, row)
  BY DEF FenceKept, NoRegression, InboxType, Stages

(* A step that writes no row but may end, fail or begin jobs.              *)
LEMMA JobOnlyStep ==
    ASSUME PipelineInv, UNCHANGED <<inbox, registry, dead, official>>,
           JobsTyped', CountersTyped',
           \A t \in Tokens : job'[t].mode \in {"waiting", "run"} =>
               /\ job[t].mode \in {"waiting", "run"}
               /\ job'[t].event = job[t].event /\ job'[t].stage = job[t].stage
    PROVE  StepSound
  <1>1. JobsTyped /\ RowsTyped /\ JobsAreCurrent /\ RowsAreSound
    BY TypeParts DEF PipelineInv
  <1>2. \A e \in Events : FenceKept(inbox[e], inbox'[e]) /\ NoRegression(inbox[e], inbox'[e])
    BY <1>1, UnwrittenRow DEF RowsTyped
  <1>3. JobsAreCurrent'
    BY <1>1, <1>2, JobsStayCurrent
  <1>4. RowsTyped' /\ RowsAreSound'
    BY <1>1 DEF RowsTyped, RowsAreSound
  <1>5. TypeOK'
    BY <1>4, TypeParts, PTL
  <1> QED BY <1>2, <1>3, <1>4, <1>5 DEF StepSound, PipelineInv

(* A step that writes the rows of one event and leaves it sound.           *)
LEMMA OneRowStep ==
    ASSUME PipelineInv, NEW e \in Events, RowsTyped', JobsTyped', CountersTyped',
           \A d \in Events \ {e} : /\ inbox'[d] = inbox[d] /\ registry'[d] = registry[d]
                                   /\ dead'[d] = dead[d] /\ official'[d] = official[d],
           RowSound(inbox'[e], registry'[e], dead'[e], official'[e]),
           NoRegression(inbox[e], inbox'[e]), JobsAreCurrent'
    PROVE  StepSound
  <1>1. RowsTyped /\ RowsAreSound
    BY TypeParts DEF PipelineInv
  <1>2. \A d \in Events : NoRegression(inbox[d], inbox'[d])
    BY <1>1, UnwrittenRow DEF RowsTyped
  <1>3. RowsAreSound'
    BY <1>1 DEF RowsAreSound
  <1>4. TypeOK'
    BY TypeParts, PTL
  <1> QED BY <1>2, <1>3, <1>4 DEF StepSound, PipelineInv

(* The same, when the jobs at work go on as they were.                     *)
LEMMA OneRowQuietStep ==
    ASSUME PipelineInv, NEW e \in Events, RowsTyped', JobsTyped', CountersTyped',
           \A d \in Events \ {e} : /\ inbox'[d] = inbox[d] /\ registry'[d] = registry[d]
                                   /\ dead'[d] = dead[d] /\ official'[d] = official[d],
           RowSound(inbox'[e], registry'[e], dead'[e], official'[e]),
           NoRegression(inbox[e], inbox'[e]), FenceKept(inbox[e], inbox'[e]),
           \A t \in Tokens : job'[t].mode \in {"waiting", "run"} =>
               /\ job[t].mode \in {"waiting", "run"}
               /\ job'[t].event = job[t].event /\ job'[t].stage = job[t].stage
    PROVE  StepSound
  <1>1. JobsTyped /\ RowsTyped /\ JobsAreCurrent
    BY TypeParts DEF PipelineInv
  <1>2. \A d \in Events : FenceKept(inbox[d], inbox'[d])
    BY <1>1, UnwrittenRow DEF RowsTyped
  <1>3. JobsAreCurrent'
    BY <1>1, <1>2, JobsStayCurrent
  <1> QED BY <1>3, OneRowStep

(* The steps of jobs that write no row.                                    *)
LEMMA JobSteps ==
    ASSUME PipelineInv, NEW t \in Tokens,
           Begin(t) \/ Fail(t) \/ LoseLease(t) \/ RejectCommit(t) \/ GiveUp(t)
    PROVE  StepSound
  <1>1. JobsTyped /\ CountersTyped
    BY TypeParts DEF PipelineInv
  <1>2. CASE Begin(t)
    <2>1. UNCHANGED <<inbox, registry, dead, official, failures, replays>>
          /\ job' = [job EXCEPT ![t] = [job[t] EXCEPT !.mode = "run"]] /\ job[t].mode = "waiting"
      BY <1>2 DEF Begin
    <2>2. JobsTyped' /\ CountersTyped'
      BY <1>1, <2>1, BegunJobFields DEF JobsTyped, CountersTyped
    <2> QED BY <1>1, <2>1, <2>2, BegunJobFields, JobOnlyStep DEF JobsTyped
  <1>3. CASE Fail(t) \/ RejectCommit(t)
    <2>1. PICK r \in BOOLEAN : job' = [job EXCEPT ![t] = Failed(job[t], r)]
      BY <1>3, Zenon DEF Fail, RejectCommit
    <2>2. UNCHANGED <<inbox, registry, dead, official, replays>> /\ job[t].mode = "run"
          /\ (failures' = failures \/ (failures < MaxFailures /\ failures' = failures + 1))
      BY <1>3, Zenon DEF Fail, RejectCommit
    <2>3. JobsTyped'
      BY <1>1, <2>1, <2>2, FailedFields DEF JobsTyped
    <2>4. CountersTyped'
      BY <1>1, <2>2, PipelineAssumption DEF CountersTyped
    <2> QED BY <1>1, <2>1, <2>2, <2>3, <2>4, FailedFields, JobOnlyStep DEF JobsTyped
  <1>4. CASE LoseLease(t) \/ GiveUp(t)
    <2>1. UNCHANGED <<inbox, registry, dead, official, replays>> /\ failures' \in 0..MaxFailures
          /\ job' = [job EXCEPT ![t] = NoJob]
      BY <1>1, <1>4, PipelineAssumption DEF LoseLease, GiveUp, CountersTyped
    <2>2. JobsTyped' /\ CountersTyped'
      BY <1>1, <2>1, NoJobType DEF JobsTyped, CountersTyped
    <2> QED BY <1>1, <2>1, <2>2, NoJobType, JobOnlyStep DEF JobsTyped
  <1> QED BY <1>2, <1>3, <1>4

(* A crash ends the worker's jobs.                                         *)
LEMMA CrashStep ==
    ASSUME PipelineInv, NEW w \in Workers, Crash(w)
    PROVE  StepSound
  <1>1. JobsTyped /\ CountersTyped
    BY TypeParts DEF PipelineInv
  <1>2. UNCHANGED <<inbox, registry, dead, official, failures, replays>>
        /\ job' = [t \in Tokens |-> IF job[t].worker = w THEN NoJob ELSE job[t]]
    BY DEF Crash
  <1>3. JobsTyped' /\ CountersTyped'
    BY <1>1, <1>2, NoJobType DEF JobsTyped, CountersTyped
  <1> QED BY <1>1, <1>2, <1>3, NoJobType, JobOnlyStep DEF JobsTyped

(* The rows' other columns and the jobs, when only the inbox row of e is   *)
(* written.                                                                *)
LEMMA InboxOnlyStep ==
    ASSUME PipelineInv, NEW e \in Events, NEW next \in InboxType,
           inbox' = [inbox EXCEPT ![e] = next],
           UNCHANGED <<registry, dead, official, job, failures, replays>>,
           RowSound(next, registry[e], dead[e], official[e]),
           NoRegression(inbox[e], next), FenceKept(inbox[e], next)
    PROVE  StepSound
  <1>1. JobsTyped /\ RowsTyped /\ CountersTyped
    BY TypeParts DEF PipelineInv
  <1>2. RowsTyped' /\ JobsTyped' /\ CountersTyped'
    BY <1>1 DEF JobsTyped, RowsTyped, CountersTyped
  <1>3. inbox'[e] = next /\ \A d \in Events \ {e} : inbox'[d] = inbox[d]
    BY <1>1 DEF RowsTyped
  <1>4. \A d \in Events \ {e} : /\ inbox'[d] = inbox[d] /\ registry'[d] = registry[d]
                                /\ dead'[d] = dead[d] /\ official'[d] = official[d]
    BY <1>3
  <1>5. RowSound(inbox'[e], registry'[e], dead'[e], official'[e])
    BY <1>3
  <1>6. NoRegression(inbox[e], inbox'[e]) /\ FenceKept(inbox[e], inbox'[e])
    BY <1>3
  <1> QED BY <1>2, <1>4, <1>5, <1>6, OneRowQuietStep

(* Ingestion, the clock and the payload cleanup.                           *)
LEMMA InboxSteps ==
    ASSUME PipelineInv, NEW e \in Events,
           Accept(e) \/ BecomeDue(e) \/ LeaseExpires(e) \/ RetentionEnds(e) \/ PurgePayload(e)
    PROVE  StepSound
  <1>1. /\ inbox[e] \in InboxType /\ registry[e] \in RegistryType /\ dead[e] \in DeadType
        /\ official[e] \in OfficialType
        /\ RowSound(inbox[e], registry[e], dead[e], official[e])
    BY TypeParts DEF PipelineInv, RowsTyped, RowsAreSound
  <1>2. CASE Accept(e)
    BY <1>1, <1>2, AcceptedFields, AcceptSound, InboxOnlyStep, Zenon DEF Accept
  <1>3. CASE BecomeDue(e)
    <2> DEFINE next == [inbox[e] EXCEPT !.due = TRUE]
    <2>1. inbox' = [inbox EXCEPT ![e] = next]
          /\ UNCHANGED <<registry, dead, official, job, failures, replays>>
      BY <1>3 DEF BecomeDue
    <2>2. next \in InboxType
          /\ Fields(next, inbox[e].status, inbox[e].stage, inbox[e].owner, inbox[e].expired,
                    inbox[e].payload, inbox[e].intent)
      BY <1>1, ClockFields, Zenon DEF InboxType
    <2> HIDE DEF next
    <2>3. /\ RowSound(next, registry[e], dead[e], official[e])
          /\ NoRegression(inbox[e], next) /\ FenceKept(inbox[e], next)
      BY <1>1, <2>2, ClockSound, Zenon
    <2> QED BY <2>1, <2>2, <2>3, InboxOnlyStep, Zenon
  <1>4. CASE LeaseExpires(e)
    <2> DEFINE next == [inbox[e] EXCEPT !.expired = TRUE]
    <2>1. inbox' = [inbox EXCEPT ![e] = next]
          /\ UNCHANGED <<registry, dead, official, job, failures, replays>>
      BY <1>4 DEF LeaseExpires
    <2>2. next \in InboxType
          /\ Fields(next, inbox[e].status, inbox[e].stage, inbox[e].owner, TRUE,
                    inbox[e].payload, inbox[e].intent)
      BY <1>1, ClockFields, Zenon
    <2> HIDE DEF next
    <2>3. /\ RowSound(next, registry[e], dead[e], official[e])
          /\ NoRegression(inbox[e], next) /\ FenceKept(inbox[e], next)
      BY <1>1, <2>2, ExpirySound, Zenon
    <2> QED BY <2>1, <2>2, <2>3, InboxOnlyStep, Zenon
  <1>5. CASE RetentionEnds(e)
    <2> DEFINE next == [inbox[e] EXCEPT !.purgeDue = TRUE]
    <2>1. inbox' = [inbox EXCEPT ![e] = next]
          /\ UNCHANGED <<registry, dead, official, job, failures, replays>>
      BY <1>5 DEF RetentionEnds
    <2>2. next \in InboxType
          /\ Fields(next, inbox[e].status, inbox[e].stage, inbox[e].owner, inbox[e].expired,
                    inbox[e].payload, inbox[e].intent)
      BY <1>1, ClockFields, Zenon DEF InboxType
    <2> HIDE DEF next
    <2>3. /\ RowSound(next, registry[e], dead[e], official[e])
          /\ NoRegression(inbox[e], next) /\ FenceKept(inbox[e], next)
      BY <1>1, <2>2, ClockSound, Zenon
    <2> QED BY <2>1, <2>2, <2>3, InboxOnlyStep, Zenon
  <1>6. CASE PurgePayload(e)
    <2> DEFINE next == [inbox[e] EXCEPT !.payload = FALSE]
    <2>1. inbox' = [inbox EXCEPT ![e] = next]
          /\ UNCHANGED <<registry, dead, official, job, failures, replays>>
          /\ inbox[e].status = "completed" /\ dead[e].open = 0 /\ dead[e].queued = 0
      BY <1>6 DEF PurgePayload, Purgeable
    <2>2. next \in InboxType
          /\ Fields(next, inbox[e].status, inbox[e].stage, inbox[e].owner, inbox[e].expired,
                    FALSE, inbox[e].intent)
      BY <1>1, ClockFields, Zenon
    <2> HIDE DEF next
    <2>3. /\ RowSound(next, registry[e], dead[e], official[e])
          /\ NoRegression(inbox[e], next) /\ FenceKept(inbox[e], next)
      BY <1>1, <2>1, <2>2, PurgeSound, Zenon
    <2> QED BY <2>1, <2>2, <2>3, InboxOnlyStep, Zenon
  <1> QED BY <1>2, <1>3, <1>4, <1>5, <1>6

-----------------------------------------------------------------------------
(* After a committed transaction the job has the given record, or failed.  *)
LEMMA RepliedJob ==
    ASSUME JobsTyped, failures \in 0..MaxFailures, NEW t \in Tokens, NEW next \in JobType,
           job[t].event \in Events, next.mode # "idle" => next.event \in Events,
           Replied(t, next)
    PROVE  /\ JobsTyped' /\ failures' \in 0..MaxFailures
           /\ \A s \in Tokens \ {t} : job'[s] = job[s]
           /\ job'[t] = next \/ job'[t].mode \in {"retry", "bury"}
  <1>1. CASE job' = [job EXCEPT ![t] = next] /\ failures' = failures
    BY <1>1 DEF JobsTyped
  <1>2. ASSUME NEW r \in BOOLEAN, failures < MaxFailures, failures' = failures + 1,
               job' = [job EXCEPT ![t] = Failed(job[t], r)]
        PROVE  /\ JobsTyped' /\ failures' \in 0..MaxFailures
               /\ \A s \in Tokens \ {t} : job'[s] = job[s]
               /\ job'[t].mode \in {"retry", "bury"}
    <2>1. failures' \in 0..MaxFailures
      BY <1>2, PipelineAssumption
    <2> QED BY <1>2, <2>1, FailedFields DEF JobsTyped
  <1> QED BY <1>1, <1>2 DEF Replied

(* A write of the row by its holder leaves jobs current: nobody else is    *)
(* fenced in, and the holder's next record has the new stage.              *)
LEMMA HolderStaysCurrent ==
    ASSUME JobsAreCurrent, JobsTyped, JobsTyped', NEW t \in Tokens, NEW e \in Events,
           \A d \in Events \ {e} : inbox'[d] = inbox[d],
           \A s : Fenced(inbox'[e], s) => s = t,
           \A s \in Tokens \ {t} : job'[s] = job[s],
           job'[t].mode \in {"waiting", "run"} =>
               job'[t].event = e /\ job'[t].stage = inbox'[e].stage
    PROVE  JobsAreCurrent'
  <1> SUFFICES ASSUME NEW s \in Tokens, job'[s].mode \in {"waiting", "run"},
                      Fenced(inbox'[job'[s].event], s)
               PROVE  inbox'[job'[s].event].stage = job'[s].stage
    BY DEF JobsAreCurrent, JobCurrent
  <1>1. CASE s = t
    BY <1>1
  <1>2. CASE s # t
    <2>1. job'[s] = job[s] /\ job[s].event \in Events
      BY <1>2 DEF JobsTyped
    <2>2. job[s].event # e
      BY <1>2, <2>1
    <2> QED BY <2>1, <2>2 DEF JobsAreCurrent, JobCurrent
  <1> QED BY <1>1, <1>2

(* The facts about a running job's row that the next lemmas start from.    *)
LEMMA RunningJob ==
    ASSUME PipelineInv, NEW t \in Tokens, job[t].mode # "idle"
    PROVE  LET e == job[t].event
           IN  /\ e \in Events /\ job[t] \in JobType
               /\ inbox[e] \in InboxType /\ registry[e] \in RegistryType
               /\ dead[e] \in DeadType /\ official[e] \in OfficialType
               /\ RowSound(inbox[e], registry[e], dead[e], official[e])
               /\ (job[t].mode = "run" /\ Fenced(inbox[e], t)) => inbox[e].stage = job[t].stage
  BY TypeParts
  DEF PipelineInv, JobsTyped, RowsTyped, RowsAreSound, JobsAreCurrent, JobCurrent

(* A checkpoint of a running job.                                          *)
LEMMA CheckpointStep ==
    ASSUME PipelineInv, NEW t \in Tokens, Checkpoint(t)
    PROVE  StepSound
  <1> DEFINE e == job[t].event
             row == inbox[e]
             stage == job[t].stage + 1
             next == Advanced(row, stage)
             reg == [registry[e] EXCEPT !.stage = stage]
             j == [job[t] EXCEPT !.stage = stage]
  <1>1. /\ job[t].mode = "run" /\ job[t].stage < quota_settled /\ Fenced(row, t)
        /\ inbox' = [inbox EXCEPT ![e] = next] /\ registry' = [registry EXCEPT ![e] = reg]
        /\ Replied(t, j) /\ UNCHANGED <<dead, official, replays>>
    BY DEF Checkpoint
  <1>2. /\ e \in Events /\ job[t] \in JobType /\ row \in InboxType
        /\ registry[e] \in RegistryType /\ dead[e] \in DeadType /\ official[e] \in OfficialType
        /\ RowSound(row, registry[e], dead[e], official[e]) /\ row.stage = job[t].stage
    BY <1>1, RunningJob
  <1>3. stage \in Stages /\ stage = row.stage + 1 /\ row.stage < quota_settled
    BY <1>1, <1>2 DEF InboxType, Stages
  <1>4. JobsTyped /\ RowsTyped /\ CountersTyped /\ JobsAreCurrent
    BY TypeParts DEF PipelineInv
  <1>5. /\ next \in InboxType
        /\ Fields(next, row.status, stage, row.owner, row.expired, row.payload, row.intent)
    BY <1>2, <1>3, AdvancedFields
  <1>6. reg \in RegistryType /\ reg.stage = stage
    BY <1>2, <1>3 DEF RegistryType
  <1>7. j \in JobType /\ j.mode = job[t].mode /\ j.event = e /\ j.stage = stage
    BY <1>2, <1>3, AdvancedJobFields
  <1> HIDE DEF next, reg, j, stage, row, e
  <1>8. /\ RowSound(next, reg, dead[e], official[e]) /\ NoRegression(row, next)
        /\ \A s : Fenced(next, s) => s = t
    <2>1. /\ reg.stage = row.stage + 1
          /\ Fields(next, row.status, row.stage + 1, row.owner, row.expired, row.payload,
                    row.intent)
      BY Zenon, <1>3, <1>5, <1>6
    <2>2. Fenced(row, t) BY Zenon, <1>1
    <2> QED BY ONLY t \in Tokens, <1>2, <1>3, <1>5, <1>6, <2>1, <2>2, CheckpointSound
  <1>9. job[t].event \in Events
    BY <1>2 DEF e
  <1>10. /\ JobsTyped' /\ failures' \in 0..MaxFailures
         /\ \A s \in Tokens \ {t} : job'[s] = job[s]
         /\ job'[t] = j \/ job'[t].mode \in {"retry", "bury"}
    BY <1>1, <1>2, <1>4, <1>7, <1>9, RepliedJob DEF CountersTyped
  <1>11. inbox[e] = row /\ next.stage = stage
    BY <1>5 DEF row, Fields
  <1>12. RowsTyped' /\ CountersTyped'
    BY <1>1, <1>2, <1>4, <1>5, <1>6, <1>10 DEF RowsTyped, CountersTyped
  <1>13. /\ inbox'[e] = next /\ registry'[e] = reg /\ dead'[e] = dead[e]
         /\ official'[e] = official[e]
         /\ \A d \in Events \ {e} : /\ inbox'[d] = inbox[d] /\ registry'[d] = registry[d]
                                   /\ dead'[d] = dead[d] /\ official'[d] = official[d]
    BY <1>1, <1>2, <1>4 DEF RowsTyped
  <1>14. JobsAreCurrent'
    <2>1. job'[t].mode \in {"waiting", "run"} =>
              job'[t].event = e /\ job'[t].stage = inbox'[e].stage
      BY ZenonT(60), <1>7, <1>10, <1>11, <1>13
    <2>2. \A s : Fenced(inbox'[e], s) => s = t BY Zenon, <1>8, <1>13
    <2> QED BY ZenonT(60), <1>2, <1>4, <1>10, <1>13, <2>1, <2>2, HolderStaysCurrent
  <1> QED BY <1>2, <1>8, <1>10, <1>11, <1>12, <1>13, <1>14, OneRowStep

(* The official commit of a running job.                                   *)
LEMMA CommitStep ==
    ASSUME PipelineInv, NEW t \in Tokens, CommitOfficial(t)
    PROVE  StepSound
  <1> DEFINE e == job[t].event
             row == inbox[e]
             next == Advanced(row, outbox_created)
             reg == [registry[e] EXCEPT !.stage = outbox_created]
             j == [job[t] EXCEPT !.stage = outbox_created]
  <1>1. /\ job[t].mode = "run" /\ job[t].stage \in quota_settled..official_committed
        /\ Fenced(row, t)
        /\ inbox' = [inbox EXCEPT ![e] = next] /\ registry' = [registry EXCEPT ![e] = reg]
        /\ Replied(t, j) /\ UNCHANGED <<dead, replays>>
    BY Zenon DEF CommitOfficial
  <1>2. PICK mapped \in BOOLEAN, price \in Prices :
            official' = [official EXCEPT ![e] = Commit(official[e], mapped, price)]
    BY ZenonT(60) DEF CommitOfficial
  <1> DEFINE o == Commit(official[e], mapped, price)
  <1>3. /\ e \in Events /\ job[t] \in JobType /\ row \in InboxType
        /\ registry[e] \in RegistryType /\ dead[e] \in DeadType /\ official[e] \in OfficialType
        /\ RowSound(row, registry[e], dead[e], official[e]) /\ row.stage = job[t].stage
    BY <1>1, RunningJob
  <1>4. outbox_created \in Stages /\ row.stage <= official_committed
    BY <1>1, <1>3 DEF InboxType, Stages
  <1>5. JobsTyped /\ RowsTyped /\ CountersTyped /\ JobsAreCurrent
    BY TypeParts DEF PipelineInv
  <1>6. /\ next \in InboxType
        /\ Fields(next, row.status, outbox_created, row.owner, row.expired, row.payload, row.intent)
    BY <1>3, <1>4, AdvancedFields
  <1>7. reg \in RegistryType /\ reg.stage = outbox_created
    BY <1>3, <1>4 DEF RegistryType
  <1>8. j \in JobType /\ j.mode = job[t].mode /\ j.event = e /\ j.stage = outbox_created
    BY <1>3, <1>4, AdvancedJobFields
  <1>9. o \in OfficialType /\ o.projected /\ o.published = o.rating
    BY <1>3, CommittedFields DEF RowSound
  <1>10. official' = [official EXCEPT ![e] = o]
    BY <1>2
  <1> HIDE DEF next, reg, j, o, row, e
  <1>11. /\ RowSound(next, reg, dead[e], o) /\ NoRegression(row, next)
         /\ \A s : Fenced(next, s) => s = t
    BY <1>1, <1>3, <1>4, <1>6, <1>7, <1>9, CommitSound
  <1>12. job[t].event \in Events
    BY <1>3 DEF e
  <1>13. /\ JobsTyped' /\ failures' \in 0..MaxFailures
         /\ \A s \in Tokens \ {t} : job'[s] = job[s]
         /\ job'[t] = j \/ job'[t].mode \in {"retry", "bury"}
    BY <1>1, <1>3, <1>5, <1>8, <1>12, RepliedJob DEF CountersTyped
  <1>14. inbox[e] = row /\ next.stage = outbox_created
    BY <1>6 DEF row, Fields
  <1>15. RowsTyped' /\ CountersTyped'
    BY <1>1, <1>3, <1>5, <1>6, <1>7, <1>9, <1>10, <1>13 DEF RowsTyped, CountersTyped
  <1>16. /\ inbox'[e] = next /\ registry'[e] = reg /\ dead'[e] = dead[e] /\ official'[e] = o
         /\ \A d \in Events \ {e} : /\ inbox'[d] = inbox[d] /\ registry'[d] = registry[d]
                                   /\ dead'[d] = dead[d] /\ official'[d] = official[d]
    BY <1>1, <1>3, <1>5, <1>10 DEF RowsTyped
  <1>17. JobsAreCurrent'
    BY <1>3, <1>5, <1>8, <1>11, <1>13, <1>14, <1>16, HolderStaysCurrent
  <1> QED BY <1>3, <1>11, <1>13, <1>14, <1>15, <1>16, <1>17, OneRowStep

(* The completion of a running job.                                        *)
LEMMA CompleteStep ==
    ASSUME PipelineInv, NEW t \in Tokens, Complete(t)
    PROVE  StepSound
  <1> DEFINE e == job[t].event
             row == inbox[e]
             next == CompletedRow(row)
             reg == [registry[e] EXCEPT !.stage = completed]
             letters == [dead[e] EXCEPT !.queued = 0]
  <1>1. /\ job[t].mode = "run" /\ job[t].stage >= outbox_created /\ Fenced(row, t)
        /\ inbox' = [inbox EXCEPT ![e] = next] /\ registry' = [registry EXCEPT ![e] = reg]
        /\ dead' = [dead EXCEPT ![e] = letters]
        /\ Replied(t, NoJob) /\ UNCHANGED <<official, replays>>
    BY DEF Complete
  <1>2. /\ e \in Events /\ job[t] \in JobType /\ row \in InboxType
        /\ registry[e] \in RegistryType /\ dead[e] \in DeadType /\ official[e] \in OfficialType
        /\ RowSound(row, registry[e], dead[e], official[e]) /\ row.stage = job[t].stage
    BY <1>1, RunningJob
  <1>3. completed \in Stages /\ row.stage \in {outbox_created, completed}
    BY <1>1, <1>2 DEF InboxType, Stages, RowSound, Fenced
  <1>4. JobsTyped /\ RowsTyped /\ CountersTyped
    BY TypeParts DEF PipelineInv
  <1>5. /\ next \in InboxType
        /\ Fields(next, "completed", completed, row.owner, row.expired, row.payload, None)
    BY <1>2, CompletedFields
  <1>6. reg \in RegistryType /\ reg.stage = completed
    BY <1>2, <1>3 DEF RegistryType
  <1>7. letters \in DeadType /\ letters.queued = 0
    BY <1>2 DEF DeadType
  <1> HIDE DEF next, reg, letters, row, e
  <1>8. RowSound(next, reg, letters, official[e]) /\ NoRegression(row, next) /\ FenceKept(row, next)
    BY <1>1, <1>2, <1>3, <1>5, <1>6, <1>7, CompleteSound
  <1>9. job[t].event \in Events
    BY <1>2 DEF e
  <1>10. /\ JobsTyped' /\ failures' \in 0..MaxFailures
         /\ \A s \in Tokens \ {t} : job'[s] = job[s]
         /\ job'[t].mode \notin {"waiting", "run"}
    BY <1>1, <1>4, <1>9, NoJobType, RepliedJob DEF CountersTyped
  <1>11. RowsTyped' /\ CountersTyped'
    BY <1>1, <1>2, <1>4, <1>5, <1>6, <1>7, <1>10 DEF RowsTyped, CountersTyped
  <1>12. /\ inbox'[e] = next /\ registry'[e] = reg /\ dead'[e] = letters
         /\ official'[e] = official[e] /\ inbox[e] = row
         /\ \A d \in Events \ {e} : /\ inbox'[d] = inbox[d] /\ registry'[d] = registry[d]
                                   /\ dead'[d] = dead[d] /\ official'[d] = official[d]
    BY <1>1, <1>2, <1>4 DEF RowsTyped, row
  <1> QED BY <1>2, <1>8, <1>10, <1>11, <1>12, OneRowQuietStep

(* A retry scheduled by a failed job.                                      *)
LEMMA RetryStep ==
    ASSUME PipelineInv, NEW t \in Tokens, Retry(t)
    PROVE  StepSound
  <1> DEFINE e == job[t].event
             row == inbox[e]
             next == RetriedRow(row)
  <1>1. /\ job[t].mode = "retry" /\ Fenced(row, t)
        /\ inbox' = [inbox EXCEPT ![e] = next] /\ job' = [job EXCEPT ![t] = NoJob]
        /\ UNCHANGED <<registry, dead, official, failures, replays>>
    BY DEF Retry
  <1>2. /\ e \in Events /\ row \in InboxType
        /\ registry[e] \in RegistryType /\ dead[e] \in DeadType /\ official[e] \in OfficialType
        /\ RowSound(row, registry[e], dead[e], official[e])
    BY <1>1, RunningJob
  <1>3. JobsTyped /\ RowsTyped /\ CountersTyped
    BY TypeParts DEF PipelineInv
  <1>4. /\ next \in InboxType
        /\ Fields(next, "failed", row.stage, row.owner, row.expired, row.payload, row.intent)
    BY <1>2, RetriedFields
  <1> HIDE DEF next, row, e
  <1>5. /\ RowSound(next, registry[e], dead[e], official[e])
        /\ NoRegression(row, next) /\ FenceKept(row, next)
    BY <1>1, <1>2, <1>4, RetrySound
  <1>6. JobsTyped' /\ \A s \in Tokens : job'[s] = job[s] \/ job'[s].mode = "idle"
    BY <1>1, <1>3, NoJobType DEF JobsTyped
  <1>7. RowsTyped' /\ CountersTyped'
    BY <1>1, <1>2, <1>3, <1>4 DEF RowsTyped, CountersTyped
  <1>8. /\ inbox'[e] = next /\ inbox[e] = row
        /\ registry'[e] = registry[e] /\ dead'[e] = dead[e] /\ official'[e] = official[e]
        /\ \A d \in Events \ {e} : /\ inbox'[d] = inbox[d] /\ registry'[d] = registry[d]
                                  /\ dead'[d] = dead[d] /\ official'[d] = official[d]
    BY <1>1, <1>2, <1>3 DEF RowsTyped, row
  <1> QED BY <1>2, <1>5, <1>6, <1>7, <1>8, OneRowQuietStep

(* A dead letter written by a failed job.                                  *)
LEMMA DeadLetterStep ==
    ASSUME PipelineInv, NEW t \in Tokens, DeadLetter(t)
    PROVE  StepSound
  <1> DEFINE e == job[t].event
             row == inbox[e]
             next == BuriedRow(row)
             reg == [registry[e] EXCEPT !.stage = dead_letter]
             letters == Buried(dead[e])
  <1>1. /\ job[t].mode = "bury" /\ Fenced(row, t)
        /\ inbox' = [inbox EXCEPT ![e] = next] /\ registry' = [registry EXCEPT ![e] = reg]
        /\ dead' = [dead EXCEPT ![e] = letters] /\ job' = [job EXCEPT ![t] = NoJob]
        /\ UNCHANGED <<official, failures, replays>>
    BY DEF DeadLetter
  <1>2. /\ e \in Events /\ row \in InboxType
        /\ registry[e] \in RegistryType /\ dead[e] \in DeadType /\ official[e] \in OfficialType
        /\ RowSound(row, registry[e], dead[e], official[e])
    BY <1>1, RunningJob
  <1>3. JobsTyped /\ RowsTyped /\ CountersTyped
    BY TypeParts DEF PipelineInv
  <1>4. /\ next \in InboxType
        /\ Fields(next, "dead_letter", dead_letter, row.owner, row.expired, row.payload, row.intent)
    BY <1>2, BuriedFields
  <1>5. reg \in RegistryType /\ reg.stage = dead_letter
    BY <1>2 DEF RegistryType, Stages
  <1>6. letters \in DeadType /\ letters.queued = 0
    BY <1>2 DEF DeadType, Buried
  <1> HIDE DEF next, reg, letters, row, e
  <1>7. RowSound(next, reg, letters, official[e]) /\ NoRegression(row, next) /\ FenceKept(row, next)
    BY <1>1, <1>2, <1>4, <1>5, <1>6, BurySound
  <1>8. JobsTyped' /\ \A s \in Tokens : job'[s] = job[s] \/ job'[s].mode = "idle"
    BY <1>1, <1>3, NoJobType DEF JobsTyped
  <1>9. RowsTyped' /\ CountersTyped'
    BY <1>1, <1>2, <1>3, <1>4, <1>5, <1>6 DEF RowsTyped, CountersTyped
  <1>10. /\ inbox'[e] = next /\ inbox[e] = row
         /\ registry'[e] = reg /\ dead'[e] = letters /\ official'[e] = official[e]
         /\ \A d \in Events \ {e} : /\ inbox'[d] = inbox[d] /\ registry'[d] = registry[d]
                                   /\ dead'[d] = dead[d] /\ official'[d] = official[d]
    BY <1>1, <1>2, <1>3 DEF RowsTyped, row
  <1> QED BY <1>2, <1>7, <1>8, <1>9, <1>10, OneRowQuietStep

(* A replay from the dead-letter console.                                  *)
LEMMA ReplayStep ==
    ASSUME PipelineInv, NEW e \in Events, ReplayDeadLetter(e)
    PROVE  StepSound
  <1> DEFINE row == inbox[e]
             next == Requeued(row, row.intent)
             reg == [registry[e] EXCEPT !.stage = received]
             letters == [open |-> dead[e].open - 1, queued |-> dead[e].queued + 1]
  <1>1. /\ dead[e].open > 0 /\ row.payload
        /\ inbox' = [inbox EXCEPT ![e] = next] /\ registry' = [registry EXCEPT ![e] = reg]
        /\ dead' = [dead EXCEPT ![e] = letters]
        /\ replays < MaxReplays /\ replays' = replays + 1 /\ UNCHANGED <<official, job, failures>>
    BY DEF ReplayDeadLetter, Replayable
  <1>2. JobsTyped /\ RowsTyped /\ CountersTyped
    BY TypeParts DEF PipelineInv
  <1>3. /\ row \in InboxType /\ row.intent \in ReplayTypes \cup {None}
        /\ registry[e] \in RegistryType /\ dead[e] \in DeadType /\ official[e] \in OfficialType
        /\ RowSound(row, registry[e], dead[e], official[e])
    BY <1>2 DEF PipelineInv, RowsTyped, RowsAreSound, InboxType
  <1>4. /\ next \in InboxType
        /\ IsRequeued(next, row, row.intent)
    BY <1>3, RequeuedFields
  <1>5. reg \in RegistryType /\ reg.stage = received
    BY <1>3 DEF RegistryType, Stages
  <1>6. letters \in DeadType
    BY <1>1, <1>3 DEF DeadType
  <1> HIDE DEF next, reg, letters, row
  <1>7. RowSound(next, reg, letters, official[e]) /\ NoRegression(row, next) /\ FenceKept(row, next)
    BY <1>1, <1>3, <1>4, <1>5, <1>6, RequeueSound
  <1>8. CountersTyped'
    BY <1>1, <1>2, PipelineAssumption DEF CountersTyped
  <1>9. RowsTyped' /\ JobsTyped'
    BY <1>1, <1>2, <1>4, <1>5, <1>6 DEF RowsTyped, JobsTyped
  <1>10. /\ inbox'[e] = next /\ inbox[e] = row
         /\ registry'[e] = reg /\ dead'[e] = letters /\ official'[e] = official[e]
         /\ \A d \in Events \ {e} : /\ inbox'[d] = inbox[d] /\ registry'[d] = registry[d]
                                   /\ dead'[d] = dead[d] /\ official'[d] = official[d]
    BY <1>1, <1>2 DEF RowsTyped, row
  <1> QED BY <1>1, <1>7, <1>8, <1>9, <1>10, OneRowQuietStep

(* The acknowledgement of the raw rows.                                    *)
LEMMA RawDeliveredStep ==
    ASSUME PipelineInv, NEW e \in Events, RawDelivered(e)
    PROVE  StepSound
  <1> DEFINE reg == [registry[e] EXCEPT !.rawSynced = TRUE]
  <1>1. /\ registry' = [registry EXCEPT ![e] = reg]
        /\ UNCHANGED <<inbox, dead, official, job, failures, replays>>
    BY DEF RawDelivered
  <1>2. JobsTyped /\ RowsTyped /\ CountersTyped
    BY TypeParts DEF PipelineInv
  <1>3. reg \in RegistryType /\ reg.stage = registry[e].stage
    BY ZenonT(60), <1>2 DEF RowsTyped, RegistryType
  <1>4. inbox[e] \in InboxType /\ RowSound(inbox[e], registry[e], dead[e], official[e])
    BY <1>2 DEF PipelineInv, RowsTyped, RowsAreSound
  <1> HIDE DEF reg
  <1>5. RowSound(inbox[e], reg, dead[e], official[e])
    BY <1>3, <1>4 DEF RowSound
  <1>6. RowsTyped' /\ JobsTyped' /\ CountersTyped'
    BY <1>1, <1>2, <1>3 DEF RowsTyped, JobsTyped, CountersTyped
  <1>7. registry'[e] = reg /\ \A d \in Events \ {e} : registry'[d] = registry[d]
    BY <1>1, <1>2 DEF RowsTyped
  <1> QED BY <1>1, <1>4, <1>5, <1>6, <1>7, UnwrittenRow, OneRowQuietStep

-----------------------------------------------------------------------------
(* A step that writes several inbox rows and leaves each of them sound.    *)
LEMMA ManyRowsStep ==
    ASSUME PipelineInv, inbox' \in [Events -> InboxType], UNCHANGED <<registry, dead, official>>,
           JobsTyped', CountersTyped', JobsAreCurrent',
           \A e \in Events : /\ RowSound(inbox'[e], registry[e], dead[e], official[e])
                             /\ NoRegression(inbox[e], inbox'[e])
    PROVE  StepSound
  <1>1. RowsTyped
    BY TypeParts DEF PipelineInv
  <1>2. RowsTyped'
    BY <1>1 DEF RowsTyped
  <1>3. RowsAreSound'
    BY DEF RowsAreSound
  <1>4. TypeOK'
    BY <1>2, TypeParts, PTL
  <1> QED BY <1>3, <1>4 DEF StepSound, PipelineInv

(* A reconciliation replay.                                                *)
LEMMA ResetStep ==
    ASSUME PipelineInv, NEW range \in SUBSET Events, NEW type \in ReplayTypes,
           ResetInbox(range, type)
    PROVE  StepSound
  <1>1. JobsTyped /\ RowsTyped /\ CountersTyped /\ JobsAreCurrent /\ RowsAreSound
    BY TypeParts DEF PipelineInv
  <1>2. /\ inbox' = [e \in Events |-> IF e \in range /\ Resettable(inbox[e])
                                    THEN Requeued(inbox[e], type) ELSE inbox[e]]
        /\ replays < MaxReplays /\ replays' = replays + 1
        /\ UNCHANGED <<registry, dead, official, job, failures>>
    BY DEF ResetInbox
  <1>3. type # None
    BY PipelineAssumption
  <1>4. ASSUME NEW e \in Events
        PROVE  /\ inbox'[e] \in InboxType
               /\ RowSound(inbox'[e], registry[e], dead[e], official[e])
               /\ NoRegression(inbox[e], inbox'[e]) /\ FenceKept(inbox[e], inbox'[e])
    <2>1. /\ inbox[e] \in InboxType /\ registry[e] \in RegistryType /\ dead[e] \in DeadType
          /\ official[e] \in OfficialType
          /\ RowSound(inbox[e], registry[e], dead[e], official[e])
      BY <1>1 DEF RowsTyped, RowsAreSound
    <2>2. CASE e \in range /\ Resettable(inbox[e])
      <3> DEFINE next == Requeued(inbox[e], type)
      <3>1. inbox'[e] = next /\ inbox[e].payload
        BY <1>2, <2>2 DEF Resettable
      <3>2. /\ next \in InboxType
            /\ IsRequeued(next, inbox[e], type)
        BY <2>1, RequeuedFields
      <3> HIDE DEF next
      <3>3. /\ RowSound(next, registry[e], dead[e], official[e])
            /\ NoRegression(inbox[e], next) /\ FenceKept(inbox[e], next)
        BY <1>3, <2>1, <3>1, <3>2, RequeueSound
      <3> QED BY <3>1, <3>2, <3>3
    <2>3. CASE ~(e \in range /\ Resettable(inbox[e]))
      <3>1. inbox'[e] = inbox[e]
        BY <1>2, <2>3
      <3> QED BY <2>1, <3>1, UnwrittenRow
    <2> QED BY <2>2, <2>3
  <1>5. inbox' \in [Events -> InboxType]
    BY <1>2, <1>4
  <1>6. CountersTyped'
    BY <1>1, <1>2, PipelineAssumption DEF CountersTyped
  <1>7. JobsTyped' /\ \A t \in Tokens : job'[t] = job[t]
    BY <1>1, <1>2 DEF JobsTyped
  <1>8. JobsAreCurrent'
    BY SMTT(60), <1>1, <1>4, <1>7, JobsStayCurrent
  <1> QED BY <1>2, <1>4, <1>5, <1>6, <1>7, <1>8, ManyRowsStep

(* A lease of a batch.                                                     *)
LEMMA LeaseStep ==
    ASSUME PipelineInv, NEW w \in Workers, LeaseInbox(w)
    PROVE  StepSound
  <1>1. JobsTyped /\ RowsTyped /\ CountersTyped /\ JobsAreCurrent /\ RowsAreSound
    BY TypeParts DEF PipelineInv
  <1>2. PICK S \in SUBSET {e \in Events : Candidate(inbox[e])} :
            \E token \in [S -> {t \in Tokens : Unused(t)}] :
               /\ \A d, e \in S : token[d] = token[e] => d = e
               /\ inbox' = [e \in Events |->
                      IF e \in S THEN LeasedRow(inbox[e], token[e]) ELSE inbox[e]]
               /\ job' = IF \A e \in S : inbox[e].payload
                         THEN [t \in Tokens |->
                                  IF \E e \in S : token[e] = t
                                  THEN LET e == CHOOSE x \in S : token[x] = t
                                       IN  LeasedJob(w, e, inbox[e])
                                  ELSE job[t]]
                         ELSE job
    BY ZenonT(60) DEF LeaseInbox
  <1>3. PICK token \in [S -> {t \in Tokens : Unused(t)}] :
               /\ \A d, e \in S : token[d] = token[e] => d = e
               /\ inbox' = [e \in Events |->
                      IF e \in S THEN LeasedRow(inbox[e], token[e]) ELSE inbox[e]]
               /\ job' = IF \A e \in S : inbox[e].payload
                         THEN [t \in Tokens |->
                                  IF \E e \in S : token[e] = t
                                  THEN LET e == CHOOSE x \in S : token[x] = t
                                       IN  LeasedJob(w, e, inbox[e])
                                  ELSE job[t]]
                         ELSE job
    BY ZenonT(60), <1>2
  <1>4. UNCHANGED <<registry, dead, official, failures, replays>>
    BY DEF LeaseInbox
  <1>5. ASSUME NEW e \in S
        PROVE  /\ e \in Events /\ Candidate(inbox[e]) /\ token[e] \in Tokens
               /\ job[token[e]].mode = "idle" /\ inbox'[e] = LeasedRow(inbox[e], token[e])
    BY <1>3 DEF Unused
  <1>6. ASSUME NEW e \in Events \ S PROVE inbox'[e] = inbox[e]
    BY SMTT(60), <1>3
  <1>7. ASSUME NEW e \in S
        PROVE  /\ inbox'[e] \in InboxType /\ inbox'[e].stage = inbox[e].stage
               /\ RowSound(inbox'[e], registry[e], dead[e], official[e])
               /\ NoRegression(inbox[e], inbox'[e])
               /\ \A s : Fenced(inbox'[e], s) => s = token[e]
    <2> DEFINE row == inbox[e]
               reg == registry[e]
               letters == dead[e]
               o == official[e]
               t == token[e]
               next == LeasedRow(row, t)
    <2>1. /\ row \in InboxType /\ reg \in RegistryType /\ letters \in DeadType
          /\ o \in OfficialType /\ RowSound(row, reg, letters, o)
          /\ Candidate(row) /\ t \in Tokens
      BY <1>1, <1>5 DEF RowsTyped, RowsAreSound
    <2>2. /\ next \in InboxType
          /\ IsLeased(next, row, t)
      BY <2>1, LeasedFields
    <2>3. inbox'[e] = next
      BY <1>5
    <2> HIDE DEF next, t, o, letters, reg, row
    <2>4. next.stage = row.stage
      BY <2>2 DEF IsLeased, Fields
    <2>5. /\ RowSound(next, reg, letters, o) /\ NoRegression(row, next)
          /\ \A s : Fenced(next, s) => s = t
      BY <2>1, <2>2, LeaseSound
    <2> QED BY <2>2, <2>3, <2>4, <2>5 DEF t, o, letters, reg, row
  <1>8. ASSUME NEW e \in Events
        PROVE  /\ inbox'[e] \in InboxType
               /\ RowSound(inbox'[e], registry[e], dead[e], official[e])
               /\ NoRegression(inbox[e], inbox'[e])
    <2>1. CASE e \in S
      BY <1>7, <2>1
    <2>2. CASE e \notin S
      BY SMTT(60), <1>1, <1>6, <2>2, UnwrittenRow DEF RowsTyped, RowsAreSound
    <2> QED BY <2>1, <2>2
  <1>9. inbox' \in [Events -> InboxType]
    BY <1>3, <1>8
  <1>10. ASSUME NEW t \in Tokens
         PROVE  \/ job'[t] = job[t]
                \/ \E e \in S : token[e] = t /\ job'[t] = LeasedJob(w, e, inbox[e])
    BY <1>3
  <1>11. ASSUME NEW t \in Tokens
         PROVE  \/ job'[t] = job[t]
                \/ \E e \in S : /\ token[e] = t /\ job'[t] \in JobType /\ job'[t].event = e
                                /\ job'[t].mode = "waiting" /\ job'[t].stage = inbox[e].stage
    <2>1. ASSUME NEW e \in S, job'[t] = LeasedJob(w, e, inbox[e])
          PROVE  /\ job'[t] \in JobType /\ job'[t].event = e
                 /\ job'[t].mode = "waiting" /\ job'[t].stage = inbox[e].stage
      <3>1. inbox[e] \in InboxType /\ e \in Events BY <1>1, <1>5 DEF RowsTyped
      <3> QED BY <2>1, <3>1, LeasedJobFields
    <2> QED BY SMTT(60), <1>10, <2>1
  <1>12. job' = [t \in Tokens |-> job'[t]]
    BY <1>1, <1>3 DEF JobsTyped
  <1>13. JobsTyped'
    <2>1. ASSUME NEW t \in Tokens
          PROVE  job'[t] \in JobType /\ (job'[t].mode # "idle" => job'[t].event \in Events)
      BY <1>1, <1>5, <1>11 DEF JobsTyped
    <2> QED BY <1>12, <2>1 DEF JobsTyped
  <1>14. JobsAreCurrent'
    <2> SUFFICES ASSUME NEW t \in Tokens, job'[t].mode \in {"waiting", "run"},
                        Fenced(inbox'[job'[t].event], t)
                 PROVE  inbox'[job'[t].event].stage = job'[t].stage
      BY DEF JobsAreCurrent, JobCurrent
    <2>1. CASE \E e \in S : job'[t].event = e /\ job'[t].stage = inbox[e].stage
      BY <1>7, <2>1
    <2>2. CASE job'[t] = job[t]
      <3>1. job[t].event \in Events
        BY SMTT(60), <1>1, <2>2 DEF JobsTyped
      <3>2. CASE job[t].event \in S
        BY ZenonT(60), <1>5, <1>7, <2>2, <3>2
      <3>3. CASE job[t].event \notin S
        BY <1>1, <1>6, <2>2, <3>1, <3>3 DEF JobsAreCurrent, JobCurrent
      <3> QED BY <3>2, <3>3
    <2> QED BY <1>11, <2>1, <2>2
  <1>15. CountersTyped'
    BY <1>1, <1>4 DEF CountersTyped
  <1> QED BY <1>4, <1>8, <1>9, <1>13, <1>14, <1>15, ManyRowsStep

-----------------------------------------------------------------------------
(* Initially no row exists and no job runs.                                *)
LEMMA InitSound ==
    ASSUME Init PROVE PipelineInv
  <1>1. NoRow \in InboxType /\ Fields(NoRow, "absent", received, None, FALSE, FALSE, None)
    BY PipelineAssumption DEF NoRow, InboxType, Stages, Fields
  <1>2. ASSUME NEW e \in Events
        PROVE  /\ inbox[e] = NoRow /\ registry[e].stage = received /\ ~official[e].projected
               /\ dead[e].queued = 0 /\ official[e].published = official[e].rating
    BY DEF Init
  <1>3. RowsTyped
    BY <1>1 DEF Init, RowsTyped, RegistryType, DeadType, OfficialType, Stages
  <1>4. JobsTyped
    BY NoJobType DEF Init, JobsTyped
  <1>5. CountersTyped
    BY PipelineAssumption DEF Init, CountersTyped
  <1>6. JobsAreCurrent
    BY NoJobType DEF Init, JobsAreCurrent, JobCurrent
  <1>7. RowsAreSound
    <2> SUFFICES ASSUME NEW e \in Events
                 PROVE  RowSound(inbox[e], registry[e], dead[e], official[e])
      BY DEF RowsAreSound
    <2> QED BY <1>1, <1>2 DEF RowSound, Fields
  <1> QED BY <1>3, <1>4, <1>5, <1>6, <1>7, TypeParts DEF PipelineInv

(* Every step keeps the invariant and takes no row back.                   *)
LEMMA NextSound ==
    ASSUME PipelineInv, [Next]_vars
    PROVE  StepSound
  <1>1. CASE \E w \in Workers : LeaseInbox(w) \/ Crash(w)
    BY <1>1, LeaseStep, CrashStep
  <1>2. CASE \E t \in Tokens : JobStep(t)
    BY <1>2, JobSteps, CheckpointStep, CommitStep, CompleteStep, RetryStep, DeadLetterStep
    DEF JobStep
  <1>3. CASE \E e \in Events : RowStep(e)
    BY <1>3, InboxSteps, ReplayStep, RawDeliveredStep DEF RowStep
  <1>4. CASE \E range \in SUBSET Events, type \in ReplayTypes : ResetInbox(range, type)
    BY <1>4, ResetStep
  <1>5. CASE UNCHANGED vars
    <2>1. JobsTyped /\ RowsTyped /\ CountersTyped
      BY TypeParts DEF PipelineInv
    <2>2. JobsTyped' /\ CountersTyped'
      BY <1>5, <2>1 DEF JobsTyped, CountersTyped, vars
    <2> QED BY <1>5, <2>2, JobOnlyStep DEF vars
  <1> QED BY <1>1, <1>2, <1>3, <1>4, <1>5 DEF Next

(* The inductive invariant holds in every reachable state of the pipeline. *)
THEOREM PipelineIsSound == Spec => []PipelineInv
  <1>1. Init => PipelineInv
    BY InitSound
  <1>2. PipelineInv /\ [Next]_vars => PipelineInv'
    BY NextSound DEF StepSound
  <1> QED BY <1>1, <1>2, PTL DEF Spec

(* Rows, registry, dead letters, commits and jobs keep their types.        *)
THEOREM PipelineTypes == Spec => []TypeOK
  <1>1. PipelineInv => TypeOK
    BY DEF PipelineInv
  <1> QED BY <1>1, PipelineIsSound, PTL

(* No checkpoint of a worker, however late, takes a row back to an earlier *)
(* stage.                                                                  *)
THEOREM CheckpointsNeverRegress == Spec => StagesNeverRegress
  <1>1. PipelineInv /\ [Next]_vars =>
            [\A e \in Events : inbox'[e].stage < inbox[e].stage =>
                 inbox'[e].stage = received /\ inbox'[e].status = "pending"]_vars
    BY NextSound DEF StepSound, NoRegression
  <1> QED BY <1>1, PipelineIsSound, PTL DEF Spec, StagesNeverRegress

(* No event is completed without its outbox rows.                          *)
THEOREM CompletedReachesOutbox == Spec => []CompletedIsProjected
  <1>1. PipelineInv => CompletedIsProjected
    BY DEF PipelineInv, RowsAreSound, RowSound, CompletedIsProjected
  <1> QED BY <1>1, PipelineIsSound, PTL

(* No queued replay is lost.                                               *)
THEOREM ReplaysAreNotLost == Spec => []QueuedReplaysRun
  <1>1. PipelineInv => QueuedReplaysRun
    BY DEF PipelineInv, RowsAreSound, RowSound, QueuedReplaysRun
  <1> QED BY <1>1, PipelineIsSound, PTL

(* No payload is purged that a lease or a replay could still need.         *)
THEOREM PurgesAreFinal == Spec => []PurgedIsFinal
  <1>1. PipelineInv => PurgedIsFinal
    BY DEF PipelineInv, RowsAreSound, RowSound, PurgedIsFinal
  <1> QED BY <1>1, PipelineIsSound, PTL

(* The registry shows the stage of the row.                                *)
THEOREM RegistryAgrees == Spec => []RegistryFollowsInbox
  <1>1. PipelineInv => RegistryFollowsInbox
    BY DEF PipelineInv, RowsAreSound, RowSound, RegistryFollowsInbox
  <1> QED BY <1>1, PipelineIsSound, PTL

(* What is published is what was rated, through every replay.              *)
THEOREM PublishedIsRated == Spec => []PublishedMatchesRating
  <1>1. PipelineInv => PublishedMatchesRating
    BY DEF PipelineInv, RowsAreSound, RowSound, PublishedMatchesRating
  <1> QED BY <1>1, PipelineIsSound, PTL
==============================================================================
