----------------------- MODULE NewsletterSend_proofs -----------------------
(***************************************************************************)
(* Theorems about NewsletterSend, for every number of containers, retry    *)
(* requests, jobs, workers and parts of the audience, and every            *)
(* combination of faults, shutdowns and overlaps; then for containers,     *)
(* boot scans and retries that do not overlap, and for graceful exits.     *)
(***************************************************************************)
EXTENDS NewsletterSend, TLAPS

-----------------------------------------------------------------------------
(* Type correctness.  It needs WorkerHoldsBatch: `succeeded` collects what *)
(* the workers hold.                                                       *)

Typed == TypeOK /\ WorkerHoldsBatch

\* The initial state is type correct and no worker is busy.
LEMMA InitTyped == Init => Typed
<1> SUFFICES ASSUME Init PROVE Typed
  OBVIOUS
<1>1. TypeOK
  <2>1. /\ 0 \in Nat
        /\ batch \in [Batches -> BatchStatus]
        /\ worker \in [Slots -> WorkerState]
        /\ job \in [Jobs -> JobState]
    BY DEF Init, BatchStatus, WorkerState, JobState
  <2>2. QED
    BY <2>1 DEF Init, TypeOK, EmailStatus
<1>2. WorkerHoldsBatch
  BY DEF Init, WorkerHoldsBatch
<1> QED
  BY <1>1, <1>2 DEF Typed

\* The boot scan (resumeInterruptedSends) keeps the types.
LEMMA ResumeStepTyped ==
  ASSUME Typed, NEW p \in Procs, ResumeStep(p)
  PROVE  Typed'
<1> USE DEF Typed, TypeOK, EmailStatus, WorkerHoldsBatch,
            dbVars, mailVars, procVars, jobVars, workVars
<1>1. CASE ResumeScan(p)
  <2>1. /\ resume' \in [Procs -> {"idle", "scan", "expire", "revive", "schedule"}]
    BY <1>1, ConstantsAssumption DEF ResumeScan, VerdictKinds
  <2> QED
    BY <1>1, <2>1 DEF ResumeScan
<1>2. CASE ResumeGiveUp(p)
  BY <1>2 DEF ResumeGiveUp, EmailLock
<1>3. CASE ResumeFlip(p)
  BY <1>3 DEF ResumeFlip, EmailLock
<1>4. CASE ResumeSchedule(p)
  BY <1>4 DEF ResumeSchedule, ScheduleEmail, JobState
<1>5. CASE ResumeFails(p)
  BY <1>5 DEF ResumeFails, Fault
<1> QED
  BY <1>1, <1>2, <1>3, <1>4, <1>5 DEF ResumeStep

\* Every step of an email job (emailJob, sendEmail, createBatches) keeps the
\* types: what it queues and counts are batch rows.
LEMMA JobStepTyped ==
  ASSUME Typed, NEW j \in Jobs, JobStep(j)
  PROVE  Typed'
<1> USE DEF Typed, TypeOK, JobState, JobMoves,
            dbVars, mailVars, procVars, jobVars, workVars
<1>1. CASE JobStart(j)
  BY <1>1 DEF JobStart, EmailLock, EmailStatus, WorkerHoldsBatch
<1>2. CASE LoadBatches(j)
  <2>1. Present \in SUBSET Batches
    BY DEF Present
  <2>2. worker' \in [Slots -> WorkerState]
    BY <1>2 DEF LoadBatches, StartSending, WorkerState
  <2>3. WorkerHoldsBatch'
    BY <1>2 DEF LoadBatches, StartSending, WorkerHoldsBatch
  <2> QED
    BY <1>2, <2>1, <2>2, <2>3 DEF LoadBatches, StartSending
<1>3. CASE CreateBatch(j)
  <2>1. \A c \in Chunks : <<j, c>> \in Batches
    BY DEF Batches
  <2> QED
    BY <1>3, <2>1 DEF CreateBatch, BatchStatus, WorkerHoldsBatch
<1>4. CASE CreateDone(j)
  <2>2. worker' \in [Slots -> WorkerState]
    BY <1>4 DEF CreateDone, StartSending, WorkerState
  <2>3. WorkerHoldsBatch'
    BY <1>4 DEF CreateDone, StartSending, WorkerHoldsBatch
  <2> QED
    BY <1>4, <2>2, <2>3 DEF CreateDone, StartSending
<1>5. CASE PrepareFails(j)
  BY <1>5 DEF PrepareFails, Fault, HalfCreated, WorkerHoldsBatch
<1>6. CASE SendingDone(j)
  BY <1>6 DEF SendingDone, WorkerHoldsBatch
<1>7. CASE SaveSubmitted(j) \/ SaveFailed(j)
  BY <1>7 DEF SaveSubmitted, SaveFailed, EmailStatus, WorkerHoldsBatch
<1>8. CASE \/ JobStartFails(j) \/ SaveSubmittedFails(j) \/ SaveFailedFails(j)
           \/ FindNoBatches(j)
  BY <1>8
  DEF JobStartFails, SaveSubmittedFails, SaveFailedFails, FindNoBatches,
      Fault, WorkerHoldsBatch
<1> QED
  BY <1>1, <1>2, <1>3, <1>4, <1>5, <1>6, <1>7, <1>8 DEF JobStep

\* Every step of a worker (runWorker, sendBatch) keeps the types, and a worker
\* past the queue goes on holding a batch.
LEMMA WorkerStepTyped ==
  ASSUME Typed, NEW k \in Slots, WorkerStep(k)
  PROVE  Typed'
<1> USE DEF Typed, TypeOK, WorkerState, WorkerMoves, WorkerHoldsBatch,
            dbVars, mailVars, procVars, jobVars, workVars
<1>0. k[1] \in Jobs
  BY DEF Slots
<1>1. CASE TakeBatch(k)
  <2>1. holds' \in [Slots -> Batches \cup {NoBatch}] /\ holds'[k] \in Batches
    BY <1>0, <1>1 DEF TakeBatch
  <2>2. queue' \in [Jobs -> SUBSET Batches]
    BY <1>0, <1>1 DEF TakeBatch
  <2> QED
    BY <1>1, <2>1, <2>2 DEF TakeBatch
<1>2. CASE WorkerReturns(k)
  BY <1>2 DEF WorkerReturns
<1>3. CASE Claim(k)
  BY <1>3 DEF Claim, BatchStatus
<1>4. CASE SkipBatch(k)
  <2>1. holds[k] \in Batches
    BY <1>4 DEF SkipBatch
  <2> QED
    BY <1>0, <1>4, <2>1 DEF SkipBatch, BatchDone
<1>5. CASE ProviderAccepts(k)
  BY <1>5 DEF ProviderAccepts
<1>6. CASE ReplyArrives(k) \/ SendGivesUp(k)
  BY <1>6 DEF ReplyArrives, SendGivesUp
<1>7. CASE ReplyLost(k)
  BY <1>7 DEF ReplyLost, Fault
<1>8. CASE RecordSubmitted(k)
  BY <1>8 DEF RecordSubmitted, Fault, BatchStatus
<1>9. CASE RecordFailed(k)
  BY <1>9 DEF RecordFailed, BatchStatus
<1>10. CASE MarkProcessed(k)
  <2>1. holds[k] \in Batches
    BY <1>10 DEF MarkProcessed
  <2> QED
    BY <1>0, <1>10, <2>1 DEF MarkProcessed, BatchDone
<1>11. CASE WorkerThrows(k)
  BY <1>0, <1>11 DEF WorkerThrows, Fault, JobState
<1> QED
  BY <1>1, <1>2, <1>3, <1>4, <1>5, <1>6, <1>7, <1>8, <1>9, <1>10, <1>11
  DEF WorkerStep

\* Typed is inductive.
LEMMA NextTyped == Typed /\ [Next]_vars => Typed'
<1> SUFFICES ASSUME Typed, [Next]_vars PROVE Typed'
  OBVIOUS
<1> USE DEF Typed, TypeOK, WorkerHoldsBatch,
            dbVars, mailVars, procVars, jobVars, workVars
<1>1. ASSUME NEW p \in Procs, Boot(p) PROVE Typed'
  BY <1>1 DEF Boot
<1>2. ASSUME NEW p \in Procs, Shutdown(p) PROVE Typed'
  BY <1>2 DEF Shutdown
<1>3. ASSUME NEW p \in Procs, Exit(p) PROVE Typed'
  BY <1>3 DEF Exit, Kill, JobState, WorkerState
<1>4. ASSUME NEW p \in Procs, Crash(p) PROVE Typed'
  BY <1>4 DEF Crash, Kill, Fault, JobState, WorkerState
<1>5. ASSUME NEW p \in Procs, CreateEmail(p) PROVE Typed'
  BY <1>5 DEF CreateEmail, ScheduleEmail, Fault, EmailStatus, JobState
<1>6. ASSUME NEW q \in Requests, NEW p \in Procs, RetryRead(q, p)
      PROVE  Typed'
  BY <1>6 DEF RetryRead
<1>7. ASSUME NEW q \in Requests, RetryRefused(q) PROVE Typed'
  BY <1>7 DEF RetryRefused
<1>8. ASSUME NEW q \in Requests, RetrySave(q) PROVE Typed'
  BY <1>8 DEF RetrySave, ScheduleEmail, EmailStatus, JobState
<1>9. CASE UNCHANGED vars
  BY <1>9 DEF vars
<1> QED
  BY <1>1, <1>2, <1>3, <1>4, <1>5, <1>6, <1>7, <1>8, <1>9,
     ResumeStepTyped, JobStepTyped, WorkerStepTyped DEF Next

\* Every variable keeps its type, from the first state on.
THEOREM TypeCorrect == Spec => []TypeOK
<1>1. Typed => TypeOK
  BY DEF Typed
<1> QED
  BY InitTyped, NextTyped, <1>1, PTL DEF Spec

-----------------------------------------------------------------------------
(* Delivery.  Most steps are quiet: they change no batch row, reach no     *)
(* provider and make no worker an owner, and jobs only move forward.       *)

NoNewOwner ==
  \A k \in Slots : Owns(k)' => worker'[k] = worker[k] /\ holds'[k] = holds[k]

BeforeCreating == {"unused", "queued", "loading"}

JobsMoveOn ==
  \A j \in Jobs :
    /\ job'[j] \in BeforeCreating => job[j] \in BeforeCreating
    /\ job'[j] = "creating" =>
         \/ job[j] \in BeforeCreating
         \/ job[j] = "creating" /\ batches[j] \subseteq batches'[j]

QuietStep ==
  /\ UNCHANGED <<batch, accepted, lost>>
  /\ NoNewOwner
  /\ JobsMoveOn

\* The steps that are not quiet.
LoudStep ==
  \/ \E j \in Jobs : CreateBatch(j)
  \/ \E k \in Slots :
       \/ Claim(k) \/ ProviderAccepts(k) \/ ReplyArrives(k) \/ ReplyLost(k)
       \/ SendGivesUp(k) \/ RecordSubmitted(k) \/ RecordFailed(k)

\* An email job touches no batch row, but for creating new ones.
LEMMA JobStepQuietOrCreates ==
  ASSUME Typed, NEW j \in Jobs, JobStep(j)
  PROVE  QuietStep \/ CreateBatch(j)
<1> USE DEF Typed, TypeOK, QuietStep, NoNewOwner, Owns, JobsMoveOn,
            BeforeCreating, JobMoves, dbVars, mailVars, procVars, jobVars,
            workVars
<1>1. CASE JobStart(j) \/ JobStartFails(j) \/ FindNoBatches(j)
  BY <1>1 DEF JobStart, JobStartFails, FindNoBatches
<1>2. CASE LoadBatches(j)
  BY <1>2 DEF LoadBatches, StartSending
<1>3. CASE CreateDone(j)
  BY <1>3 DEF CreateDone, StartSending
<1>4. CASE PrepareFails(j) \/ SendingDone(j)
  BY <1>4 DEF PrepareFails, SendingDone
<1>5. CASE \/ SaveSubmitted(j) \/ SaveSubmittedFails(j)
           \/ SaveFailed(j) \/ SaveFailedFails(j)
  BY <1>5
  DEF SaveSubmitted, SaveSubmittedFails, SaveFailed, SaveFailedFails
<1> QED
  BY <1>1, <1>2, <1>3, <1>4, <1>5 DEF JobStep

\* A worker's steps are quiet unless they are among the seven that write a batch
\* row, reach the provider or move an owner.
LEMMA WorkerStepQuietOrLoud ==
  ASSUME Typed, NEW k \in Slots, WorkerStep(k)
  PROVE  QuietStep \/ LoudStep
<1> USE DEF Typed, TypeOK, QuietStep, NoNewOwner, Owns, JobsMoveOn,
            BeforeCreating, WorkerMoves, dbVars, mailVars, procVars, jobVars,
            workVars
<1>1. CASE TakeBatch(k) \/ WorkerReturns(k)
  BY <1>1 DEF TakeBatch, WorkerReturns
<1>2. CASE SkipBatch(k) \/ MarkProcessed(k)
  BY <1>2 DEF SkipBatch, MarkProcessed, BatchDone
<1>3. CASE WorkerThrows(k)
  BY <1>3 DEF WorkerThrows, JobState
<1> QED
  BY <1>1, <1>2, <1>3 DEF WorkerStep, LoudStep

\* Containers, boot scans and retries only take quiet steps: whatever happens to
\* batches is done by CreateBatch and the seven worker steps.
LEMMA NextQuietOrLoud == Typed /\ [Next]_vars => QuietStep \/ LoudStep
<1> SUFFICES ASSUME Typed, [Next]_vars PROVE QuietStep \/ LoudStep
  OBVIOUS
<1> USE DEF Typed, TypeOK, QuietStep, NoNewOwner, Owns, JobsMoveOn,
            BeforeCreating, dbVars, mailVars, procVars, jobVars, workVars
<1>1. ASSUME NEW p \in Procs, Boot(p) \/ Shutdown(p) PROVE QuietStep
  BY <1>1 DEF Boot, Shutdown
<1>2. ASSUME NEW p \in Procs, Exit(p) \/ Crash(p) PROVE QuietStep
  BY <1>2 DEF Exit, Crash, Kill
<1>3. ASSUME NEW p \in Procs, CreateEmail(p) PROVE QuietStep
  BY <1>3 DEF CreateEmail, ScheduleEmail
<1>4. ASSUME NEW p \in Procs, ResumeStep(p) PROVE QuietStep
  BY <1>4
  DEF ResumeStep, ResumeScan, ResumeGiveUp, ResumeFlip, ResumeSchedule,
      ResumeFails, ScheduleEmail
<1>5. ASSUME NEW q \in Requests, RetryRefused(q) \/ RetrySave(q)
      PROVE  QuietStep
  BY <1>5 DEF RetryRefused, RetrySave, ScheduleEmail
<1>6. ASSUME NEW q \in Requests, NEW p \in Procs, RetryRead(q, p)
      PROVE  QuietStep
  BY <1>6 DEF RetryRead
<1>7. CASE UNCHANGED vars
  BY <1>7 DEF vars
<1> QED
  BY <1>1, <1>2, <1>3, <1>4, <1>5, <1>6, <1>7, JobStepQuietOrCreates,
     WorkerStepQuietOrLoud DEF Next, LoudStep

-----------------------------------------------------------------------------
(* The invariant DeliveryInv is inductive.                                 *)

\* DeliveryInv holds before the email exists.
LEMMA InitDelivery == Init => DeliveryInv
<1> SUFFICES ASSUME Init PROVE DeliveryInv
  OBVIOUS
<1>1. TypeOK /\ WorkerHoldsBatch
  BY InitTyped DEF Typed
<1>2. \A k \in Slots : ~Owns(k)
  BY DEF Init, Owns
<1>3. RowTellsDelivery
  BY DEF Init, RowTellsDelivery
<1>4. RowsAreCreatedOnce
  BY DEF Init, RowsAreCreatedOnce, Batches
<1> QED
  BY <1>1, <1>2, <1>3, <1>4
  DEF DeliveryInv, OwnerHoldsLock, OneOwnerPerBatch, OwnerKnowsDelivery, Owns

\* A step that leaves rows, deliveries and owners alone keeps DeliveryInv.
LEMMA QuietStepKeepsDelivery ==
  ASSUME DeliveryInv, Typed', QuietStep
  PROVE  DeliveryInv'
<1> USE DEF DeliveryInv, QuietStep, NoNewOwner, Owns
<1>1. OwnerHoldsLock' /\ OneOwnerPerBatch'
  BY DEF OwnerHoldsLock, OneOwnerPerBatch
<1>2. RowTellsDelivery' /\ OwnerKnowsDelivery'
  BY DEF RowTellsDelivery, OwnerKnowsDelivery
<1>3. RowsAreCreatedOnce'
  BY DEF RowsAreCreatedOnce, JobsMoveOn, BeforeCreating
<1> QED
  BY <1>1, <1>2, <1>3 DEF Typed

\* createBatch adds a row nobody has seen, so it keeps DeliveryInv.
LEMMA CreateBatchKeepsDelivery ==
  ASSUME DeliveryInv, Typed', NEW j \in Jobs, CreateBatch(j)
  PROVE  DeliveryInv'
<1> USE DEF DeliveryInv, TypeOK, WorkerHoldsBatch, Owns,
            mailVars, procVars, workVars
<1>1. PICK c \in Chunks :
        /\ <<j, c>> \notin batches[j]
        /\ batch' = [batch EXCEPT ![<<j, c>>] = "pending"]
        /\ batches' = [batches EXCEPT ![j] = @ \cup {<<j, c>>}]
  BY DEF CreateBatch
<1>2. /\ <<j, c>> \in Batches
      /\ job[j] = "creating"
      /\ batch[<<j, c>>] = "absent"
      /\ UNCHANGED <<accepted, lost, worker, holds, job>>
  BY <1>1 DEF CreateBatch, RowsAreCreatedOnce, Batches
<1>3. OwnerHoldsLock'
  BY <1>1, <1>2 DEF OwnerHoldsLock
<1>4. OneOwnerPerBatch' /\ OwnerKnowsDelivery'
  BY <1>2 DEF OneOwnerPerBatch, OwnerKnowsDelivery
<1>5. RowTellsDelivery'
  BY <1>1, <1>2 DEF RowTellsDelivery
<1>6. RowsAreCreatedOnce'
  <2> SUFFICES ASSUME NEW i \in Jobs, NEW d \in Chunks,
                      batch'[<<i, d>>] # "absent"
               PROVE  /\ job[i] \notin {"unused", "queued", "loading"}
                      /\ job[i] = "creating" => <<i, d>> \in batches'[i]
    BY <1>2 DEF RowsAreCreatedOnce
  <2>1. CASE <<i, d>> = <<j, c>>
    BY <1>1, <1>2, <2>1
  <2>2. CASE <<i, d>> # <<j, c>>
    BY <1>1, <1>2, <2>2 DEF RowsAreCreatedOnce, Batches
  <2> QED
    BY <2>1, <2>2
<1> QED
  BY <1>3, <1>4, <1>5, <1>6 DEF Typed

\* The worker steps that write a row or reach the provider leave the jobs
\* alone and write only a row that exists.
LEMMA RowsStayCreatedOnce ==
  ASSUME RowsAreCreatedOnce, UNCHANGED jobVars,
         \A b \in Batches : batch'[b] # "absent" => batch[b] # "absent"
  PROVE  RowsAreCreatedOnce'
BY DEF RowsAreCreatedOnce, jobVars, Batches

\* sendBatch keeps DeliveryInv: one step per action, one under it for each
\* conjunct the action can disturb.
LEMMA WorkerKeepsDelivery ==
  ASSUME DeliveryInv, Typed', NEW k \in Slots,
         \/ Claim(k) \/ ProviderAccepts(k) \/ ReplyArrives(k) \/ ReplyLost(k)
         \/ SendGivesUp(k) \/ RecordSubmitted(k) \/ RecordFailed(k)
  PROVE  DeliveryInv'
<1> DEFINE Kept == OwnerHoldsLock /\ OneOwnerPerBatch /\ RowTellsDelivery
                     /\ OwnerKnowsDelivery
           Untouched == \A b \in Batches :
                          batch'[b] # "absent" => batch[b] # "absent"
<1> USE DEF DeliveryInv, TypeOK, WorkerHoldsBatch, Owns, WorkerMoves,
            OwnerHoldsLock, OneOwnerPerBatch, RowTellsDelivery,
            OwnerKnowsDelivery, dbVars, mailVars, procVars
<1>1. CASE Claim(k)
  <2>1. /\ holds[k] \in Batches
        /\ batch[holds[k]] \in {"pending", "failed"}
        /\ batch' = [batch EXCEPT ![holds[k]] = "submitting"]
        /\ worker' = [worker EXCEPT ![k] = "send"]
        /\ UNCHANGED <<accepted, lost, holds>>
    BY <1>1 DEF Claim
  <2>2. \A l \in Slots : Owns(l) => holds[l] # holds[k]
    BY <2>1
  <2>3. OwnerHoldsLock' /\ OneOwnerPerBatch'
    BY <2>1, <2>2
  <2>4. RowTellsDelivery' /\ OwnerKnowsDelivery'
    BY <2>1, <2>2
  <2>5. Untouched /\ UNCHANGED jobVars
    BY <1>1, <2>1 DEF Claim
  <2> QED
    BY <2>3, <2>4, <2>5, RowsStayCreatedOnce DEF Typed
<1>2. CASE ProviderAccepts(k)
  <2>1. /\ holds[k] \in Batches
        /\ worker[k] = "send"
        /\ worker' = [worker EXCEPT ![k] = "reply"]
        /\ accepted' = [accepted EXCEPT ![holds[k]] = @ + 1]
        /\ UNCHANGED <<batch, lost, holds>>
    BY <1>2 DEF ProviderAccepts
  <2>2. \A l \in Slots : Owns(l) /\ l # k => holds[l] # holds[k]
    BY <2>1
  <2>3. OwnerHoldsLock' /\ OneOwnerPerBatch'
    BY <2>1
  <2>4. RowTellsDelivery'
    BY <2>1
  <2>5. OwnerKnowsDelivery'
    BY <2>1, <2>2
  <2>6. Untouched /\ UNCHANGED jobVars
    BY <1>2, <2>1 DEF ProviderAccepts
  <2> QED
    BY <2>3, <2>4, <2>5, <2>6, RowsStayCreatedOnce DEF Typed
<1>3. CASE ReplyArrives(k) \/ SendGivesUp(k)
  <2>1. Kept'
    BY <1>3 DEF ReplyArrives, SendGivesUp
  <2>2. Untouched /\ UNCHANGED jobVars
    BY <1>3 DEF ReplyArrives, SendGivesUp
  <2> QED
    BY <2>1, <2>2, RowsStayCreatedOnce DEF Typed
<1>4. CASE ReplyLost(k)
  <2>1. /\ holds[k] \in Batches
        /\ worker[k] = "reply"
        /\ \/ worker' = [worker EXCEPT ![k] = "send"]
           \/ worker' = [worker EXCEPT ![k] = "recordFailed"]
        /\ lost' = [lost EXCEPT ![holds[k]] = @ + 1]
        /\ UNCHANGED <<batch, accepted, holds>>
    BY <1>4 DEF ReplyLost
  <2>2. \A l \in Slots : Owns(l) /\ l # k => holds[l] # holds[k]
    BY <2>1
  <2>3. OwnerHoldsLock' /\ OneOwnerPerBatch'
    BY <2>1
  <2>4. RowTellsDelivery'
    BY <2>1
  <2>5. OwnerKnowsDelivery'
    BY <2>1, <2>2
  <2>6. Untouched /\ UNCHANGED jobVars
    BY <1>4, <2>1 DEF ReplyLost
  <2> QED
    BY <2>3, <2>4, <2>5, <2>6, RowsStayCreatedOnce DEF Typed
<1>5. CASE RecordSubmitted(k) \/ RecordFailed(k)
  <2>1. PICK status \in {"submitted", "failed", "submitting"} :
        /\ batch' = [batch EXCEPT ![holds[k]] = status]
        /\ status = "submitted" => worker[k] = "recordSubmitted"
        /\ status = "failed" => worker[k] = "recordFailed"
    <3>1. CASE RecordFailed(k)
      BY <3>1 DEF RecordFailed
    <3>2. CASE RecordSubmitted(k) /\ batch' = [batch EXCEPT ![holds[k]] = "submitted"]
      BY <3>2 DEF RecordSubmitted
    <3>3. CASE RecordSubmitted(k) /\ UNCHANGED batch
      <4>1. batch[holds[k]] = "submitting" /\ holds[k] \in Batches
        BY <3>3 DEF RecordSubmitted
      <4>2. batch = [batch EXCEPT ![holds[k]] = "submitting"]
        BY <4>1
      <4> QED
        BY <3>3, <4>2
    <3> QED
      BY <1>5, <3>1, <3>2, <3>3 DEF RecordSubmitted
  <2>2. /\ holds[k] \in Batches
        /\ Owns(k)
        /\ \/ worker' = [worker EXCEPT ![k] = "sent"]
           \/ worker' = [worker EXCEPT ![k] = "unsent"]
        /\ UNCHANGED <<accepted, lost, holds>>
    BY <1>5 DEF RecordSubmitted, RecordFailed
  <2>3. \A l \in Slots : Owns(l)' => Owns(l) /\ holds[l] # holds[k]
    BY <2>2
  <2>4. OwnerHoldsLock' /\ OneOwnerPerBatch'
    BY <2>1, <2>2, <2>3
  <2>5. RowTellsDelivery'
    BY <2>1, <2>2
  <2>6. OwnerKnowsDelivery'
    BY <2>2, <2>3
  <2>7. Untouched /\ UNCHANGED jobVars
    BY <1>5, <2>1, <2>2 DEF RecordSubmitted, RecordFailed
  <2> QED
    BY <2>4, <2>5, <2>6, <2>7, RowsStayCreatedOnce DEF Typed
<1> QED
  BY <1>1, <1>2, <1>3, <1>4, <1>5

\* DeliveryInv is inductive.
LEMMA NextKeepsDelivery == DeliveryInv /\ [Next]_vars => DeliveryInv'
<1> SUFFICES ASSUME DeliveryInv, [Next]_vars PROVE DeliveryInv'
  OBVIOUS
<1>1. Typed /\ Typed'
  BY NextTyped DEF Typed, DeliveryInv
<1>2. QuietStep \/ LoudStep
  BY <1>1, NextQuietOrLoud
<1> QED
  BY <1>1, <1>2, QuietStepKeepsDelivery, CreateBatchKeepsDelivery,
     WorkerKeepsDelivery DEF LoudStep

\* The inductive invariant holds in every reachable state.
THEOREM DeliveryInvariant == Spec => []DeliveryInv
BY InitDelivery, NextKeepsDelivery, PTL DEF Spec

-----------------------------------------------------------------------------
(* What the invariant gives.                                               *)

\* The provider accepts a batch at most once more than its answers were lost.
THEOREM DeliveredAtMostOnce == Spec => []AtMostOneDelivery
<1>1. DeliveryInv => AtMostOneDelivery
  BY DEF DeliveryInv, TypeOK, BatchStatus, RowTellsDelivery, AtMostOneDelivery
<1> QED
  BY <1>1, DeliveryInvariant, PTL

\* Two workers never send or record the same batch at the same time.
THEOREM BatchHasOneOwner == Spec => []OneOwnerPerBatch
<1>1. DeliveryInv => OneOwnerPerBatch
  BY DEF DeliveryInv
<1> QED
  BY <1>1, DeliveryInvariant, PTL

\* A batch that a retry sends again has no delivery the provider answered for.
THEOREM FailedMeansNotDelivered == Spec => []FailedBatchNotDelivered
<1>1. DeliveryInv => FailedBatchNotDelivered
  BY DEF DeliveryInv, RowTellsDelivery, FailedBatchNotDelivered
<1> QED
  BY <1>1, DeliveryInvariant, PTL

\* createBatch never writes over a row.
LEMMA CreatedRowIsNew ==
  ASSUME DeliveryInv, NEW j \in Jobs, CreateBatch(j)
  PROVE  \E b \in Batches : /\ batch[b] = "absent"
                            /\ batch' = [batch EXCEPT ![b] = "pending"]
                            /\ UNCHANGED <<accepted, lost>>
<1>1. PICK c \in Chunks :
        /\ <<j, c>> \notin batches[j]
        /\ batch' = [batch EXCEPT ![<<j, c>>] = "pending"]
  BY DEF CreateBatch
<1>2. job[j] = "creating" /\ UNCHANGED <<accepted, lost>>
  BY DEF CreateBatch, mailVars
<1>3. <<j, c>> \in Batches /\ batch[<<j, c>>] = "absent"
  BY <1>1, <1>2 DEF DeliveryInv, RowsAreCreatedOnce, Batches
<1> QED
  BY <1>1, <1>2, <1>3

\* How a step may change one batch: only an owner, or the job creating it.
LEMMA OnlyOwnersWrite ==
  ASSUME DeliveryInv, [Next]_vars, NEW b \in Batches,
         batch[b] = "submitting" => Orphan(b),
         batch[b] \in {"submitting", "submitted"}
  PROVE  batch'[b] = batch[b] /\ accepted'[b] = accepted[b]
<1> USE DEF DeliveryInv, TypeOK, WorkerHoldsBatch, OwnerHoldsLock, Owns,
            WorkerMoves, Orphan
<1>1. QuietStep \/ LoudStep
  BY NextQuietOrLoud DEF Typed
<1>2. CASE QuietStep
  BY <1>2 DEF QuietStep
<1>3. ASSUME NEW j \in Jobs, CreateBatch(j)
      PROVE  batch'[b] = batch[b] /\ accepted'[b] = accepted[b]
  BY <1>3, CreatedRowIsNew
<1>4. ASSUME NEW k \in Slots,
             \/ Claim(k) \/ ProviderAccepts(k) \/ ReplyArrives(k)
             \/ ReplyLost(k) \/ SendGivesUp(k) \/ RecordSubmitted(k)
             \/ RecordFailed(k)
      PROVE  batch'[b] = batch[b] /\ accepted'[b] = accepted[b]
  <2>1. CASE Claim(k)
    BY <2>1 DEF Claim, mailVars
  <2>2. CASE ProviderAccepts(k)
    BY <2>2 DEF ProviderAccepts, dbVars
  <2>3. CASE ReplyArrives(k) \/ ReplyLost(k) \/ SendGivesUp(k)
    BY <2>3 DEF ReplyArrives, ReplyLost, SendGivesUp, dbVars, mailVars
  <2>4. CASE RecordSubmitted(k) \/ RecordFailed(k)
    BY <2>4 DEF RecordSubmitted, RecordFailed, mailVars
  <2> QED
    BY <1>4, <2>1, <2>2, <2>3, <2>4
<1> QED
  BY <1>1, <1>2, <1>3, <1>4 DEF LoudStep

\* A 'submitted' batch row stays so and is never handed to the provider again.
THEOREM SubmittedStaysSubmitted == Spec => SubmittedBatchIsFinal
<1>1. DeliveryInv /\ [Next]_vars
        => [\A b \in Batches : batch[b] = "submitted" =>
              batch'[b] = "submitted" /\ accepted'[b] = accepted[b]]_vars
  BY OnlyOwnersWrite
<1> QED
  BY <1>1, DeliveryInvariant, PTL DEF Spec, SubmittedBatchIsFinal

\* No worker becomes the owner of an orphan.
LEMMA OrphansGetNoOwner ==
  ASSUME DeliveryInv, [Next]_vars, NEW b \in Batches, Orphan(b)
  PROVE  Orphan(b)'
<1>1. batch'[b] = "submitting"
  BY OnlyOwnersWrite DEF Orphan
<1> SUFFICES ASSUME NEW l \in Slots, Owns(l)' PROVE holds'[l] # b
  BY <1>1 DEF Orphan
<1> USE DEF DeliveryInv, TypeOK, WorkerHoldsBatch, Owns, WorkerMoves, Orphan
<1>2. QuietStep \/ LoudStep
  BY NextQuietOrLoud DEF Typed
<1>3. CASE QuietStep
  BY <1>3 DEF QuietStep, NoNewOwner
<1>4. ASSUME NEW j \in Jobs, CreateBatch(j) PROVE holds'[l] # b
  BY <1>4 DEF CreateBatch, workVars
<1>5. ASSUME NEW k \in Slots, Claim(k) PROVE holds'[l] # b
  BY <1>5 DEF Claim
<1>6. ASSUME NEW k \in Slots,
             \/ ProviderAccepts(k) \/ ReplyArrives(k) \/ ReplyLost(k)
             \/ SendGivesUp(k) \/ RecordSubmitted(k) \/ RecordFailed(k)
      PROVE  holds'[l] # b
  BY <1>6 DEF ProviderAccepts, ReplyArrives, ReplyLost, SendGivesUp,
              RecordSubmitted, RecordFailed
<1> QED
  BY <1>2, <1>3, <1>4, <1>5, <1>6 DEF LoudStep

\* A 'submitting' batch row without a worker is never claimed or sent again.
THEOREM OrphanStaysOrphan == Spec => OrphanIsNeverResent
<1>1. DeliveryInv /\ [Next]_vars
        => [\A b \in Batches : Orphan(b) =>
              Orphan(b)' /\ accepted'[b] = accepted[b]]_vars
  BY OnlyOwnersWrite, OrphansGetNoOwner DEF Orphan
<1> QED
  BY <1>1, DeliveryInvariant, PTL DEF Spec, OrphanIsNeverResent

-----------------------------------------------------------------------------
(* Sending implements the abstract life of a batch.                        *)

\* The initial states map to BatchLifecycle's.
LEMMA InitImplements == Init => BL!Init
BY DEF Init, BL!Init

\* Every step of the sending system is one step of BatchLifecycle for one batch,
\* or leaves all batches as they are.
LEMMA NextImplements ==
  ASSUME DeliveryInv, [Next]_vars
  PROVE  [BL!Next]_(BL!vars)
<1> USE DEF DeliveryInv, TypeOK, WorkerHoldsBatch, OwnerHoldsLock,
            OwnerKnowsDelivery, Owns, WorkerMoves, BL!Becomes, BL!Delivered
<1>1. QuietStep \/ LoudStep
  BY NextQuietOrLoud DEF Typed
<1>2. CASE QuietStep
  BY <1>2 DEF QuietStep, BL!vars
<1>3. ASSUME NEW j \in Jobs, CreateBatch(j) PROVE BL!Next
  BY <1>3, CreatedRowIsNew DEF BL!Add, BL!Next
<1>4. ASSUME NEW k \in Slots,
             \/ Claim(k) \/ ProviderAccepts(k) \/ ReplyArrives(k)
             \/ ReplyLost(k) \/ SendGivesUp(k) \/ RecordSubmitted(k)
             \/ RecordFailed(k)
      PROVE  [BL!Next]_(BL!vars)
  <2>0. holds[k] \in Batches
    BY <1>4
    DEF Claim, ProviderAccepts, ReplyArrives, ReplyLost, SendGivesUp,
        RecordSubmitted, RecordFailed
  <2>1. CASE Claim(k)
    BY <2>0, <2>1 DEF Claim, mailVars, BL!Claim, BL!Next
  <2>2. CASE ProviderAccepts(k)
    BY <2>0, <2>2 DEF ProviderAccepts, dbVars, BL!Deliver, BL!Next
  <2>3. CASE ReplyArrives(k) \/ SendGivesUp(k)
    BY <2>3 DEF ReplyArrives, SendGivesUp, dbVars, mailVars, BL!vars
  <2>4. CASE ReplyLost(k)
    BY <2>0, <2>4 DEF ReplyLost, dbVars, BL!LoseReply, BL!Next
  <2>5. CASE RecordSubmitted(k)
    BY <2>0, <2>5
    DEF RecordSubmitted, mailVars, BL!RecordSubmitted, BL!Next, BL!vars
  <2>6. CASE RecordFailed(k)
    BY <2>0, <2>6 DEF RecordFailed, mailVars, BL!RecordFailed, BL!Next
  <2> QED
    BY <1>4, <2>1, <2>2, <2>3, <2>4, <2>5, <2>6
<1> QED
  BY <1>1, <1>2, <1>3, <1>4 DEF LoudStep

\* Every behaviour of sending is, batch by batch, one that BatchLifecycle
\* allows.
THEOREM SendingImplementsBatchLifecycle == Spec => ImplementsBatchLifecycle
BY InitImplements, NextImplements, DeliveryInvariant, PTL
DEF Spec, BL!Spec, ImplementsBatchLifecycle

-----------------------------------------------------------------------------
(* One container at a time.  Without overlaps, what may start or end a     *)
(* send is a CLAIM on the email: a job that is queued or active, a retry   *)
(* that has read the row, a boot scan under way.  There is one at most.    *)

\* A job that may still send: waiting in the queue, or past the lock.
Busy(j) == job[j] = "queued" \/ Active(j)

\* A container starts when the one before it has exited (Boot).
OneUp == \A p, r \in Procs : proc[p] # "down" /\ proc[r] # "down" => p = r

\* Jobs, workers, requests and scans live in a container that has not exited.
MemoryIsLive ==
  /\ \A p \in Procs : resume[p] # "idle" => proc[p] # "down"
  /\ \A j \in Jobs : Busy(j) => host[j] \in Procs /\ proc[host[j]] # "down"
  /\ \A k \in Slots :
       worker[k] # "off" => host[k[1]] \in Procs /\ proc[host[k[1]]] # "down"
  /\ \A q \in Requests :
       request[q] = "checked" =>
         servedBy[q] \in Procs /\ proc[servedBy[q]] = "up"

OneClaim ==
  /\ \A i, j \in Jobs : Busy(i) /\ Busy(j) => i = j
  /\ \A q, r \in Requests :
       request[q] = "checked" /\ request[r] = "checked" => q = r
  /\ \A j \in Jobs, q \in Requests : ~(Busy(j) /\ request[q] = "checked")
  /\ \A j \in Jobs, p \in Procs : ~(Busy(j) /\ resume[p] # "idle")
  /\ \A q \in Requests, p \in Procs :
       ~(request[q] = "checked" /\ resume[p] # "idle")

\* What the row says while a claim stands.
RowFitsClaim ==
  /\ \A j \in Jobs : job[j] = "queued" => emailStatus = "pending"
  /\ \A j \in Jobs : Active(j) => emailStatus = "submitting"
  /\ \A q \in Requests : request[q] = "checked" => emailStatus = "failed"
  /\ \A p \in Procs :
       /\ resume[p] = "schedule" => emailStatus = "pending"
       /\ resume[p] \in {"expire", "revive"} => emailStatus = "submitting"

\* Layer 1 of the invariant: who may start or end the send.
ClaimInv == OneUp /\ MemoryIsLive /\ OneClaim /\ RowFitsClaim

\* One job creates the batch rows, and whoever sends them has all of them.
OneCreator ==
  /\ \A a, b \in Present : a[1] = b[1]
  /\ \A j \in Jobs : job[j] = "creating" => batches[j] \subseteq {j} \X Chunks

\* A job that has not looked for rows yet has none in its array.
NothingLoaded ==
  \A j \in Jobs : job[j] \in {"unused", "queued", "loading"} => batches[j] = {}

\* From its first row to its last save a job has every row of the email.
AllRowsAtHand ==
  \A j \in Jobs :
    job[j] \in {"creating", "sending", "saving"} => batches[j] = Present

\* Layer 2: whose rows they are.
RowsInv == OneCreator /\ NothingLoaded /\ AllRowsAtHand

\* A batch that the provider accepted, that nobody can lock any more and that
\* no worker is about to write.
Sealed(b) ==
  /\ batch[b] \in {"submitting", "submitted"}
  /\ accepted[b] = lost[b] + 1
  /\ \A k \in Slots : Owns(k) => holds[k] # b

\* What a job counts, or a worker is about to report, as sent is sealed.
CountedIsSealed ==
  /\ \A j \in Jobs : \A b \in succeeded[j] : Sealed(b)
  /\ \A k \in Slots : worker[k] = "sent" => Sealed(holds[k])
  /\ \A j \in Jobs : \A b \in prior[j] : batch[b] = "submitted"

\* The last save comes after every worker returned and every row was counted.
SavingIsOver ==
  \A j \in Jobs :
    job[j] = "saving" => Running(j) = {} /\ succeeded[j] = batches[j]

\* An email in 'submitted' has sealed rows only.
SubmittedIsSealed == emailStatus = "submitted" => \A b \in Present : Sealed(b)

\* Layer 3: what a job counts and what the email row claims.
SealInv == CountedIsSealed /\ SavingIsOver /\ SubmittedIsSealed

\* The rows cover the audience, unless a createBatches call was cut short.
Complete == \A c \in Chunks : \E b \in Present : b[2] = c

\* Layer 4: what a job sends and what the email row claims are all parts.
RowsAreComplete ==
  /\ Present # {} =>
       cutShort \/ Complete \/ \E j \in Jobs : job[j] = "creating"
  /\ \A j \in Jobs : job[j] \in {"sending", "saving"} => cutShort \/ Complete
  /\ emailStatus = "submitted" => cutShort \/ Complete

\* No claim stands before the first container starts.
LEMMA InitClaims == Init => ClaimInv
BY DEF Init, ClaimInv, OneUp, MemoryIsLive, OneClaim, RowFitsClaim, Busy,
       Active

\* A busy job goes on, or ends: the others, and what runs beside them, stay.
LEMMA BusyJobMovesOn ==
  ASSUME Typed, ClaimInv, NEW j \in Jobs, Busy(j),
         UNCHANGED <<proc, resume, request, servedBy, host>>,
         \A i \in Jobs : i # j => job'[i] = job[i],
         \A k \in Slots : k[1] # j => worker'[k] = worker[k],
         job'[j] # "queued",
         Active(j)' => emailStatus' = "submitting"
  PROVE  ClaimInv'
<1>1. /\ \A i \in Jobs : Busy(i)' => Busy(i) /\ i = j
      /\ \A q \in Requests : request'[q] # "checked"
      /\ \A p \in Procs : resume'[p] = "idle"
      /\ host[j] \in Procs /\ proc[host[j]] # "down"
  <2>1. /\ \A q \in Requests : request[q] # "checked"
        /\ \A p \in Procs : resume[p] = "idle"
    BY DEF ClaimInv, OneClaim
  <2>2. \A i \in Jobs : Busy(i)' => Busy(i) /\ i = j
    <3> SUFFICES ASSUME NEW i \in Jobs, Busy(i)' PROVE Busy(i) /\ i = j
      OBVIOUS
    <3>1. CASE i = j
      BY <3>1
    <3>2. CASE i # j
      <4>1. Busy(i)
        BY <3>2 DEF Busy, Active
      <4> QED
        BY <4>1 DEF ClaimInv, OneClaim
    <3> QED
      BY <3>1, <3>2
  <2>3. host[j] \in Procs /\ proc[host[j]] # "down"
    BY DEF ClaimInv, MemoryIsLive
  <2> QED
    BY <2>1, <2>2, <2>3
<1>2. OneUp'
  BY DEF ClaimInv, OneUp
<1>3. MemoryIsLive'
  <2>1. ASSUME NEW k \in Slots, worker'[k] # "off"
        PROVE  host'[k[1]] \in Procs /\ proc'[host'[k[1]]] # "down"
    <3>1. CASE k[1] = j
      BY <1>1, <3>1
    <3>2. CASE k[1] # j
      BY <2>1, <3>2 DEF ClaimInv, MemoryIsLive
    <3> QED
      BY <3>1, <3>2
  <2> QED
    BY <1>1, <2>1 DEF MemoryIsLive
<1>4. OneClaim'
  BY <1>1 DEF OneClaim
<1>5. RowFitsClaim'
  BY <1>1 DEF RowFitsClaim, Busy
<1> QED
  BY <1>2, <1>3, <1>4, <1>5 DEF ClaimInv

\* emailJob only writes the row while its claim stands.
LEMMA JobStepKeepsClaims ==
  ASSUME Typed, ClaimInv, NEW j \in Jobs, JobStep(j)
  PROVE  ClaimInv'
<1> USE DEF JobMoves, dbVars, mailVars, procVars, jobVars, workVars
<1>0. /\ job \in [Jobs -> JobState] /\ worker \in [Slots -> WorkerState]
      /\ Active(j) => emailStatus = "submitting"
  BY DEF Typed, TypeOK, ClaimInv, RowFitsClaim
<1>1. CASE JobStart(j)
  <2>1. Busy(j)
    BY <1>1 DEF JobStart, Busy
  <2>2. /\ job'[j] \in {"loading", "done"}
        /\ job'[j] = "loading" => emailStatus' = "submitting"
        /\ \A i \in Jobs : i # j => job'[i] = job[i]
    BY <1>0, <1>1 DEF JobStart, EmailLock
  <2> QED
    BY <1>1, <2>1, <2>2, BusyJobMovesOn DEF JobStart, Active
<1>2. CASE JobStartFails(j)
  <2>1. Busy(j)
    BY <1>2 DEF JobStartFails, Busy
  <2>2. /\ job'[j] = "done"
        /\ \A i \in Jobs : i # j => job'[i] = job[i]
    BY <1>0, <1>2 DEF JobStartFails
  <2> QED
    BY <1>2, <2>1, <2>2, BusyJobMovesOn DEF JobStartFails, Active
<1>3. CASE LoadBatches(j) \/ CreateDone(j)
  <2>1. Active(j) /\ Busy(j)
    BY <1>3 DEF LoadBatches, CreateDone, Busy, Active
  <2>2. /\ job'[j] = "sending"
        /\ \A i \in Jobs : i # j => job'[i] = job[i]
        /\ \A k \in Slots : k[1] # j => worker'[k] = worker[k]
        /\ UNCHANGED <<emailStatus, proc, resume, request, servedBy, host>>
    BY <1>0, <1>3 DEF LoadBatches, CreateDone, StartSending
  <2> QED
    BY <1>0, <2>1, <2>2, BusyJobMovesOn
<1>4. CASE \/ FindNoBatches(j) \/ CreateBatch(j) \/ PrepareFails(j)
           \/ SendingDone(j) \/ SaveSubmittedFails(j) \/ SaveFailedFails(j)
  <2>1. Active(j) /\ Busy(j)
    BY <1>4
    DEF FindNoBatches, CreateBatch, PrepareFails, SendingDone,
        SaveSubmittedFails, SaveFailedFails, Busy, Active
  <2>2. /\ job'[j] # "queued"
        /\ \A i \in Jobs : i # j => job'[i] = job[i]
        /\ UNCHANGED <<emailStatus, proc, resume, request, servedBy, host,
                       worker>>
    BY <1>0, <1>4
    DEF FindNoBatches, CreateBatch, PrepareFails, SendingDone,
        SaveSubmittedFails, SaveFailedFails
  <2> QED
    BY <1>0, <2>1, <2>2, BusyJobMovesOn
<1>5. CASE SaveSubmitted(j) \/ SaveFailed(j)
  <2>1. Busy(j)
    BY <1>5 DEF SaveSubmitted, SaveFailed, Busy, Active
  <2>2. /\ job'[j] = "done"
        /\ \A i \in Jobs : i # j => job'[i] = job[i]
        /\ UNCHANGED <<proc, resume, request, servedBy, host, worker>>
    BY <1>0, <1>5 DEF SaveSubmitted, SaveFailed
  <2> QED
    BY <2>1, <2>2, BusyJobMovesOn DEF Active
<1> QED
  BY <1>1, <1>2, <1>3, <1>4, <1>5 DEF JobStep

\* A step that starts no claim and writes no row keeps what holds of claims.
LEMMA ClaimsMayEnd ==
  ASSUME ClaimInv,
         UNCHANGED <<emailStatus, proc, host, servedBy>>,
         \A p \in Procs : resume'[p] \in {resume[p], "idle"},
         \A q \in Requests : request'[q] = "checked" => request[q] = "checked",
         \A i \in Jobs : /\ job'[i] = "queued" => job[i] = "queued"
                         /\ Active(i)' => Active(i),
         \A k \in Slots : worker'[k] # "off" => worker[k] # "off"
  PROVE  ClaimInv'
<1>0. \A i \in Jobs : Busy(i)' => Busy(i)
  BY DEF Busy
<1>1. OneUp'
  BY DEF ClaimInv, OneUp
<1>2. MemoryIsLive'
  BY <1>0 DEF ClaimInv, MemoryIsLive
<1>3. OneClaim'
  BY <1>0 DEF ClaimInv, OneClaim
<1>4. RowFitsClaim'
  BY DEF ClaimInv, RowFitsClaim
<1> QED
  BY <1>1, <1>2, <1>3, <1>4 DEF ClaimInv

\* Workers claim nothing: runWorker and sendBatch leave the email row alone.
LEMMA WorkerStepKeepsClaims ==
  ASSUME Typed, ClaimInv, NEW k \in Slots, WorkerStep(k)
  PROVE  ClaimInv'
<1> USE DEF WorkerMoves, dbVars, mailVars, procVars, jobVars, workVars
<1>0. /\ worker \in [Slots -> WorkerState] /\ job \in [Jobs -> JobState]
      /\ k[1] \in Jobs
  BY DEF Typed, TypeOK, Slots
<1>1. /\ UNCHANGED <<emailStatus, proc, resume, request, servedBy, host>>
      /\ \A l \in Slots : worker'[l] # "off" => worker[l] # "off"
  <2>1. CASE \/ TakeBatch(k) \/ WorkerReturns(k) \/ Claim(k) \/ SkipBatch(k)
             \/ MarkProcessed(k) \/ WorkerThrows(k)
    BY <1>0, <2>1
    DEF TakeBatch, WorkerReturns, Claim, SkipBatch, MarkProcessed, WorkerThrows
  <2>2. CASE \/ ProviderAccepts(k) \/ ReplyArrives(k) \/ ReplyLost(k)
             \/ SendGivesUp(k) \/ RecordSubmitted(k) \/ RecordFailed(k)
    BY <1>0, <2>2
    DEF ProviderAccepts, ReplyArrives, ReplyLost, SendGivesUp,
        RecordSubmitted, RecordFailed
  <2> QED
    BY <2>1, <2>2 DEF WorkerStep
<1>2. \A i \in Jobs : \/ job'[i] = job[i]
                      \/ job[i] = "sending" /\ job'[i] = "failing"
  <2>1. CASE WorkerThrows(k)
    BY <1>0, <2>1 DEF WorkerThrows
  <2>2. CASE ~WorkerThrows(k)
    BY <2>2
    DEF WorkerStep, TakeBatch, WorkerReturns, Claim, SkipBatch, MarkProcessed,
        ProviderAccepts, ReplyArrives, ReplyLost, SendGivesUp,
        RecordSubmitted, RecordFailed
  <2> QED
    BY <2>1, <2>2
<1>3. \A i \in Jobs : /\ job'[i] = "queued" => job[i] = "queued"
                      /\ Active(i)' => Active(i)
  BY <1>2 DEF Active
<1> QED
  BY <1>1, <1>3, ClaimsMayEnd

\* Scheduling a job is the next claim, if the one that led to it is over and the
\* row is 'pending'.
LEMMA SchedulingIsAClaim ==
  ASSUME Typed, ClaimInv, NEW p \in Procs, ScheduleEmail(p),
         \A i \in Jobs : ~Busy(i),
         \A q \in Requests : request'[q] # "checked",
         \A r \in Procs : resume'[r] = "idle",
         proc[p] # "down", emailStatus' = "pending",
         UNCHANGED <<proc, worker, servedBy>>
  PROVE  ClaimInv'
<1>1. PICK j \in Jobs : /\ job[j] = "unused"
                        /\ job' = [job EXCEPT ![j] = "queued"]
                        /\ host' = [host EXCEPT ![j] = p]
  BY DEF ScheduleEmail
<1>2. /\ job'[j] = "queued" /\ host'[j] = p
      /\ \A i \in Jobs : i # j => job'[i] = job[i] /\ host'[i] = host[i]
  BY <1>1 DEF Typed, TypeOK
<1>3. \A i \in Jobs : Busy(i)' => i = j
  BY <1>2 DEF Busy, Active
<1>4. OneUp'
  BY DEF ClaimInv, OneUp
<1>5. MemoryIsLive'
  <2>1. ASSUME NEW k \in Slots, worker'[k] # "off"
        PROVE  host'[k[1]] \in Procs /\ proc'[host'[k[1]]] # "down"
    <3>1. k[1] \in Jobs
      BY DEF Slots
    <3>2. CASE k[1] = j
      BY <1>2, <3>2
    <3>3. CASE k[1] # j
      BY <1>2, <2>1, <3>1, <3>3 DEF ClaimInv, MemoryIsLive
    <3> QED
      BY <3>2, <3>3
  <2> QED
    BY <1>2, <1>3, <2>1 DEF MemoryIsLive
<1>6. OneClaim'
  BY <1>3 DEF OneClaim
<1>7. RowFitsClaim'
  <2>1. \A i \in Jobs : ~Active(i)'
    BY <1>2, <1>3 DEF Busy, Active
  <2> QED
    BY <2>1 DEF RowFitsClaim
<1> QED
  BY <1>4, <1>5, <1>6, <1>7 DEF ClaimInv

\* The boot scan (resumeInterruptedSends) is a claim from its start to the job
\* it schedules.
LEMMA ResumeStepKeepsClaims ==
  ASSUME Typed, ClaimInv, NEW p \in Procs, ResumeStep(p)
  PROVE  ClaimInv'
<1> USE DEF dbVars, mailVars, procVars, jobVars, workVars
<1>0. /\ resume \in [Procs -> {"idle", "scan", "expire", "revive", "schedule"}]
      /\ resume[p] # "idle"
  BY DEF Typed, TypeOK, ResumeStep, ResumeScan, ResumeGiveUp, ResumeFlip,
         ResumeSchedule, ResumeFails
<1>1. /\ \A j \in Jobs : ~Busy(j)
      /\ \A q \in Requests : request[q] # "checked"
      /\ proc[p] # "down"
      /\ \A r \in Procs : r # p => resume[r] = "idle"
  BY <1>0 DEF ClaimInv, OneClaim, MemoryIsLive, OneUp
<1>2. ASSUME UNCHANGED <<proc, request, servedBy, job, host, worker>>,
             \A r \in Procs : r # p => resume'[r] = "idle",
             resume'[p] = "schedule" => emailStatus' = "pending",
             resume'[p] \in {"expire", "revive"} => emailStatus' = "submitting"
      PROVE  ClaimInv'
  <2>1. \A j \in Jobs : ~Busy(j)' /\ ~Active(j)' /\ job'[j] # "queued"
    BY <1>1, <1>2 DEF Busy, Active
  <2>2. OneUp' /\ OneClaim'
    BY <1>1, <1>2, <2>1 DEF ClaimInv, OneUp, OneClaim
  <2>3. MemoryIsLive'
    BY <1>1, <1>2, <2>1 DEF ClaimInv, MemoryIsLive
  <2>4. RowFitsClaim'
    BY <1>1, <1>2, <2>1 DEF RowFitsClaim
  <2> QED
    BY <2>2, <2>3, <2>4 DEF ClaimInv
<1>3. CASE ResumeScan(p)
  <2>1. PICK verdict \in Verdicts :
          resume' = [resume EXCEPT ![p] =
                       IF emailStatus = "submitting" /\ verdict # "skip"
                       THEN verdict ELSE "idle"]
    BY <1>3 DEF ResumeScan
  <2>2. verdict \in {"expire", "revive", "skip"}
    BY ConstantsAssumption DEF VerdictKinds
  <2>3. /\ resume'[p] \in {"expire", "revive"} => emailStatus = "submitting"
        /\ resume'[p] # "schedule"
        /\ \A r \in Procs : r # p => resume'[r] = resume[r]
    BY <1>0, <2>1, <2>2
  <2> QED
    BY <1>1, <1>2, <1>3, <2>3 DEF ResumeScan
<1>4. CASE ResumeGiveUp(p) \/ ResumeFails(p)
  BY <1>0, <1>1, <1>2, <1>4 DEF ResumeGiveUp, ResumeFails
<1>5. CASE ResumeFlip(p)
  <2>1. /\ resume'[p] \in {"schedule", "idle"}
        /\ resume'[p] = "schedule" => emailStatus' = "pending"
        /\ \A r \in Procs : r # p => resume'[r] = resume[r]
    BY <1>0, <1>5 DEF ResumeFlip, EmailLock
  <2> QED
    BY <1>1, <1>2, <1>5, <2>1 DEF ResumeFlip
<1>6. CASE ResumeSchedule(p)
  <2>1. emailStatus = "pending"
    BY <1>6 DEF ResumeSchedule, ClaimInv, RowFitsClaim
  <2> QED
    BY <1>0, <1>1, <1>6, <2>1, SchedulingIsAClaim DEF ResumeSchedule
<1> QED
  BY <1>3, <1>4, <1>5, <1>6 DEF ResumeStep

\* Requests and createEmail claim the email where no claim stands.
LEMMA RequestKeepsClaims ==
  ASSUME Overlap = {}, Typed, ClaimInv,
         \/ \E p \in Procs : CreateEmail(p)
         \/ \E q \in Requests :
              \/ \E p \in Procs : RetryRead(q, p)
              \/ RetryRefused(q) \/ RetrySave(q)
  PROVE  ClaimInv'
<1> USE DEF dbVars, mailVars, procVars, jobVars, workVars
<1>0. /\ job \in [Jobs -> JobState]
      /\ request \in [Requests -> {"new", "checked", "over"}]
      /\ servedBy \in [Requests -> Procs \cup {NoProc}]
  BY DEF Typed, TypeOK
<1>1. ASSUME NEW p \in Procs, Serves(p)
      PROVE  proc[p] = "up" /\ \A r \in Procs : resume[r] = "idle"
  BY <1>1 DEF Serves, ClaimInv, MemoryIsLive, OneUp
<1>2. ASSUME emailStatus \notin {"pending", "submitting"}
      PROVE  \A j \in Jobs : ~Busy(j)
  BY <1>2 DEF Busy, ClaimInv, RowFitsClaim
<1>3. ASSUME NEW p \in Procs, CreateEmail(p) PROVE ClaimInv'
  <2>1. /\ proc[p] = "up"
        /\ \A r \in Procs : resume[r] = "idle"
        /\ \A j \in Jobs : ~Busy(j) /\ ~Active(j) /\ job[j] # "queued"
        /\ \A q \in Requests : request[q] # "checked"
    BY <1>1, <1>2, <1>3 DEF CreateEmail, ClaimInv, RowFitsClaim, Busy
  <2>2. CASE emailStatus' = "pending" /\ ScheduleEmail(p)
    BY <1>3, <2>1, <2>2, SchedulingIsAClaim DEF CreateEmail
  <2>3. CASE emailStatus' = "failed" /\ UNCHANGED jobVars
    <3>1. UNCHANGED <<proc, resume, request, servedBy, job, host, worker>>
      BY <1>3, <2>3 DEF CreateEmail
    <3>2. RowFitsClaim'
      BY <2>1, <3>1 DEF RowFitsClaim, Active
    <3> QED
      BY <3>1, <3>2
      DEF ClaimInv, OneUp, MemoryIsLive, OneClaim, Busy, Active
  <2> QED
    BY <1>3, <2>2, <2>3 DEF CreateEmail
<1>4. ASSUME NEW q \in Requests, NEW p \in Procs, RetryRead(q, p)
      PROVE  ClaimInv'
  <2>1. /\ proc[p] = "up"
        /\ \A r \in Procs : resume[r] = "idle"
        /\ \A j \in Jobs : ~Busy(j)
        /\ \A r \in Requests : request[r] # "checked"
        /\ emailStatus = "failed"
    BY <1>1, <1>2, <1>4 DEF RetryRead
  <2>2. /\ UNCHANGED <<emailStatus, proc, resume, job, host, worker>>
        /\ servedBy'[q] = p
        /\ \A r \in Requests : request'[r] = "checked" => r = q
    BY <1>0, <1>4, <2>1 DEF RetryRead
  <2>3. \A j \in Jobs : ~Busy(j)' /\ ~Active(j)' /\ job'[j] # "queued"
    BY <2>1, <2>2 DEF Busy, Active
  <2>4. OneUp' /\ OneClaim' /\ RowFitsClaim'
    BY <2>1, <2>2, <2>3 DEF ClaimInv, OneUp, OneClaim, RowFitsClaim
  <2>5. MemoryIsLive'
    BY <2>1, <2>2, <2>3 DEF ClaimInv, MemoryIsLive
  <2> QED
    BY <2>4, <2>5 DEF ClaimInv
<1>5. ASSUME NEW q \in Requests, RetryRefused(q) PROVE ClaimInv'
  <2>1. /\ UNCHANGED <<emailStatus, proc, resume, servedBy, job, host, worker>>
        /\ \A r \in Requests :
             request'[r] = "checked" => request[r] = "checked"
    BY <1>0, <1>5 DEF RetryRefused
  <2> QED
    BY <2>1, ClaimsMayEnd DEF Active
<1>6. ASSUME NEW q \in Requests, RetrySave(q) PROVE ClaimInv'
  <2>1. /\ servedBy[q] \in Procs /\ proc[servedBy[q]] # "down"
        /\ \A r \in Procs : resume[r] = "idle"
        /\ \A j \in Jobs : ~Busy(j)
        /\ \A r \in Requests : request'[r] # "checked"
    BY <1>0, <1>6 DEF RetrySave, ClaimInv, MemoryIsLive, OneClaim
  <2> QED
    BY <1>6, <2>1, SchedulingIsAClaim DEF RetrySave
<1> QED
  BY <1>3, <1>4, <1>5, <1>6

\* A container starts only when no other is up, and takes its claims with it
\* when it goes.
LEMMA ContainerKeepsClaims ==
  ASSUME Overlap = {}, Typed, ClaimInv, NEW p \in Procs,
         Boot(p) \/ Shutdown(p) \/ Exit(p) \/ Crash(p)
  PROVE  ClaimInv'
<1> USE DEF dbVars, mailVars, procVars, jobVars, workVars
<1>0. /\ proc \in [Procs -> {"down", "up", "draining"}]
      /\ resume \in [Procs -> {"idle", "scan", "expire", "revive", "schedule"}]
  BY DEF Typed, TypeOK
<1>1. CASE Boot(p)
  <2>1. \A r \in Procs : proc[r] = "down"
    BY <1>1 DEF Boot
  <2>2. /\ \A j \in Jobs : ~Busy(j)
        /\ \A q \in Requests : request[q] # "checked"
        /\ \A k \in Slots : worker[k] = "off"
        /\ \A r \in Procs : resume[r] = "idle"
    BY <2>1 DEF ClaimInv, MemoryIsLive
  <2>3. /\ UNCHANGED <<emailStatus, request, servedBy, job, host, worker>>
        /\ proc'[p] = "up" /\ resume'[p] = "scan"
        /\ \A r \in Procs : r # p => proc'[r] = "down" /\ resume'[r] = "idle"
    BY <1>0, <1>1, <2>1, <2>2 DEF Boot
  <2>4. \A j \in Jobs : ~Busy(j)' /\ ~Active(j)' /\ job'[j] # "queued"
    BY <2>2, <2>3 DEF Busy, Active
  <2>5. OneUp' /\ OneClaim'
    BY <2>2, <2>3, <2>4 DEF OneUp, OneClaim
  <2>6. MemoryIsLive' /\ RowFitsClaim'
    BY <2>2, <2>3, <2>4 DEF MemoryIsLive, RowFitsClaim
  <2> QED
    BY <2>5, <2>6 DEF ClaimInv
<1>2. CASE Shutdown(p)
  <2>1. /\ UNCHANGED <<emailStatus, resume, request, servedBy, job, host,
                       worker>>
        /\ proc[p] = "up" /\ proc'[p] = "draining"
        /\ \A r \in Procs : r # p => proc'[r] = proc[r]
        /\ \A q \in Requests : servedBy[q] = p => request[q] # "checked"
    BY <1>0, <1>2 DEF Shutdown
  <2>2. \A j \in Jobs : (Busy(j)' <=> Busy(j)) /\ (Active(j)' <=> Active(j))
    BY <2>1 DEF Busy, Active
  <2>3. \A r \in Procs : proc'[r] = "down" <=> proc[r] = "down"
    BY <2>1
  <2>4. OneUp' /\ OneClaim' /\ RowFitsClaim'
    BY <2>1, <2>2, <2>3 DEF ClaimInv, OneUp, OneClaim, RowFitsClaim
  <2>5. MemoryIsLive'
    BY <2>1, <2>2, <2>3 DEF ClaimInv, MemoryIsLive
  <2> QED
    BY <2>4, <2>5 DEF ClaimInv
<1>3. CASE Exit(p) \/ Crash(p)
  <2>1. Kill(p)
    BY <1>3 DEF Exit, Crash
  <2>2. /\ UNCHANGED <<emailStatus, servedBy, host>>
        /\ proc'[p] = "down" /\ resume'[p] = "idle"
        /\ \A r \in Procs : r # p => /\ proc'[r] = proc[r]
                                     /\ resume'[r] = resume[r]
    BY <1>0, <2>1 DEF Kill
  <2>3. \A q \in Requests :
          request'[q] = "checked" => request[q] = "checked" /\ servedBy[q] # p
    BY <2>1 DEF Kill
  <2>4. \A j \in Jobs : Busy(j)' => job'[j] = job[j] /\ host[j] # p
    BY <2>1 DEF Kill, Busy, Active
  <2>5. \A k \in Slots :
          worker'[k] # "off" => worker[k] # "off" /\ host[k[1]] # p
    BY <2>1 DEF Kill
  <2>6. \A j \in Jobs : Busy(j)' => Busy(j)
    BY <2>4 DEF Busy, Active
  <2>7. OneUp'
    BY <2>2 DEF ClaimInv, OneUp
  <2>8. MemoryIsLive'
    BY <2>2, <2>3, <2>4, <2>5, <2>6 DEF ClaimInv, MemoryIsLive
  <2>9. OneClaim'
    BY <2>2, <2>3, <2>6 DEF ClaimInv, OneClaim
  <2>10. RowFitsClaim'
    BY <2>2, <2>3, <2>4 DEF ClaimInv, RowFitsClaim, Busy, Active
  <2> QED
    BY <2>7, <2>8, <2>9, <2>10 DEF ClaimInv
<1> QED
  BY <1>1, <1>2, <1>3

\* With Typed, ClaimInv is inductive.
LEMMA NextKeepsClaims ==
  ASSUME Overlap = {}, Typed, ClaimInv, [Next]_vars
  PROVE  ClaimInv'
<1>1. CASE UNCHANGED vars
  BY <1>1
  DEF vars, dbVars, mailVars, procVars, jobVars, workVars, ClaimInv, OneUp,
      MemoryIsLive, OneClaim, RowFitsClaim, Busy, Active
<1>2. CASE Next
  BY <1>2, ContainerKeepsClaims, RequestKeepsClaims, ResumeStepKeepsClaims,
     JobStepKeepsClaims, WorkerStepKeepsClaims DEF Next
<1> QED
  BY <1>1, <1>2

-----------------------------------------------------------------------------
(* The rows of a send and the job that has them.                           *)

\* What a step does with the batches of a job.
RowsMove(i) ==
  \/ job'[i] = job[i] /\ batches'[i] = batches[i]
  \/ job'[i] \in {"failing", "done"}
  \/ batches'[i] = batches[i]
       /\ <<job[i], job'[i]>> \in
            {<<"unused", "queued">>, <<"queued", "loading">>,
             <<"creating", "sending">>, <<"sending", "saving">>}
  \/ job[i] = "loading" /\ job'[i] = "creating"
       /\ batches'[i] = batches[i] /\ Present = {}
  \/ job[i] = "loading" /\ job'[i] = "sending" /\ batches'[i] = Present
       /\ Present # {}
  \/ CreateBatch(i)

\* No step gives a job batches in any other way.
LEMMA NextMovesRows ==
  ASSUME Typed, [Next]_vars
  PROVE  \A i \in Jobs : RowsMove(i)
<1> SUFFICES ASSUME NEW i \in Jobs PROVE RowsMove(i)
  OBVIOUS
<1> USE DEF RowsMove, JobMoves, WorkerMoves,
            dbVars, mailVars, procVars, jobVars, workVars
<1>0. /\ job \in [Jobs -> JobState]
      /\ batches \in [Jobs -> SUBSET Batches]
  BY DEF Typed, TypeOK
<1>1. CASE UNCHANGED vars
  BY <1>1 DEF vars
<1>2. ASSUME NEW p \in Procs, Boot(p) \/ Shutdown(p) PROVE RowsMove(i)
  BY <1>2 DEF Boot, Shutdown
<1>3. ASSUME NEW p \in Procs, Exit(p) \/ Crash(p) PROVE RowsMove(i)
  BY <1>3 DEF Exit, Crash, Kill
<1>4. ASSUME NEW p \in Procs, ScheduleEmail(p) PROVE RowsMove(i)
  BY <1>0, <1>4 DEF ScheduleEmail
<1>5. ASSUME NEW p \in Procs, CreateEmail(p) \/ ResumeStep(p)
      PROVE  RowsMove(i)
  BY <1>4, <1>5
  DEF CreateEmail, ResumeStep, ResumeScan, ResumeGiveUp, ResumeFlip,
      ResumeSchedule, ResumeFails
<1>6. ASSUME NEW q \in Requests,
             \/ \E p \in Procs : RetryRead(q, p)
             \/ RetryRefused(q)
      PROVE  RowsMove(i)
  BY <1>6 DEF RetryRead, RetryRefused
<1>7. ASSUME NEW q \in Requests, RetrySave(q) PROVE RowsMove(i)
  BY <1>0, <1>7 DEF RetrySave, ScheduleEmail
<1>8. ASSUME NEW j \in Jobs, JobStep(j) PROVE RowsMove(i)
  <2>1. CASE JobStart(j) \/ JobStartFails(j) \/ FindNoBatches(j)
    BY <1>0, <2>1 DEF JobStart, JobStartFails, FindNoBatches
  <2>2. CASE LoadBatches(j) \/ CreateDone(j)
    BY <1>0, <2>2 DEF LoadBatches, CreateDone, StartSending
  <2>3. CASE CreateBatch(j)
    BY <1>0, <2>3 DEF CreateBatch
  <2>4. CASE PrepareFails(j) \/ SendingDone(j)
    BY <1>0, <2>4 DEF PrepareFails, SendingDone
  <2>5. CASE \/ SaveSubmitted(j) \/ SaveSubmittedFails(j)
             \/ SaveFailed(j) \/ SaveFailedFails(j)
    BY <1>0, <2>5
    DEF SaveSubmitted, SaveSubmittedFails, SaveFailed, SaveFailedFails
  <2> QED
    BY <1>8, <2>1, <2>2, <2>3, <2>4, <2>5 DEF JobStep
<1>9. ASSUME NEW k \in Slots, WorkerStep(k) PROVE RowsMove(i)
  <2>1. CASE WorkerThrows(k)
    BY <1>0, <2>1 DEF WorkerThrows
  <2>2. CASE ~WorkerThrows(k)
    BY <1>9, <2>2
    DEF WorkerStep, TakeBatch, WorkerReturns, Claim, SkipBatch, MarkProcessed,
        ProviderAccepts, ReplyArrives, ReplyLost, SendGivesUp,
        RecordSubmitted, RecordFailed
  <2> QED
    BY <2>1, <2>2
<1> QED
  BY <1>1, <1>2, <1>3, <1>5, <1>6, <1>7, <1>8, <1>9 DEF Next

\* createBatch adds one row, to the table and to its job's array.
LEMMA CreateBatchAddsRow ==
  ASSUME Typed, NEW j \in Jobs, CreateBatch(j)
  PROVE  \E c \in Chunks :
           /\ batches' = [batches EXCEPT ![j] = @ \cup {<<j, c>>}]
           /\ Present' = Present \cup {<<j, c>>}
<1>1. PICK c \in Chunks :
        /\ batch' = [batch EXCEPT ![<<j, c>>] = "pending"]
        /\ batches' = [batches EXCEPT ![j] = @ \cup {<<j, c>>}]
  BY DEF CreateBatch
<1>2. <<j, c>> \in Batches
  BY DEF Batches
<1>3. Present' = Present \cup {<<j, c>>}
  BY <1>1, <1>2 DEF Present, Typed, TypeOK
<1> QED
  BY <1>1, <1>3

\* Rows appear one by one as createBatch stores them, and never go.
LEMMA PresentGrows ==
  ASSUME DeliveryInv, [Next]_vars
  PROVE  \/ Present' = Present
         \/ \E j \in Jobs, c \in Chunks :
              /\ CreateBatch(j)
              /\ batches' = [batches EXCEPT ![j] = @ \cup {<<j, c>>}]
              /\ Present' = Present \cup {<<j, c>>}
<1> USE DEF DeliveryInv, TypeOK, WorkerHoldsBatch, WorkerMoves
<1>0. Batches' = Batches
  BY DEF Batches, Jobs
<1>1. QuietStep \/ LoudStep
  BY NextQuietOrLoud DEF Typed
<1>2. CASE QuietStep
  BY <1>2 DEF QuietStep, Present
<1>3. ASSUME NEW j \in Jobs, CreateBatch(j)
      PROVE  \E c \in Chunks :
               /\ batches' = [batches EXCEPT ![j] = @ \cup {<<j, c>>}]
               /\ Present' = Present \cup {<<j, c>>}
  BY <1>3, CreateBatchAddsRow DEF Typed
<1>4. ASSUME NEW k \in Slots, Claim(k) PROVE Present' = Present
  BY <1>4 DEF Claim, Present
<1>5. ASSUME NEW k \in Slots,
             \/ ProviderAccepts(k) \/ ReplyArrives(k) \/ ReplyLost(k)
             \/ SendGivesUp(k)
      PROVE  Present' = Present
  BY <1>5 DEF ProviderAccepts, ReplyArrives, ReplyLost, SendGivesUp, dbVars,
              Present
<1>6. ASSUME NEW k \in Slots, RecordSubmitted(k) \/ RecordFailed(k)
      PROVE  Present' = Present
  <2>1. holds[k] \in Batches /\ batch[holds[k]] = "submitting"
    BY <1>6 DEF RecordSubmitted, RecordFailed, OwnerHoldsLock, Owns
  <2>2. \A b \in Batches : batch'[b] # "absent" <=> batch[b] # "absent"
    BY <1>6, <2>1 DEF RecordSubmitted, RecordFailed
  <2> QED
    BY <2>2 DEF Present
<1> QED
  BY <1>1, <1>2, <1>3, <1>4, <1>5, <1>6 DEF LoudStep

\* No rows, and no job that has them, at the start.
LEMMA InitRows == Init => RowsInv
BY DEF Init, RowsInv, OneCreator, NothingLoaded, AllRowsAtHand, Present

\* sendEmail loads all rows or creates the first one: no other job is past
\* emailJob's lock meanwhile.
LEMMA NextKeepsRows ==
  ASSUME DeliveryInv, ClaimInv, RowsInv, [Next]_vars
  PROVE  RowsInv'
<1>0. \A i \in Jobs : RowsMove(i)
  BY NextMovesRows DEF DeliveryInv, Typed
<1>1. ASSUME NEW j \in Jobs, NEW c \in Chunks, CreateBatch(j),
             batches' = [batches EXCEPT ![j] = @ \cup {<<j, c>>}],
             Present' = Present \cup {<<j, c>>}
      PROVE  RowsInv'
  <2>1. /\ job[j] = "creating" /\ job' = job
        /\ batches[j] = Present
        /\ Present \subseteq {j} \X Chunks
        /\ batches \in [Jobs -> SUBSET Batches]
    BY <1>1
    DEF CreateBatch, RowsInv, OneCreator, AllRowsAtHand, DeliveryInv, TypeOK
  <2>2. \A i \in Jobs : Active(i) => i = j
    BY <2>1 DEF ClaimInv, OneClaim, Busy, Active
  <2>3. /\ batches'[j] = Present'
        /\ Present' \subseteq {j} \X Chunks
        /\ \A i \in Jobs : i # j => batches'[i] = batches[i]
    BY <1>1, <2>1
  <2>4. OneCreator'
    BY <2>1, <2>2, <2>3 DEF OneCreator, Active
  <2>5. NothingLoaded'
    BY <2>1, <2>3 DEF NothingLoaded, RowsInv
  <2>6. AllRowsAtHand'
    BY <2>1, <2>2, <2>3 DEF AllRowsAtHand, Active
  <2> QED
    BY <2>4, <2>5, <2>6 DEF RowsInv
<1>2. ASSUME Present' = Present, \A j \in Jobs : ~CreateBatch(j)
      PROVE  RowsInv'
  <2>1. NothingLoaded'
    BY <1>0, <1>2 DEF NothingLoaded, RowsMove, RowsInv
  <2>2. OneCreator'
    BY <1>0, <1>2 DEF OneCreator, NothingLoaded, RowsMove, RowsInv
  <2>3. AllRowsAtHand'
    BY <1>0, <1>2 DEF AllRowsAtHand, NothingLoaded, RowsMove, RowsInv
  <2> QED
    BY <2>1, <2>2, <2>3 DEF RowsInv
<1>3. ASSUME NEW j \in Jobs, CreateBatch(j)
      PROVE  \E c \in Chunks :
               /\ batches' = [batches EXCEPT ![j] = @ \cup {<<j, c>>}]
               /\ Present' = Present \cup {<<j, c>>}
  BY <1>3, CreateBatchAddsRow DEF DeliveryInv, Typed
<1> QED
  BY <1>1, <1>2, <1>3, PresentGrows

-----------------------------------------------------------------------------
(* What is counted as sent stays sent.                                     *)

\* A row recorded as 'submitted' is sealed: an owner's row is in 'submitting'.
LEMMA SubmittedRowIsSealed ==
  ASSUME DeliveryInv, NEW b \in Batches, batch[b] = "submitted"
  PROVE  Sealed(b)
BY DEF DeliveryInv, OwnerHoldsLock, RowTellsDelivery, Sealed

\* A seal is never broken: sendBatch locks no such row again.
LEMMA SealsLast ==
  ASSUME DeliveryInv, [Next]_vars, NEW b \in Batches, Sealed(b)
  PROVE  Sealed(b)'
<1> USE DEF DeliveryInv, TypeOK, WorkerHoldsBatch, Owns, WorkerMoves, Sealed
<1>1. QuietStep \/ LoudStep
  BY NextQuietOrLoud DEF Typed
<1>2. CASE QuietStep
  BY <1>2 DEF QuietStep, NoNewOwner
<1>3. ASSUME NEW j \in Jobs, CreateBatch(j) PROVE Sealed(b)'
  <2>1. PICK c \in Batches : /\ batch[c] = "absent"
                             /\ batch' = [batch EXCEPT ![c] = "pending"]
                             /\ UNCHANGED <<accepted, lost>>
    BY <1>3, CreatedRowIsNew
  <2>2. UNCHANGED <<worker, holds>>
    BY <1>3 DEF CreateBatch, workVars
  <2> QED
    BY <2>1, <2>2
<1>4. ASSUME NEW k \in Slots, Claim(k) PROVE Sealed(b)'
  BY <1>4 DEF Claim, mailVars
<1>5. ASSUME NEW k \in Slots, ProviderAccepts(k) PROVE Sealed(b)'
  BY <1>5 DEF ProviderAccepts, dbVars
<1>6. ASSUME NEW k \in Slots, ReplyLost(k) PROVE Sealed(b)'
  BY <1>6 DEF ReplyLost, dbVars
<1>7. ASSUME NEW k \in Slots, ReplyArrives(k) \/ SendGivesUp(k)
      PROVE  Sealed(b)'
  BY <1>7 DEF ReplyArrives, SendGivesUp, dbVars, mailVars
<1>8. ASSUME NEW k \in Slots, RecordSubmitted(k) \/ RecordFailed(k)
      PROVE  Sealed(b)'
  BY <1>8 DEF RecordSubmitted, RecordFailed, mailVars
<1> QED
  BY <1>1, <1>2, <1>3, <1>4, <1>5, <1>6, <1>7, <1>8 DEF LoudStep

\* The worker that records an acceptance is the only owner of its batch: it
\* seals it, whether or not the save goes through.
LEMMA RecordingSeals ==
  ASSUME DeliveryInv, NEW k \in Slots, RecordSubmitted(k)
  PROVE  Sealed(holds[k])' /\ holds' = holds
<1>1. /\ holds[k] \in Batches /\ batch[holds[k]] = "submitting"
      /\ accepted[holds[k]] = lost[holds[k]] + 1
      /\ \A l \in Slots : Owns(l) /\ holds[l] = holds[k] => l = k
  BY DEF RecordSubmitted, WorkerMoves, DeliveryInv, WorkerHoldsBatch, Owns,
         OwnerHoldsLock, OwnerKnowsDelivery, OneOwnerPerBatch
<1>2. /\ batch'[holds[k]] \in {"submitting", "submitted"}
      /\ worker'[k] = "sent"
      /\ \A l \in Slots : l # k => worker'[l] = worker[l]
      /\ UNCHANGED <<accepted, lost, holds>>
  BY <1>1 DEF RecordSubmitted, WorkerMoves, DeliveryInv, TypeOK, mailVars
<1> QED
  BY <1>1, <1>2 DEF Sealed, Owns

\* What a step does with the outcomes a job keeps, and with its workers.
OutcomesMove(i) ==
  /\ \A b \in succeeded'[i] :
       \/ b \in succeeded[i] \/ b \in prior[i]
       \/ \E k \in Slots : worker[k] = "sent" /\ b = holds[k]
  /\ \A b \in prior'[i] :
       b \in prior[i] \/ (b \in Batches /\ batch[b] = "submitted")
  /\ job'[i] = "saving" =>
       \/ job[i] = "saving"
       \/ job[i] = "sending" /\ Running(i) = {} /\ succeeded[i] = batches[i]
            /\ UNCHANGED <<succeeded, batches, worker>>

WorkersMove ==
  \A k \in Slots :
    /\ worker'[k] = "sent" =>
         (worker[k] = "sent" /\ holds'[k] = holds[k]) \/ RecordSubmitted(k)
    /\ worker'[k] # "off" => worker[k] # "off" \/ job'[k[1]] = "sending"

\* A job without workers that stays in 'saving' counts no more batches.
CountsRest ==
  \A i \in Jobs :
    job[i] = "saving" /\ job'[i] = "saving" /\ Running(i) = {} =>
      succeeded'[i] = succeeded[i] /\ batches'[i] = batches[i]

\* The three together.
OutcomeStep == (\A i \in Jobs : OutcomesMove(i)) /\ WorkersMove /\ CountsRest

\* A job counts nothing itself; it remembers which rows it loaded as submitted.
LEMMA JobStepOutcomes ==
  ASSUME DeliveryInv, NEW j \in Jobs, JobStep(j)
  PROVE  OutcomeStep
<1> USE DEF OutcomeStep, OutcomesMove, WorkersMove, CountsRest, JobMoves,
            dbVars, mailVars, procVars, jobVars, workVars
<1>0. /\ job \in [Jobs -> JobState]
      /\ batches \in [Jobs -> SUBSET Batches]
      /\ prior \in [Jobs -> SUBSET Batches]
      /\ worker \in [Slots -> WorkerState]
      /\ \A k \in Slots : k[1] \in Jobs
  BY DEF DeliveryInv, TypeOK, Slots
<1>1. CASE \/ JobStart(j) \/ JobStartFails(j) \/ FindNoBatches(j)
           \/ CreateBatch(j) \/ PrepareFails(j)
  BY <1>0, <1>1
  DEF JobStart, JobStartFails, FindNoBatches, CreateBatch, PrepareFails
<1>2. CASE LoadBatches(j)
  <2>1. /\ job[j] = "loading" /\ job'[j] = "sending"
        /\ \A i \in Jobs : i # j => /\ job'[i] = job[i]
                                    /\ batches'[i] = batches[i]
                                    /\ prior'[i] = prior[i]
        /\ \A b \in prior'[j] : b \in Batches /\ batch[b] = "submitted"
        /\ UNCHANGED <<succeeded, holds>>
    BY <1>0, <1>2 DEF LoadBatches, StartSending, Present
  <2>2. WorkersMove
    BY <1>0, <1>2, <2>1 DEF LoadBatches, StartSending
  <2> QED
    BY <2>1, <2>2
<1>3. CASE CreateDone(j)
  <2>1. /\ job[j] = "creating" /\ job'[j] = "sending"
        /\ \A i \in Jobs : i # j => /\ job'[i] = job[i]
                                    /\ batches'[i] = batches[i]
        /\ UNCHANGED <<succeeded, prior, holds>>
    BY <1>0, <1>3 DEF CreateDone, StartSending
  <2>2. WorkersMove
    BY <1>0, <1>3, <2>1 DEF CreateDone, StartSending
  <2> QED
    BY <2>1, <2>2
<1>4. CASE SendingDone(j)
  BY <1>0, <1>4 DEF SendingDone
<1>5. CASE \/ SaveSubmitted(j) \/ SaveSubmittedFails(j)
           \/ SaveFailed(j) \/ SaveFailedFails(j)
  BY <1>0, <1>5
  DEF SaveSubmitted, SaveSubmittedFails, SaveFailed, SaveFailedFails
<1> QED
  BY <1>1, <1>2, <1>3, <1>4, <1>5 DEF JobStep

\* A worker counts the batch it has sent, or one loaded as submitted.
LEMMA WorkerStepOutcomes ==
  ASSUME DeliveryInv, NEW k \in Slots, WorkerStep(k)
  PROVE  OutcomeStep
<1> USE DEF OutcomeStep, WorkerMoves,
            dbVars, mailVars, procVars, jobVars, workVars
<1>0. /\ job \in [Jobs -> JobState]
      /\ succeeded \in [Jobs -> SUBSET Batches]
      /\ worker \in [Slots -> WorkerState]
      /\ holds \in [Slots -> Batches \cup {NoBatch}]
      /\ k[1] \in Jobs
  BY DEF DeliveryInv, TypeOK, Slots
<1>1. CASE SkipBatch(k) \/ MarkProcessed(k)
  <2>1. /\ UNCHANGED <<job, batches, prior>>
        /\ \A i \in Jobs : i # k[1] => succeeded'[i] = succeeded[i]
        /\ \A l \in Slots : l # k => /\ worker'[l] = worker[l]
                                     /\ holds'[l] = holds[l]
        /\ worker[k] # "off" /\ worker'[k] = "loop"
    BY <1>0, <1>1 DEF SkipBatch, MarkProcessed, BatchDone
  <2>2. \A b \in succeeded'[k[1]] :
          \/ b \in succeeded[k[1]] \/ b \in prior[k[1]]
          \/ worker[k] = "sent" /\ b = holds[k]
    BY <1>0, <1>1 DEF SkipBatch, MarkProcessed, BatchDone
  <2>3. \A i \in Jobs : OutcomesMove(i)
    BY <2>1, <2>2 DEF OutcomesMove
  <2>4. WorkersMove
    BY <2>1 DEF WorkersMove
  <2>5. k \in Running(k[1])
    BY <2>1 DEF Running
  <2>6. CountsRest
    BY <2>1, <2>5 DEF CountsRest
  <2> QED
    BY <2>3, <2>4, <2>6
<1>2. CASE ~(SkipBatch(k) \/ MarkProcessed(k))
  <2>1. /\ UNCHANGED <<batches, prior, succeeded>>
        /\ \A i \in Jobs : job'[i] = "saving" => job[i] = "saving"
    <3>1. CASE WorkerThrows(k)
      BY <1>0, <3>1 DEF WorkerThrows
    <3>2. CASE ~WorkerThrows(k)
      BY <1>2, <3>2
      DEF WorkerStep, TakeBatch, WorkerReturns, Claim, ProviderAccepts,
          ReplyArrives, ReplyLost, SendGivesUp, RecordSubmitted, RecordFailed
    <3> QED
      BY <3>1, <3>2
  <2>2. WorkersMove
    BY <1>0, <1>2
    DEF WorkersMove, WorkerStep, TakeBatch, WorkerReturns, Claim,
        ProviderAccepts, ReplyArrives, ReplyLost, SendGivesUp,
        RecordSubmitted, RecordFailed, WorkerThrows
  <2> QED
    BY <2>1, <2>2 DEF OutcomesMove, CountsRest
<1> QED
  BY <1>1, <1>2

\* Every step moves outcomes and workers that way.
LEMMA NextOutcomes ==
  ASSUME DeliveryInv, [Next]_vars
  PROVE  OutcomeStep
<1> USE DEF OutcomeStep, OutcomesMove, WorkersMove, CountsRest,
            dbVars, mailVars, procVars, jobVars, workVars
<1>0. job \in [Jobs -> JobState] /\ \A k \in Slots : k[1] \in Jobs
  BY DEF DeliveryInv, TypeOK, Slots
<1>1. CASE UNCHANGED vars
  BY <1>1 DEF vars
<1>2. ASSUME NEW p \in Procs, Boot(p) \/ Shutdown(p) PROVE OutcomeStep
  BY <1>2 DEF Boot, Shutdown
<1>3. ASSUME NEW p \in Procs, Exit(p) \/ Crash(p) PROVE OutcomeStep
  BY <1>0, <1>3 DEF Exit, Crash, Kill
<1>4. ASSUME UNCHANGED <<batches, prior, succeeded, worker, holds>>,
             \A i \in Jobs : job'[i] # job[i] => job'[i] # "saving"
      PROVE  OutcomeStep
  BY <1>4
<1>5. ASSUME NEW p \in Procs, ScheduleEmail(p), UNCHANGED <<worker, holds>>
      PROVE  OutcomeStep
  BY <1>0, <1>4, <1>5 DEF ScheduleEmail
<1>6. ASSUME NEW p \in Procs, CreateEmail(p) \/ ResumeStep(p)
      PROVE  OutcomeStep
  BY <1>4, <1>5, <1>6
  DEF CreateEmail, ResumeStep, ResumeScan, ResumeGiveUp, ResumeFlip,
      ResumeSchedule, ResumeFails
<1>7. ASSUME NEW q \in Requests,
             \/ \E p \in Procs : RetryRead(q, p)
             \/ RetryRefused(q) \/ RetrySave(q)
      PROVE  OutcomeStep
  <2>1. CASE RetrySave(q)
    BY <2>1, <1>0, <1>4 DEF RetrySave, ScheduleEmail
  <2>2. CASE RetryRefused(q) \/ \E p \in Procs : RetryRead(q, p)
    BY <2>2 DEF RetryRead, RetryRefused
  <2> QED
    BY <1>7, <2>1, <2>2
<1> QED
  BY <1>1, <1>2, <1>3, <1>6, <1>7, JobStepOutcomes, WorkerStepOutcomes DEF Next

\* Nothing is counted at the start.
LEMMA InitSeals == Init => SealInv
BY DEF Init, SealInv, CountedIsSealed, SavingIsOver, SubmittedIsSealed

\* The row becomes 'submitted' by emailJob's last save only.
LEMMA OnlySavingSubmits ==
  ASSUME [Next]_vars, emailStatus' = "submitted", emailStatus # "submitted"
  PROVE  \E j \in Jobs : SaveSubmitted(j)
<1> USE DEF EmailLock, dbVars
<1>1. CASE UNCHANGED vars
  BY <1>1 DEF vars
<1>2. ASSUME NEW p \in Procs, Boot(p) \/ Shutdown(p) \/ Exit(p) \/ Crash(p)
      PROVE  FALSE
  BY <1>2 DEF Boot, Shutdown, Exit, Crash, Kill
<1>3. ASSUME NEW p \in Procs, CreateEmail(p) \/ ResumeStep(p) PROVE FALSE
  BY <1>3
  DEF CreateEmail, ResumeStep, ResumeScan, ResumeGiveUp, ResumeFlip,
      ResumeSchedule, ResumeFails
<1>4. ASSUME NEW q \in Requests,
             \/ \E p \in Procs : RetryRead(q, p)
             \/ RetryRefused(q) \/ RetrySave(q)
      PROVE  FALSE
  BY <1>4 DEF RetryRead, RetryRefused, RetrySave
<1>5. ASSUME NEW j \in Jobs, JobStep(j) PROVE SaveSubmitted(j)
  BY <1>5
  DEF JobStep, JobStart, JobStartFails, LoadBatches, FindNoBatches,
      CreateBatch, CreateDone, PrepareFails, SendingDone, SaveSubmittedFails,
      SaveFailed, SaveFailedFails
<1>6. ASSUME NEW k \in Slots, WorkerStep(k) PROVE FALSE
  BY <1>6
  DEF WorkerStep, TakeBatch, WorkerReturns, Claim, SkipBatch, MarkProcessed,
      ProviderAccepts, ReplyArrives, ReplyLost, SendGivesUp, RecordSubmitted,
      RecordFailed, WorkerThrows
<1> QED
  BY <1>1, <1>2, <1>3, <1>4, <1>5, <1>6 DEF Next

\* While the row is 'submitted' no job creates batches.
LEMMA SubmittedHasAllRows ==
  ASSUME DeliveryInv, ClaimInv, [Next]_vars, emailStatus' = "submitted"
  PROVE  /\ Present' = Present
         /\ \/ emailStatus = "submitted"
            \/ \E j \in Jobs : job[j] = "saving"
<1>1. ASSUME NEW j \in Jobs PROVE ~CreateBatch(j)
  <2> SUFFICES ASSUME CreateBatch(j) PROVE FALSE
    OBVIOUS
  <2>1. emailStatus = "submitting"
    BY DEF CreateBatch, Active, ClaimInv, RowFitsClaim
  <2> QED
    BY <2>1 DEF CreateBatch
<1>2. emailStatus = "submitted" \/ \E j \in Jobs : job[j] = "saving"
  BY OnlySavingSubmits DEF SaveSubmitted, JobMoves
<1> QED
  BY <1>1, <1>2, PresentGrows

\* emailJob saves 'submitted' when both workers have returned and the outcomes
\* it counted are sealed rows, all rows of the email among them.
LEMMA NextKeepsSeals ==
  ASSUME DeliveryInv, DeliveryInv', ClaimInv, RowsInv, SealInv, [Next]_vars
  PROVE  SealInv'
<1>0. /\ succeeded \in [Jobs -> SUBSET Batches]
      /\ prior \in [Jobs -> SUBSET Batches]
      /\ \A k \in Slots : worker[k] = "sent" => holds[k] \in Batches
      /\ \A k \in Slots : k[1] \in Jobs
      /\ Present \subseteq Batches
  BY DEF DeliveryInv, TypeOK, WorkerHoldsBatch, Slots, Present
<1>1. OutcomeStep
  BY NextOutcomes
<1>2. \A b \in Batches : Sealed(b) => Sealed(b)'
  BY SealsLast
<1>3. \A b \in Batches : batch[b] = "submitted" => Sealed(b)
  BY SubmittedRowIsSealed
<1>4. CountedIsSealed'
  <2>1. ASSUME NEW i \in Jobs, NEW b \in succeeded'[i] PROVE Sealed(b)'
    <3>1. \/ b \in succeeded[i] \/ b \in prior[i]
          \/ \E k \in Slots : worker[k] = "sent" /\ b = holds[k]
      BY <1>1, <2>1 DEF OutcomeStep, OutcomesMove
    <3>2. b \in Batches /\ Sealed(b)
      BY <1>0, <1>3, <3>1 DEF SealInv, CountedIsSealed
    <3> QED
      BY <1>2, <3>2
  <2>2. ASSUME NEW k \in Slots, worker'[k] = "sent" PROVE Sealed(holds[k])'
    <3>1. CASE RecordSubmitted(k)
      BY <3>1, RecordingSeals
    <3>2. CASE worker[k] = "sent" /\ holds'[k] = holds[k]
      <4>1. PICK b \in Batches : b = holds[k] /\ b = holds'[k]
        BY <1>0, <3>2
      <4>2. Sealed(b)'
        BY <1>2, <3>2, <4>1 DEF SealInv, CountedIsSealed
      <4> QED
        BY <3>2, <4>1, <4>2
    <3> QED
      BY <1>1, <2>2, <3>1, <3>2 DEF OutcomeStep, WorkersMove
  <2>3. ASSUME NEW i \in Jobs, NEW b \in prior'[i]
        PROVE  batch'[b] = "submitted"
    <3>1. b \in Batches /\ batch[b] = "submitted"
      BY <1>0, <1>1, <2>3
      DEF OutcomeStep, OutcomesMove, SealInv, CountedIsSealed
    <3> QED
      BY <3>1, OnlyOwnersWrite
  <2> QED
    BY <2>1, <2>2, <2>3 DEF CountedIsSealed
<1>5. SavingIsOver'
  <2> SUFFICES ASSUME NEW i \in Jobs, job'[i] = "saving"
               PROVE  Running(i)' = {} /\ succeeded'[i] = batches'[i]
    BY DEF SavingIsOver
  <2>1. /\ Running(i) = {} /\ succeeded[i] = batches[i]
        /\ succeeded'[i] = succeeded[i] /\ batches'[i] = batches[i]
    BY <1>1
    DEF OutcomeStep, OutcomesMove, CountsRest, SealInv, SavingIsOver
  <2>2. ASSUME NEW k \in Slots, k[1] = i, worker'[k] # "off" PROVE FALSE
    <3>1. worker[k] # "off"
      BY <1>1, <2>2 DEF OutcomeStep, WorkersMove
    <3> QED
      BY <2>1, <2>2, <3>1 DEF Running
  <2>3. Running(i)' = {}
    BY <2>2 DEF Running, Slots, Jobs
  <2> QED
    BY <2>1, <2>3
<1>6. SubmittedIsSealed'
  <2> SUFFICES ASSUME emailStatus' = "submitted"
               PROVE  \A b \in Present' : Sealed(b)'
    BY DEF SubmittedIsSealed
  <2>1. Present' = Present
    BY SubmittedHasAllRows
  <2>2. CASE emailStatus = "submitted"
    BY <1>0, <1>2, <2>1, <2>2 DEF SealInv, SubmittedIsSealed
  <2>3. ASSUME NEW j \in Jobs, job[j] = "saving"
        PROVE  \A b \in Present : Sealed(b)
    BY <2>3 DEF SealInv, SavingIsOver, CountedIsSealed, RowsInv, AllRowsAtHand
  <2> QED
    BY <1>0, <1>2, <2>1, <2>2, <2>3, SubmittedHasAllRows
<1> QED
  BY <1>4, <1>5, <1>6 DEF SealInv

-----------------------------------------------------------------------------
(* The rows cover the audience, unless createBatches was cut short.        *)

\* There are no rows to be complete at the start.
LEMMA InitComplete == Init => RowsAreComplete
BY DEF Init, RowsAreComplete, Present

\* How a job may leave createBatches: with all parts stored, with none, or on
\* record as cut short.
LEMMA LeavingCreation ==
  ASSUME DeliveryInv, ClaimInv, RowsInv, [Next]_vars,
         NEW j \in Jobs, job[j] = "creating", job'[j] # "creating"
  PROVE  /\ ~CreateBatch(j)
         /\ cutShort' \/ Complete \/ Present = {}
         /\ job'[j] = "sending" => Complete
<1> USE DEF JobMoves, dbVars, mailVars, procVars, jobVars, workVars
<1>0. /\ job \in [Jobs -> JobState]
      /\ batches[j] = Present
      /\ \A c \in Chunks : <<j, c>> \in Batches
      /\ \A k \in Slots : k[1] \in Jobs
  BY DEF DeliveryInv, TypeOK, RowsInv, AllRowsAtHand, Batches, Slots
<1>1. HalfCreated(j) \/ Complete \/ Present = {}
  <2> SUFFICES ASSUME ~HalfCreated(j), Present # {} PROVE Complete
    OBVIOUS
  <2>1. \A c \in Chunks : <<j, c>> \in Present
    BY <1>0 DEF HalfCreated
  <2>2. \A c \in Chunks : \E b \in Present : b[2] = c
    BY <2>1
  <2> QED
    BY <2>2 DEF Complete
<1>2. ~CreateBatch(j)
  BY DEF CreateBatch
<1>3. ASSUME UNCHANGED job PROVE FALSE
  BY <1>3
<1>4. ASSUME NEW p \in Procs, Exit(p) \/ Crash(p)
      PROVE  /\ cutShort' \/ ~HalfCreated(j)
             /\ job'[j] # "sending"
  <2>1. host[j] = p
    BY <1>0, <1>4 DEF Exit, Crash, Kill
  <2>2. HalfCreated(j) => cutShort'
    BY <1>4, <2>1 DEF Exit, Crash, Kill
  <2>3. job'[j] = "done"
    BY <1>4, <2>1 DEF Exit, Crash, Kill
  <2> QED
    BY <2>2, <2>3
<1>5. ASSUME NEW p \in Procs, ScheduleEmail(p) PROVE FALSE
  BY <1>0, <1>5 DEF ScheduleEmail
<1>6. ASSUME NEW i \in Jobs, JobStep(i)
      PROVE  /\ cutShort' \/ ~HalfCreated(j)
             /\ job'[j] = "sending" => batches[j] = {j} \X Chunks
  <2>1. i = j
    BY <1>0, <1>6
    DEF JobStep, JobStart, JobStartFails, LoadBatches, FindNoBatches,
        CreateBatch, CreateDone, PrepareFails, SendingDone, SaveSubmitted,
        SaveSubmittedFails, SaveFailed, SaveFailedFails, StartSending
  <2>2. CASE PrepareFails(j)
    BY <1>0, <2>2 DEF PrepareFails
  <2>3. CASE CreateDone(j)
    <3>1. batches[j] = {j} \X Chunks
      BY <2>3 DEF CreateDone
    <3> QED
      BY <3>1 DEF HalfCreated
  <2>4. CASE ~PrepareFails(j) /\ ~CreateDone(j)
    BY <1>0, <1>2, <1>6, <2>1, <2>4
    DEF JobStep, JobStart, JobStartFails, LoadBatches, FindNoBatches,
        SendingDone, SaveSubmitted, SaveSubmittedFails, SaveFailed,
        SaveFailedFails
  <2> QED
    BY <2>2, <2>3, <2>4
<1>7. ASSUME NEW k \in Slots, WorkerStep(k) PROVE FALSE
  BY <1>0, <1>7
  DEF WorkerStep, TakeBatch, WorkerReturns, Claim, SkipBatch, MarkProcessed,
      ProviderAccepts, ReplyArrives, ReplyLost, SendGivesUp, RecordSubmitted,
      RecordFailed, WorkerThrows
<1>8. /\ cutShort' \/ ~HalfCreated(j)
      /\ job'[j] = "sending" => batches[j] = {j} \X Chunks
  <2>1. CASE UNCHANGED vars
    BY <1>3, <2>1 DEF vars
  <2>2. ASSUME NEW p \in Procs,
               \/ Boot(p) \/ Shutdown(p) \/ CreateEmail(p) \/ ResumeStep(p)
        PROVE  FALSE
    BY <1>3, <1>5, <2>2
    DEF Boot, Shutdown, CreateEmail, ResumeStep, ResumeScan, ResumeGiveUp,
        ResumeFlip, ResumeSchedule, ResumeFails
  <2>3. ASSUME NEW q \in Requests,
               \/ \E p \in Procs : RetryRead(q, p)
               \/ RetryRefused(q)
        PROVE  FALSE
    BY <1>3, <2>3 DEF RetryRead, RetryRefused
  <2>4. ASSUME NEW q \in Requests, RetrySave(q) PROVE FALSE
    BY <1>0, <2>4 DEF RetrySave, ScheduleEmail
  <2> QED
    BY <1>4, <1>6, <1>7, <2>1, <2>2, <2>3, <2>4 DEF Next
<1>9. job'[j] = "sending" => Complete
  <2> SUFFICES ASSUME job'[j] = "sending"
               PROVE  \A c \in Chunks : \E b \in Present : b[2] = c
    BY DEF Complete
  <2>1. \A c \in Chunks : <<j, c>> \in Present
    BY <1>0, <1>8
  <2> QED
    BY <2>1
<1> QED
  BY <1>1, <1>2, <1>8, <1>9

\* History: a createBatches call that was cut short stays on record.
LEMMA CutShortStays ==
  ASSUME [Next]_vars, cutShort
  PROVE  cutShort'
<1> USE DEF dbVars, mailVars, procVars, jobVars, workVars
<1>1. CASE UNCHANGED vars
  BY <1>1 DEF vars
<1>2. ASSUME NEW p \in Procs,
             \/ Boot(p) \/ Shutdown(p) \/ Exit(p) \/ Crash(p)
             \/ CreateEmail(p) \/ ResumeStep(p)
      PROVE  cutShort'
  BY <1>2
  DEF Boot, Shutdown, Exit, Crash, Kill, CreateEmail, ResumeStep, ResumeScan,
      ResumeGiveUp, ResumeFlip, ResumeSchedule, ResumeFails
<1>3. ASSUME NEW q \in Requests,
             \/ \E p \in Procs : RetryRead(q, p)
             \/ RetryRefused(q) \/ RetrySave(q)
      PROVE  cutShort'
  BY <1>3 DEF RetryRead, RetryRefused, RetrySave
<1>4. ASSUME NEW j \in Jobs, JobStep(j) PROVE cutShort'
  BY <1>4
  DEF JobStep, JobStart, JobStartFails, LoadBatches, FindNoBatches,
      CreateBatch, CreateDone, PrepareFails, SendingDone, SaveSubmitted,
      SaveSubmittedFails, SaveFailed, SaveFailedFails
<1>5. ASSUME NEW k \in Slots, WorkerStep(k) PROVE cutShort'
  BY <1>5
  DEF WorkerStep, TakeBatch, WorkerReturns, Claim, SkipBatch, MarkProcessed,
      ProviderAccepts, ReplyArrives, ReplyLost, SendGivesUp, RecordSubmitted,
      RecordFailed, WorkerThrows
<1> QED
  BY <1>1, <1>2, <1>3, <1>4, <1>5 DEF Next

\* A job sends the rows of a finished createBatches call, its own or an earlier
\* one's, unless one was cut short.
LEMMA NextKeepsComplete ==
  ASSUME DeliveryInv, ClaimInv, RowsInv, RowsAreComplete, [Next]_vars
  PROVE  RowsAreComplete'
<1>0. \A i \in Jobs : RowsMove(i)
  BY NextMovesRows DEF DeliveryInv, Typed
<1>1. \A i, j \in Jobs : Active(i) /\ Active(j) => i = j
  BY DEF ClaimInv, OneClaim, Busy
<1>2. Present \subseteq Present'
  BY PresentGrows
<1>3. cutShort \/ Complete => cutShort' \/ Complete'
  BY <1>2, CutShortStays DEF Complete
<1>4. ASSUME Present' # {}, ~\E j \in Jobs : job'[j] = "creating"
      PROVE  cutShort' \/ Complete'
  <2>1. \A j \in Jobs : ~CreateBatch(j)
    BY <1>4 DEF CreateBatch
  <2>2. Present' = Present
    BY <2>1, PresentGrows
  <2>3. CASE \E j \in Jobs : job[j] = "creating"
    BY <1>2, <1>4, <2>2, <2>3, LeavingCreation DEF Complete
  <2>4. CASE ~\E j \in Jobs : job[j] = "creating"
    BY <1>3, <1>4, <2>2, <2>4 DEF RowsAreComplete
  <2> QED
    BY <2>3, <2>4
<1>5. ASSUME NEW i \in Jobs, job'[i] \in {"sending", "saving"}
      PROVE  cutShort' \/ Complete'
  <2>1. CASE job[i] \in {"sending", "saving"}
    BY <1>3, <2>1 DEF RowsAreComplete
  <2>2. CASE job[i] = "creating"
    <3>1. Complete
      BY <1>0, <1>5, <2>2, LeavingCreation DEF RowsMove
    <3> QED
      BY <1>3, <3>1
  <2>3. CASE job[i] \notin {"sending", "saving", "creating"}
    <3>1. job[i] = "loading" /\ Present # {}
      BY <1>0, <1>5, <2>3 DEF RowsMove, CreateBatch
    <3>2. ~\E j \in Jobs : job[j] = "creating"
      BY <1>1, <3>1 DEF Active
    <3> QED
      BY <1>3, <3>1, <3>2 DEF RowsAreComplete
  <2> QED
    BY <2>1, <2>2, <2>3
<1>6. ASSUME emailStatus' = "submitted" PROVE cutShort' \/ Complete'
  BY <1>3, <1>6, SubmittedHasAllRows DEF RowsAreComplete
<1> QED
  BY <1>4, <1>5, <1>6 DEF RowsAreComplete

-----------------------------------------------------------------------------
(* The theorems: containers, boot scans and retries that do not overlap.   *)

\* DeliveryInv and the four layers.
SerialInv ==
  /\ DeliveryInv
  /\ ClaimInv
  /\ RowsInv
  /\ SealInv
  /\ RowsAreComplete

\* Without overlaps the whole invariant holds over every send, crash, shutdown,
\* resume and retry of emailJob.
THEOREM SerialInvariant ==
  ASSUME Overlap = {}
  PROVE  Spec => []SerialInv
<1>1. Init => SerialInv
  BY InitDelivery, InitClaims, InitRows, InitSeals, InitComplete DEF SerialInv
<1>2. SerialInv /\ [Next]_vars => SerialInv'
  <2> SUFFICES ASSUME SerialInv, [Next]_vars PROVE SerialInv'
    OBVIOUS
  <2>1. DeliveryInv' /\ Typed
    BY NextKeepsDelivery DEF SerialInv, DeliveryInv, Typed
  <2> QED
    BY <2>1, NextKeepsClaims, NextKeepsRows, NextKeepsSeals,
       NextKeepsComplete DEF SerialInv
<1> QED
  BY <1>1, <1>2, PTL DEF Spec

\* An email has one active job at most.
THEOREM JobsTakeTurns ==
  ASSUME Overlap = {}
  PROVE  Spec => []OneActiveJob
<1>1. SerialInv => OneActiveJob
  BY DEF SerialInv, ClaimInv, OneClaim, Busy, OneActiveJob
<1> QED
  BY <1>1, SerialInvariant, PTL

\* No part of the audience is in two batches.
THEOREM PartsAreBatchedOnce ==
  ASSUME Overlap = {}
  PROVE  Spec => []NoPartBatchedTwice
<1>1. SerialInv => NoPartBatchedTwice
  <2> SUFFICES ASSUME SerialInv, NEW a \in Present, NEW b \in Present,
                      a[2] = b[2]
               PROVE  a = b
    BY DEF NoPartBatchedTwice
  <2>1. a[1] = b[1]
    BY DEF SerialInv, RowsInv, OneCreator
  <2> QED
    BY <2>1 DEF Present, Batches
<1> QED
  BY <1>1, SerialInvariant, PTL

\* A 'submitted' email has no batch row whose delivery is in doubt.
THEOREM SubmittedIsAcknowledged ==
  ASSUME Overlap = {}
  PROVE  Spec => []SubmittedEmailAcknowledged
<1>1. SerialInv => SubmittedEmailAcknowledged
  BY DEF SerialInv, SealInv, SubmittedIsSealed, Sealed,
         SubmittedEmailAcknowledged
<1> QED
  BY <1>1, SerialInvariant, PTL

\* A 'submitted' email was accepted for every part of the audience, unless a
\* createBatches call was cut short.
THEOREM SubmittedIsComplete ==
  ASSUME Overlap = {}
  PROVE  Spec => []SubmittedEmailIsComplete
<1>1. SerialInv => SubmittedEmailIsComplete
  <2> SUFFICES ASSUME SerialInv, emailStatus = "submitted", ~cutShort,
                      NEW c \in Chunks
               PROVE  \E j \in Jobs : accepted[<<j, c>>] > 0
    BY DEF SubmittedEmailIsComplete
  <2>1. PICK b \in Present : b[2] = c
    BY DEF SerialInv, RowsAreComplete, Complete
  <2>2. /\ accepted[b] = lost[b] + 1 /\ b \in Batches
        /\ lost[b] \in Nat
    BY DEF SerialInv, SealInv, SubmittedIsSealed, Sealed, Present,
           DeliveryInv, TypeOK
  <2>3. b[1] \in Jobs /\ b = <<b[1], c>>
    BY <2>1, <2>2 DEF Batches
  <2>4. accepted[b] > 0
    BY <2>2
  <2> QED
    BY <2>3, <2>4
<1> QED
  BY <1>1, SerialInvariant, PTL

-----------------------------------------------------------------------------
(* A graceful exit.  While no query keeps failing, workers do not outlive  *)
(* the sendBatches call that started them.                                 *)

\* A worker runs only while its job is in sendBatches.
WorkersHaveTheirJob ==
  \A k \in Slots : worker[k] # "off" => job[k[1]] = "sending"

\* sendBatches starts its workers and waits for all of them.
LEMMA NextKeepsWorkersWithJob ==
  ASSUME "db" \notin Faults, Typed, WorkersHaveTheirJob, [Next]_vars
  PROVE  WorkersHaveTheirJob'
<1> USE DEF WorkersHaveTheirJob, JobMoves, WorkerMoves,
            dbVars, mailVars, procVars, jobVars, workVars
<1>0. /\ job \in [Jobs -> JobState]
      /\ worker \in [Slots -> WorkerState]
      /\ \A k \in Slots : k[1] \in Jobs
  BY DEF Typed, TypeOK, Slots
<1>1. CASE UNCHANGED vars
  BY <1>1 DEF vars
<1>2. ASSUME NEW p \in Procs, Boot(p) \/ Shutdown(p)
      PROVE  WorkersHaveTheirJob'
  BY <1>2 DEF Boot, Shutdown
<1>3. ASSUME NEW p \in Procs, Exit(p) \/ Crash(p)
      PROVE  WorkersHaveTheirJob'
  BY <1>0, <1>3 DEF Exit, Crash, Kill
<1>4. ASSUME NEW p \in Procs, ScheduleEmail(p), UNCHANGED worker
      PROVE  WorkersHaveTheirJob'
  BY <1>0, <1>4 DEF ScheduleEmail
<1>5. ASSUME NEW p \in Procs, CreateEmail(p) \/ ResumeStep(p)
      PROVE  WorkersHaveTheirJob'
  BY <1>4, <1>5
  DEF CreateEmail, ResumeStep, ResumeScan, ResumeGiveUp, ResumeFlip,
      ResumeSchedule, ResumeFails
<1>6. ASSUME NEW q \in Requests,
             \/ \E p \in Procs : RetryRead(q, p)
             \/ RetryRefused(q)
      PROVE  WorkersHaveTheirJob'
  BY <1>6 DEF RetryRead, RetryRefused
<1>7. ASSUME NEW q \in Requests, RetrySave(q) PROVE WorkersHaveTheirJob'
  BY <1>0, <1>7 DEF RetrySave, ScheduleEmail
<1>8. ASSUME NEW j \in Jobs, JobStep(j) PROVE WorkersHaveTheirJob'
  <2>1. CASE LoadBatches(j) \/ CreateDone(j)
    BY <1>0, <2>1 DEF LoadBatches, CreateDone, StartSending
  <2>2. CASE SendingDone(j)
    BY <1>0, <2>2 DEF SendingDone, Running
  <2>3. CASE ~(LoadBatches(j) \/ CreateDone(j) \/ SendingDone(j))
    BY <1>0, <1>8, <2>3
    DEF JobStep, JobStart, JobStartFails, FindNoBatches, CreateBatch,
        PrepareFails, SaveSubmitted, SaveSubmittedFails, SaveFailed,
        SaveFailedFails
  <2> QED
    BY <2>1, <2>2, <2>3
<1>9. ASSUME NEW k \in Slots, WorkerStep(k) PROVE WorkersHaveTheirJob'
  <2>1. ~WorkerThrows(k)
    BY DEF WorkerThrows, Fault
  <2>2. /\ UNCHANGED job
        /\ \A l \in Slots : worker'[l] # "off" => worker[l] # "off"
    BY <1>0, <1>9, <2>1
    DEF WorkerStep, TakeBatch, WorkerReturns, Claim, SkipBatch, MarkProcessed,
        ProviderAccepts, ReplyArrives, ReplyLost, SendGivesUp,
        RecordSubmitted, RecordFailed
  <2> QED
    BY <2>2
<1> QED
  BY <1>1, <1>2, <1>3, <1>5, <1>6, <1>7, <1>8, <1>9 DEF Next

\* Only a crash or a graceful exit ends a container.
LEMMA HowContainersGo ==
  ASSUME Typed, [Next]_vars, NEW p \in Procs,
         proc[p] # "down", proc'[p] = "down"
  PROVE  Exit(p) \/ Crash(p)
<1> USE DEF dbVars, mailVars, procVars, jobVars, workVars
<1>0. proc \in [Procs -> {"down", "up", "draining"}]
  BY DEF Typed, TypeOK
<1>1. ASSUME UNCHANGED proc PROVE FALSE
  BY <1>1
<1>2. ASSUME NEW r \in Procs, Boot(r) \/ Shutdown(r) PROVE FALSE
  BY <1>0, <1>2 DEF Boot, Shutdown
<1>3. ASSUME NEW r \in Procs, Exit(r) \/ Crash(r) PROVE r = p
  BY <1>0, <1>3 DEF Exit, Crash, Kill
<1>4. ASSUME NEW r \in Procs, CreateEmail(r) \/ ResumeStep(r) PROVE FALSE
  BY <1>1, <1>4
  DEF CreateEmail, ResumeStep, ResumeScan, ResumeGiveUp, ResumeFlip,
      ResumeSchedule, ResumeFails
<1>5. ASSUME NEW q \in Requests,
             \/ \E r \in Procs : RetryRead(q, r)
             \/ RetryRefused(q) \/ RetrySave(q)
      PROVE  FALSE
  BY <1>1, <1>5 DEF RetryRead, RetryRefused, RetrySave
<1>6. ASSUME NEW j \in Jobs, JobStep(j) PROVE FALSE
  BY <1>1, <1>6
  DEF JobStep, JobStart, JobStartFails, LoadBatches, FindNoBatches,
      CreateBatch, CreateDone, PrepareFails, SendingDone, SaveSubmitted,
      SaveSubmittedFails, SaveFailed, SaveFailedFails
<1>7. ASSUME NEW k \in Slots, WorkerStep(k) PROVE FALSE
  BY <1>1, <1>7
  DEF WorkerStep, TakeBatch, WorkerReturns, Claim, SkipBatch, MarkProcessed,
      ProviderAccepts, ReplyArrives, ReplyLost, SendGivesUp, RecordSubmitted,
      RecordFailed, WorkerThrows
<1>8. CASE UNCHANGED vars
  BY <1>1, <1>8 DEF vars
<1> QED
  BY <1>2, <1>3, <1>4, <1>5, <1>6, <1>7, <1>8 DEF Next

\* While no query keeps failing, a graceful exit kills no worker between its
\* call to the provider and the record of the outcome (onShutdown).
THEOREM ExitWaits ==
  ASSUME "db" \notin Faults
  PROVE  Spec => ExitAwaitsRecords
<1>1. Init => Typed /\ WorkersHaveTheirJob
  BY InitTyped DEF Init, WorkersHaveTheirJob
<1>2. Typed /\ WorkersHaveTheirJob /\ [Next]_vars
        => Typed' /\ WorkersHaveTheirJob'
  BY NextTyped, NextKeepsWorkersWithJob
<1>3. Typed /\ WorkersHaveTheirJob /\ [Next]_vars
        => [\A p \in Procs :
              proc[p] = "draining" /\ proc'[p] = "down" /\ faults' = faults
                => \A k \in Slots : host[k[1]] = p => ~Owns(k)]_vars
  <2> SUFFICES ASSUME Typed, WorkersHaveTheirJob, [Next]_vars,
                      NEW p \in Procs, NEW k \in Slots,
                      proc[p] = "draining", proc'[p] = "down",
                      faults' = faults, host[k[1]] = p
               PROVE  ~Owns(k)
    OBVIOUS
  <2>1. Exit(p)
    <3>1. ~Crash(p)
      BY DEF Crash, Fault, Typed, TypeOK
    <3> QED
      BY <3>1, HowContainersGo
  <2>2. k[1] \in Jobs
    BY DEF Slots
  <2>3. job[k[1]] = "done"
    BY <2>1, <2>2 DEF Exit, QueueIdle
  <2> QED
    BY <2>3 DEF WorkersHaveTheirJob, Owns
<1> QED
  BY <1>1, <1>2, <1>3, PTL DEF Spec, ExitAwaitsRecords

=============================================================================
