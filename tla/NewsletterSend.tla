--------------------------- MODULE NewsletterSend ---------------------------
(***************************************************************************)
(* Sending one newsletter email, as services/email-service does it: the    *)
(* `emails` row and its `email_batches` rows in the database, the Ghost    *)
(* containers that run email jobs for it, the two workers of a job, and    *)
(* the mail provider.                                                      *)
(*                                                                         *)
(* A JOB is one run of BatchSendingService#emailJob.  It locks the email   *)
(* row, loads the batch rows or creates them, and lets WORKERS (runWorker) *)
(* shift batches from an in-memory queue.  Jobs are scheduled by           *)
(* createEmail, by retryEmail and by resumeInterruptedSends at boot.  What *)
(* survives a container is the database and what the provider accepted;    *)
(* jobs, workers, queues and requests die with it.                         *)
(*                                                                         *)
(* A batch is named <<j, c>>: the batch that job j created for the part c  *)
(* of the audience (one createBatch call).  Its recipients are that part.  *)
(***************************************************************************)
EXTENDS Naturals, FiniteSets

CONSTANTS
  Procs,          \* containers that may run Ghost on this database
  NoProc,
  Requests,       \* retry requests an operator may make
  MaxJobs,        \* bound: how many times an email job may be scheduled
  Chunks,         \* parts of the audience, one createBatch call each
  Workers,        \* the workers of a job (MAX_SENDING_CONCURRENCY of them)
  NoBatch,
  Faults,         \* kinds of fault that may happen
  MaxFaults,      \* bound: how many of them happen
  MaxShutdowns,   \* bound: how many graceful shutdowns happen
  Overlap,        \* kinds of concurrency between containers and requests
  Verdicts        \* what the boot scan may find the age of the email to be

FaultKinds == {"crash", "db", "lost"}
OverlapKinds == {"deploy", "boot", "retry"}
VerdictKinds == {"expire", "revive", "skip"}

ASSUME ConstantsAssumption ==
  /\ NoProc \notin Procs
  /\ MaxJobs \in Nat
  /\ Chunks \subseteq Nat
  /\ NoBatch \notin (1..MaxJobs) \X Chunks
  /\ Faults \subseteq FaultKinds
  /\ Overlap \subseteq OverlapKinds
  /\ Verdicts \subseteq VerdictKinds
  /\ MaxFaults \in Nat
  /\ MaxShutdowns \in Nat

Jobs == 1..MaxJobs
Slots == Jobs \X Workers      \* the workers of all jobs; k[1] is the job of k
Batches == Jobs \X Chunks

VARIABLES
  emailStatus,  \* emails.status, "none" before the row exists
  batch,        \* email_batches.status, "absent" before the row exists
  accepted,     \* how often the provider accepted each batch
  lost,         \* how often the provider's answer to an accepted call was lost
  proc,         \* each container: "down", "up" or "draining"
  resume,       \* where the boot scan of each container is
  request,      \* where each retry request is
  servedBy,     \* the container that serves it
  job,          \* where each email job is
  host,         \* the container that runs it
  batches,      \* its `batches` array
  prior,        \* the members of `batches` it loaded with status 'submitted'
  queue,        \* its `queue` array
  succeeded,    \* the batches its `succeededCount` counts
  worker,       \* where each worker is
  holds,        \* the batch it works on
  faults,       \* faults so far
  shutdowns,    \* graceful shutdowns so far
  cutShort      \* history: a createBatches call ended before its last batch

dbVars   == <<emailStatus, batch>>
mailVars == <<accepted, lost>>
procVars == <<proc, resume, request, servedBy, shutdowns>>
jobVars  == <<job, host, batches, prior, queue, succeeded>>
workVars == <<worker, holds>>
vars == <<dbVars, mailVars, procVars, jobVars, workVars, faults, cutShort>>

EmailStatus  == {"none", "pending", "submitting", "submitted", "failed"}
BatchStatus  == {"absent", "pending", "submitting", "submitted", "failed"}
JobState     == {"unused", "queued", "loading", "creating", "sending",
                 "saving", "failing", "done"}
WorkerState  == {"off", "loop", "lock", "send", "reply", "recordSubmitted",
                 "recordFailed", "sent", "unsent"}

TypeOK ==
  /\ emailStatus \in EmailStatus
  /\ batch \in [Batches -> BatchStatus]
  /\ accepted \in [Batches -> Nat]
  /\ lost \in [Batches -> Nat]
  /\ proc \in [Procs -> {"down", "up", "draining"}]
  /\ resume \in [Procs -> {"idle", "scan", "expire", "revive", "schedule"}]
  /\ request \in [Requests -> {"new", "checked", "over"}]
  /\ servedBy \in [Requests -> Procs \cup {NoProc}]
  /\ job \in [Jobs -> JobState]
  /\ host \in [Jobs -> Procs \cup {NoProc}]
  /\ batches \in [Jobs -> SUBSET Batches]
  /\ prior \in [Jobs -> SUBSET Batches]
  /\ queue \in [Jobs -> SUBSET Batches]
  /\ succeeded \in [Jobs -> SUBSET Batches]
  /\ worker \in [Slots -> WorkerState]
  /\ holds \in [Slots -> Batches \cup {NoBatch}]
  /\ faults \in Nat
  /\ shutdowns \in Nat
  /\ cutShort \in BOOLEAN

Init ==
  /\ emailStatus = "none"
  /\ batch = [b \in Batches |-> "absent"]
  /\ accepted = [b \in Batches |-> 0]
  /\ lost = [b \in Batches |-> 0]
  /\ proc = [p \in Procs |-> "down"]
  /\ resume = [p \in Procs |-> "idle"]
  /\ request = [q \in Requests |-> "new"]
  /\ servedBy = [q \in Requests |-> NoProc]
  /\ job = [j \in Jobs |-> "unused"]
  /\ host = [j \in Jobs |-> NoProc]
  /\ batches = [j \in Jobs |-> {}]
  /\ prior = [j \in Jobs |-> {}]
  /\ queue = [j \in Jobs |-> {}]
  /\ succeeded = [j \in Jobs |-> {}]
  /\ worker = [k \in Slots |-> "off"]
  /\ holds = [k \in Slots |-> NoBatch]
  /\ faults = 0
  /\ shutdowns = 0
  /\ cutShort = FALSE

-----------------------------------------------------------------------------
(* Shared pieces of the actions.                                           *)

\* A fault of this kind happens, within the bound.
Fault(kind) ==
  /\ kind \in Faults
  /\ faults < MaxFaults
  /\ faults' = faults + 1

\* The batch rows of the email: EmailBatch.findAll({filter: email_id}).
Present == {b \in Batches : batch[b] # "absent"}

\* updateStatusLock: inside one transaction the row is read `for update`, its
\* status compared with the allowed ones, and written.
EmailLock(to, allowed) ==
  emailStatus' = IF emailStatus \in allowed THEN to ELSE emailStatus

\* scheduleEmail: push a job on the container's in-process job queue.  Job
\* names are handed out in order.
ScheduleEmail(p) ==
  \E j \in Jobs :
    /\ job[j] = "unused"
    /\ \A i \in 1..(j - 1) : job[i] # "unused"
    /\ job' = [job EXCEPT ![j] = "queued"]
    /\ host' = [host EXCEPT ![j] = p]
    /\ UNCHANGED <<batches, prior, queue, succeeded>>

JobMoves(j, from, to) ==
  /\ job[j] = from
  /\ job' = [job EXCEPT ![j] = to]

\* The workers still running for job j (after a rejected Promise.all there
\* may be one although the job itself has ended).
Running(j) == {k \in Slots : k[1] = j /\ worker[k] # "off"}

\* A createBatches call of job j that has stored some of its batches and not
\* all of them.
HalfCreated(j) ==
  /\ job[j] = "creating"
  /\ batches[j] # {}
  /\ \E c \in Chunks : <<j, c>> \notin batches[j]

\* Everything container p held in memory is gone.
Kill(p) ==
  LET Mine(j) == host[j] = p IN
  /\ proc' = [proc EXCEPT ![p] = "down"]
  /\ resume' = [resume EXCEPT ![p] = "idle"]
  /\ request' = [q \in Requests |->
                   IF servedBy[q] = p THEN "over" ELSE request[q]]
  /\ job' = [j \in Jobs |-> IF Mine(j) THEN "done" ELSE job[j]]
  /\ batches' = [j \in Jobs |-> IF Mine(j) THEN {} ELSE batches[j]]
  /\ prior' = [j \in Jobs |-> IF Mine(j) THEN {} ELSE prior[j]]
  /\ queue' = [j \in Jobs |-> IF Mine(j) THEN {} ELSE queue[j]]
  /\ succeeded' = [j \in Jobs |-> IF Mine(j) THEN {} ELSE succeeded[j]]
  /\ worker' = [k \in Slots |-> IF Mine(k[1]) THEN "off" ELSE worker[k]]
  /\ holds' = [k \in Slots |-> IF Mine(k[1]) THEN NoBatch ELSE holds[k]]
  /\ cutShort' = (cutShort \/ \E j \in Jobs : Mine(j) /\ HalfCreated(j))
  /\ UNCHANGED <<dbVars, mailVars, servedBy, host>>

-----------------------------------------------------------------------------
(* Containers: boot, graceful shutdown, crash.                             *)

\* A container starts and, once it serves requests, runs the boot scan.
\* Without "deploy" in Overlap the previous container is gone by then.
Boot(p) ==
  /\ proc[p] = "down"
  /\ "deploy" \in Overlap \/ \A q \in Procs : proc[q] = "down"
  /\ proc' = [proc EXCEPT ![p] = "up"]
  /\ resume' = [resume EXCEPT ![p] = "scan"]
  /\ UNCHANGED <<dbVars, mailVars, request, servedBy, shutdowns, jobVars,
                 workVars, faults, cutShort>>

\* SIGTERM: the HTTP server has finished its requests and stops, then the
\* cleanup tasks start and onShutdown sets #shuttingDown.
Shutdown(p) ==
  /\ proc[p] = "up"
  /\ shutdowns < MaxShutdowns
  /\ \A q \in Requests : servedBy[q] = p => request[q] = "over"
  /\ proc' = [proc EXCEPT ![p] = "draining"]
  /\ shutdowns' = shutdowns + 1
  /\ UNCHANGED <<dbVars, mailVars, resume, request, servedBy, jobVars,
                 workVars, faults, cutShort>>

\* #inFlight: the sendBatches calls of container p that have not settled.
InFlight(p) == {j \in Jobs : host[j] = p /\ job[j] = "sending"}

\* jobService.shutdown (job-manager): the in-process queue is idle.
QueueIdle(p) == \A j \in Jobs : host[j] = p => job[j] = "done"

\* All cleanup tasks are done and the process exits.  Nothing waits for the
\* boot scan, nor for a worker whose sendBatches call was already rejected.
Exit(p) ==
  /\ proc[p] = "draining"
  /\ InFlight(p) = {}
  /\ QueueIdle(p)
  /\ Kill(p)
  /\ UNCHANGED <<shutdowns, faults>>

\* The container is killed.
Crash(p) ==
  /\ proc[p] # "down"
  /\ Fault("crash")
  /\ Kill(p)
  /\ UNCHANGED shutdowns

\* Whether container p serves requests: it is up and, without "boot" in
\* Overlap, its boot scan is over.
Serves(p) ==
  /\ proc[p] = "up"
  /\ "boot" \in Overlap \/ resume[p] = "idle"

-----------------------------------------------------------------------------
(* EmailService: createEmail, retryEmail, resumeInterruptedSends.          *)

\* createEmail: add the row, then schedule the job; a scheduling error is
\* stored in the row.
CreateEmail(p) ==
  /\ Serves(p)
  /\ emailStatus = "none"
  /\ \/ /\ emailStatus' = "pending"
        /\ ScheduleEmail(p)
        /\ UNCHANGED faults
     \/ /\ Fault("db")
        /\ emailStatus' = "failed"
        /\ UNCHANGED jobVars
  /\ UNCHANGED <<batch, mailVars, procVars, workVars, cutShort>>

\* Mutant of RetryRead: the status check is dropped.
RetryReadAnyStatus(q, p) ==
  /\ Serves(p)
  /\ request[q] = "new"
  /\ "retry" \in Overlap \/ \A r \in Requests : request[r] # "checked"
  /\ request' = [request EXCEPT ![q] = "checked"]
  /\ servedBy' = [servedBy EXCEPT ![q] = p]
  /\ UNCHANGED <<dbVars, mailVars, proc, resume, shutdowns, jobVars,
                 workVars, faults, cutShort>>

\* retryEmail up to `await this.checkLimits()`: the row was read in an earlier
\* query, without a lock, and its status was 'failed'.
RetryRead(q, p) ==
  /\ Serves(p)
  /\ request[q] = "new"
  /\ "retry" \in Overlap \/ \A r \in Requests : request[r] # "checked"
  /\ emailStatus = "failed"
  /\ request' = [request EXCEPT ![q] = "checked"]
  /\ servedBy' = [servedBy EXCEPT ![q] = p]
  /\ UNCHANGED <<dbVars, mailVars, proc, resume, shutdowns, jobVars,
                 workVars, faults, cutShort>>

\* checkLimits refuses the retry, or the save that follows it fails.
RetryRefused(q) ==
  /\ request[q] = "checked"
  /\ request' = [request EXCEPT ![q] = "over"]
  /\ UNCHANGED <<dbVars, mailVars, proc, resume, servedBy, shutdowns,
                 jobVars, workVars, faults, cutShort>>

\* The rest of retryEmail: save 'pending', whatever the row holds by now, and
\* schedule a job.
RetrySave(q) ==
  /\ request[q] = "checked"
  /\ request' = [request EXCEPT ![q] = "over"]
  /\ emailStatus' = "pending"
  /\ ScheduleEmail(servedBy[q])
  /\ UNCHANGED <<batch, mailVars, proc, resume, servedBy, shutdowns,
                 workVars, faults, cutShort>>

\* The two findAll queries of the boot scan: an email in 'submitting' is older
\* than the cutoff, younger, or (created at the cutoff) in neither list.
ResumeScan(p) ==
  /\ resume[p] = "scan"
  /\ \E verdict \in Verdicts :
       resume' = [resume EXCEPT ![p] =
                    IF emailStatus = "submitting" /\ verdict # "skip"
                    THEN verdict ELSE "idle"]
  /\ UNCHANGED <<dbVars, mailVars, proc, request, servedBy, shutdowns,
                 jobVars, workVars, faults, cutShort>>

\* Mutant of ResumeGiveUp: the lock is asked for the wrong status.
ResumeGiveUpPending(p) ==
  /\ resume[p] \in {"expire", "revive"}
  /\ EmailLock("failed", {"pending"})
  /\ resume' = [resume EXCEPT ![p] = "idle"]
  /\ UNCHANGED <<batch, mailVars, proc, request, servedBy, shutdowns,
                 jobVars, workVars, faults, cutShort>>

\* A stale email, or one whose post is no longer sendable, is flipped to
\* 'failed' if it is still in 'submitting'.
ResumeGiveUp(p) ==
  /\ resume[p] \in {"expire", "revive"}
  /\ EmailLock("failed", {"submitting"})
  /\ resume' = [resume EXCEPT ![p] = "idle"]
  /\ UNCHANGED <<batch, mailVars, proc, request, servedBy, shutdowns,
                 jobVars, workVars, faults, cutShort>>

\* #resumeOneEmail on a sendable post: 'submitting' -> 'pending'; an email that
\* has left 'submitting' is skipped.
ResumeFlip(p) ==
  /\ resume[p] = "revive"
  /\ EmailLock("pending", {"submitting"})
  /\ resume' = [resume EXCEPT ![p] =
                   IF emailStatus = "submitting" THEN "schedule" ELSE "idle"]
  /\ UNCHANGED <<batch, mailVars, proc, request, servedBy, shutdowns,
                 jobVars, workVars, faults, cutShort>>

\* ... then, after the query of #buildResumeBreadcrumb, schedule the job.
ResumeSchedule(p) ==
  /\ resume[p] = "schedule"
  /\ resume' = [resume EXCEPT ![p] = "idle"]
  /\ ScheduleEmail(p)
  /\ UNCHANGED <<dbVars, mailVars, proc, request, servedBy, shutdowns,
                 workVars, faults, cutShort>>

\* A database error anywhere in the scan is logged and ends it.
ResumeFails(p) ==
  /\ resume[p] # "idle"
  /\ Fault("db")
  /\ resume' = [resume EXCEPT ![p] = "idle"]
  /\ UNCHANGED <<dbVars, mailVars, proc, request, servedBy, shutdowns,
                 jobVars, workVars, cutShort>>

-----------------------------------------------------------------------------
(* BatchSendingService: the email job.                                     *)

\* emailJob takes the lock on the email row, or returns because the email is
\* neither pending nor failed.
JobStart(j) ==
  /\ \/ /\ emailStatus \in {"pending", "failed"}
        /\ JobMoves(j, "queued", "loading")
     \/ /\ emailStatus \notin {"pending", "failed"}
        /\ JobMoves(j, "queued", "done")
  /\ EmailLock("submitting", {"pending", "failed"})
  /\ UNCHANGED <<batch, mailVars, procVars, host, batches, prior, queue,
                 succeeded, workVars, faults, cutShort>>

\* The lock itself fails, before emailJob's try block: the job rejects and the
\* row stays as it was.
JobStartFails(j) ==
  /\ Fault("db")
  /\ JobMoves(j, "queued", "done")
  /\ UNCHANGED <<dbVars, mailVars, procVars, host, batches, prior, queue,
                 succeeded, workVars, cutShort>>

\* sendBatches starts: all of the job's batches are queued, its workers run.
StartSending(j, rows) ==
  /\ job' = [job EXCEPT ![j] = "sending"]
  /\ batches' = [batches EXCEPT ![j] = rows]
  /\ queue' = [queue EXCEPT ![j] = rows]
  /\ worker' = [k \in Slots |-> IF k[1] = j THEN "loop" ELSE worker[k]]

\* sendEmail finds batch rows and keeps them: createBatches is not called.
LoadBatches(j) ==
  /\ job[j] = "loading"
  /\ Present # {}
  /\ StartSending(j, Present)
  /\ prior' = [prior EXCEPT ![j] =
                  {b \in Present : batch[b] = "submitted"}]
  /\ UNCHANGED <<dbVars, mailVars, procVars, host, succeeded, holds, faults,
                 cutShort>>

\* Mutant of FindNoBatches: only batches still to be sent are looked for.
FindNoUnsentBatches(j) ==
  /\ \A b \in Batches : batch[b] \notin {"pending", "failed"}
  /\ JobMoves(j, "loading", "creating")
  /\ UNCHANGED <<dbVars, mailVars, procVars, host, batches, prior, queue,
                 succeeded, workVars, faults, cutShort>>

\* sendEmail finds none: createBatches begins.
FindNoBatches(j) ==
  /\ Present = {}
  /\ JobMoves(j, "loading", "creating")
  /\ UNCHANGED <<dbVars, mailVars, procVars, host, batches, prior, queue,
                 succeeded, workVars, faults, cutShort>>

\* createBatch: one batch row and its recipients in one transaction, the parts
\* of the audience in order.
CreateBatch(j) ==
  /\ job[j] = "creating"
  /\ \E c \in Chunks :
       /\ <<j, c>> \notin batches[j]
       /\ \A d \in Chunks : d < c => <<j, d>> \in batches[j]
       /\ batch' = [batch EXCEPT ![<<j, c>>] = "pending"]
       /\ batches' = [batches EXCEPT ![j] = @ \cup {<<j, c>>}]
  /\ UNCHANGED <<emailStatus, mailVars, procVars, job, host, prior, queue,
                 succeeded, workVars, faults, cutShort>>

\* Mutant of CreateDone: the paging loop may break before its last page.
CreateDoneEarly(j) ==
  /\ job[j] = "creating"
  /\ batches[j] # {}
  /\ StartSending(j, batches[j])
  /\ UNCHANGED <<dbVars, mailVars, procVars, host, prior, succeeded, holds,
                 faults, cutShort>>

\* createBatches returns its batches, all of them 'pending' in memory.
CreateDone(j) ==
  /\ job[j] = "creating"
  /\ batches[j] = {j} \X Chunks
  /\ StartSending(j, batches[j])
  /\ UNCHANGED <<dbVars, mailVars, procVars, host, prior, succeeded, holds,
                 faults, cutShort>>

\* Loading or creating throws: emailJob's catch block runs.  Batches created
\* before the error stay.
PrepareFails(j) ==
  /\ Fault("db")
  /\ JobMoves(j, "loading", "failing") \/ JobMoves(j, "creating", "failing")
  /\ cutShort' = (cutShort \/ HalfCreated(j))
  /\ UNCHANGED <<dbVars, mailVars, procVars, host, batches, prior, queue,
                 succeeded, workVars>>

\* Mutant of SendingDone: the first worker to return ends the job
\* (Promise.race for Promise.all).
SendingDoneAtFirst(j) ==
  LET stopped == proc[host[j]] = "draining" /\ queue[j] # {} IN
  /\ job[j] = "sending"
  /\ \E k \in Slots : k[1] = j /\ worker[k] = "off"
  /\ \/ stopped /\ JobMoves(j, "sending", "done")
     \/ ~stopped /\ succeeded[j] # batches[j] /\ JobMoves(j, "sending", "failing")
     \/ ~stopped /\ succeeded[j] = batches[j] /\ JobMoves(j, "sending", "saving")
  /\ UNCHANGED <<dbVars, mailVars, procVars, host, batches, prior, queue,
                 succeeded, workVars, faults, cutShort>>

\* Promise.all resolves: both workers have returned.  A shutdown that left
\* batches in the queue ends the job with the row still in 'submitting'; fewer
\* successes than batches is an error; otherwise the email was sent.
SendingDone(j) ==
  LET stopped == proc[host[j]] = "draining" /\ queue[j] # {} IN
  /\ job[j] = "sending"
  /\ Running(j) = {}
  /\ \/ stopped /\ JobMoves(j, "sending", "done")
     \/ ~stopped /\ succeeded[j] # batches[j] /\ JobMoves(j, "sending", "failing")
     \/ ~stopped /\ succeeded[j] = batches[j] /\ JobMoves(j, "sending", "saving")
  /\ UNCHANGED <<dbVars, mailVars, procVars, host, batches, prior, queue,
                 succeeded, workVars, faults, cutShort>>

\* Save 'submitted', whatever the row holds by now.
SaveSubmitted(j) ==
  /\ JobMoves(j, "saving", "done")
  /\ emailStatus' = "submitted"
  /\ UNCHANGED <<batch, mailVars, procVars, host, batches, prior, queue,
                 succeeded, workVars, faults, cutShort>>

\* That save is inside the try block: its error leads to the catch block.
SaveSubmittedFails(j) ==
  /\ Fault("db")
  /\ JobMoves(j, "saving", "failing")
  /\ UNCHANGED <<dbVars, mailVars, procVars, host, batches, prior, queue,
                 succeeded, workVars, cutShort>>

\* The catch block saves 'failed', whatever the row holds by now.
SaveFailed(j) ==
  /\ JobMoves(j, "failing", "done")
  /\ emailStatus' = "failed"
  /\ UNCHANGED <<batch, mailVars, procVars, host, batches, prior, queue,
                 succeeded, workVars, faults, cutShort>>

\* An error there rejects the job: the row stays as it was.
SaveFailedFails(j) ==
  /\ Fault("db")
  /\ JobMoves(j, "failing", "done")
  /\ UNCHANGED <<dbVars, mailVars, procVars, host, batches, prior, queue,
                 succeeded, workVars, cutShort>>

-----------------------------------------------------------------------------
(* BatchSendingService: a worker (runWorker and sendBatch).                *)

WorkerMoves(k, from, to) ==
  /\ worker[k] = from
  /\ worker' = [worker EXCEPT ![k] = to]

\* runWorker shifts the next batch, unless the container is shutting down.
TakeBatch(k) ==
  LET j == k[1] IN
  /\ WorkerMoves(k, "loop", "lock")
  /\ proc[host[j]] # "draining"
  /\ \E b \in queue[j] :
       /\ queue' = [queue EXCEPT ![j] = @ \ {b}]
       /\ holds' = [holds EXCEPT ![k] = b]
  /\ UNCHANGED <<dbVars, mailVars, procVars, job, host, batches, prior,
                 succeeded, faults, cutShort>>

\* Mutant of WorkerReturns: a worker shifts nothing during a shutdown, and
\* returns only when nothing is left.
WorkerReturnsWhenEmpty(k) ==
  /\ WorkerMoves(k, "loop", "off")
  /\ queue[k[1]] = {}
  /\ UNCHANGED <<dbVars, mailVars, procVars, jobVars, holds, faults, cutShort>>

\* runWorker returns: nothing left, or the container is shutting down.
WorkerReturns(k) ==
  /\ WorkerMoves(k, "loop", "off")
  /\ queue[k[1]] = {} \/ proc[host[k[1]]] = "draining"
  /\ UNCHANGED <<dbVars, mailVars, procVars, jobVars, holds, faults, cutShort>>

\* sendBatch returns to the loop of runWorker.
BatchDone(k, ok) ==
  /\ succeeded' = [succeeded EXCEPT ![k[1]] =
                      IF ok THEN @ \cup {holds[k]} ELSE @]
  /\ holds' = [holds EXCEPT ![k] = NoBatch]

\* Mutants of Claim: the row's status is not checked ...
ClaimAny(k) ==
  /\ WorkerMoves(k, "lock", "send")
  /\ batch' = [batch EXCEPT ![holds[k]] = "submitting"]
  /\ UNCHANGED <<emailStatus, mailVars, procVars, jobVars, holds, faults,
                 cutShort>>

\* ... or 'submitting' rows are taken for unfinished ones and sent.
ClaimOrphans(k) ==
  /\ WorkerMoves(k, "lock", "send")
  /\ batch[holds[k]] \in {"pending", "failed", "submitting"}
  /\ batch' = [batch EXCEPT ![holds[k]] = "submitting"]
  /\ UNCHANGED <<emailStatus, mailVars, procVars, jobVars, holds, faults,
                 cutShort>>

\* sendBatch locks its batch row.
Claim(k) ==
  /\ WorkerMoves(k, "lock", "send")
  /\ batch[holds[k]] \in {"pending", "failed"}
  /\ batch' = [batch EXCEPT ![holds[k]] = "submitting"]
  /\ UNCHANGED <<emailStatus, mailVars, procVars, jobVars, holds, faults,
                 cutShort>>

\* Mutant of SkipBatch: whatever cannot be locked counts as sent.
SkipBatchAsSent(k) ==
  /\ WorkerMoves(k, "lock", "loop")
  /\ batch[holds[k]] \notin {"pending", "failed"}
  /\ BatchDone(k, TRUE)
  /\ UNCHANGED <<dbVars, mailVars, procVars, job, host, batches, prior, queue,
                 faults, cutShort>>

\* The row is neither pending nor failed: the batch counts as sent if it was
\* 'submitted' when the job loaded it, and as an error otherwise.
SkipBatch(k) ==
  /\ WorkerMoves(k, "lock", "loop")
  /\ batch[holds[k]] \notin {"pending", "failed"}
  /\ BatchDone(k, holds[k] \in prior[k[1]])
  /\ UNCHANGED <<dbVars, mailVars, procVars, job, host, batches, prior, queue,
                 faults, cutShort>>

\* The provider accepts the batch.
ProviderAccepts(k) ==
  /\ WorkerMoves(k, "send", "reply")
  /\ accepted' = [accepted EXCEPT ![holds[k]] = @ + 1]
  /\ UNCHANGED <<dbVars, lost, procVars, jobVars, holds, faults, cutShort>>

\* Its answer arrives.
ReplyArrives(k) ==
  /\ WorkerMoves(k, "reply", "recordSubmitted")
  /\ UNCHANGED <<dbVars, mailVars, procVars, jobVars, holds, faults, cutShort>>

\* Its answer is lost: the client sees an error, and retryDb sends the batch
\* again or gives up.
ReplyLost(k) ==
  /\ Fault("lost")
  /\ WorkerMoves(k, "reply", "send") \/ WorkerMoves(k, "reply", "recordFailed")
  /\ lost' = [lost EXCEPT ![holds[k]] = @ + 1]
  /\ UNCHANGED <<dbVars, accepted, procVars, jobVars, holds, cutShort>>

\* The recipients cannot be loaded, or the provider refuses the batch until
\* retryDb gives up.
SendGivesUp(k) ==
  /\ WorkerMoves(k, "send", "recordFailed")
  /\ UNCHANGED <<dbVars, mailVars, procVars, jobVars, holds, faults, cutShort>>

\* Mutant of RecordSubmitted: a save that keeps failing marks the batch as
\* failed although it was sent (no `succeeded` flag).
RecordSubmittedOrFailed(k) ==
  /\ WorkerMoves(k, "recordSubmitted", "sent")
  /\ \/ /\ batch' = [batch EXCEPT ![holds[k]] = "submitted"]
        /\ UNCHANGED faults
     \/ /\ Fault("db")
        /\ batch' = [batch EXCEPT ![holds[k]] = "failed"]
  /\ UNCHANGED <<emailStatus, mailVars, procVars, jobVars, holds, cutShort>>

\* Save the batch as 'submitted'; a save that keeps failing leaves the row in
\* 'submitting' and the batch counted as sent.
RecordSubmitted(k) ==
  /\ WorkerMoves(k, "recordSubmitted", "sent")
  /\ \/ /\ batch' = [batch EXCEPT ![holds[k]] = "submitted"]
        /\ UNCHANGED faults
     \/ /\ Fault("db")
        /\ UNCHANGED batch
  /\ UNCHANGED <<emailStatus, mailVars, procVars, jobVars, holds, cutShort>>

\* Mutant of RecordFailed: a status the column does not know is saved.
RecordError(k) ==
  /\ WorkerMoves(k, "recordFailed", "unsent")
  /\ batch' = [batch EXCEPT ![holds[k]] = "error"]
  /\ UNCHANGED <<emailStatus, mailVars, procVars, jobVars, holds, faults,
                 cutShort>>

\* Save the batch as 'failed'.
RecordFailed(k) ==
  /\ WorkerMoves(k, "recordFailed", "unsent")
  /\ batch' = [batch EXCEPT ![holds[k]] = "failed"]
  /\ UNCHANGED <<emailStatus, mailVars, procVars, jobVars, holds, faults,
                 cutShort>>

\* Mark the recipients as processed; sendBatch returns.
MarkProcessed(k) ==
  /\ worker[k] \in {"sent", "unsent"}
  /\ worker' = [worker EXCEPT ![k] = "loop"]
  /\ BatchDone(k, worker[k] = "sent")
  /\ UNCHANGED <<dbVars, mailVars, procVars, job, host, batches, prior, queue,
                 faults, cutShort>>

\* One of sendBatch's unguarded queries (the lock, saving 'failed', marking the
\* recipients) keeps failing: the worker rejects, Promise.all with it, and the
\* job goes to its catch block although the other worker runs on.
WorkerThrows(k) ==
  LET j == k[1] IN
  /\ Fault("db")
  /\ worker[k] \in {"lock", "recordFailed", "sent", "unsent"}
  /\ worker' = [worker EXCEPT ![k] = "off"]
  /\ holds' = [holds EXCEPT ![k] = NoBatch]
  /\ job' = [job EXCEPT ![j] = IF @ = "sending" THEN "failing" ELSE @]
  /\ UNCHANGED <<dbVars, mailVars, procVars, host, batches, prior, queue,
                 succeeded, cutShort>>

-----------------------------------------------------------------------------
JobStep(j) ==
  \/ JobStart(j) \/ JobStartFails(j)
  \/ LoadBatches(j) \/ FindNoBatches(j)
  \/ CreateBatch(j) \/ CreateDone(j) \/ PrepareFails(j)
  \/ SendingDone(j)
  \/ SaveSubmitted(j) \/ SaveSubmittedFails(j)
  \/ SaveFailed(j) \/ SaveFailedFails(j)

WorkerStep(k) ==
  \/ TakeBatch(k) \/ WorkerReturns(k)
  \/ Claim(k) \/ SkipBatch(k)
  \/ ProviderAccepts(k) \/ ReplyArrives(k) \/ ReplyLost(k) \/ SendGivesUp(k)
  \/ RecordSubmitted(k) \/ RecordFailed(k)
  \/ MarkProcessed(k) \/ WorkerThrows(k)

ResumeStep(p) ==
  \/ ResumeScan(p) \/ ResumeGiveUp(p) \/ ResumeFlip(p) \/ ResumeSchedule(p)
  \/ ResumeFails(p)

Next ==
  \/ \E p \in Procs : \/ Boot(p) \/ Shutdown(p) \/ Exit(p) \/ Crash(p)
                     \/ CreateEmail(p) \/ ResumeStep(p)
  \/ \E q \in Requests : \/ \E p \in Procs : RetryRead(q, p)
                        \/ RetryRefused(q) \/ RetrySave(q)
  \/ \E j \in Jobs : JobStep(j)
  \/ \E k \in Slots : WorkerStep(k)

Spec == Init /\ [][Next]_vars

(* Code that has started goes on: Node runs what is due, and a container that *)
(* is down is started again.  Nobody owes the system an email, a retry or a   *)
(* shutdown, and no fault has to happen.                                      *)
Fairness ==
  /\ \A p \in Procs : WF_vars(Boot(p)) /\ WF_vars(Exit(p))
                     /\ WF_vars(ResumeStep(p))
  /\ \A q \in Requests : WF_vars(RetrySave(q))
  /\ \A j \in Jobs : WF_vars(JobStep(j))
  /\ \A k \in Slots : WF_vars(WorkerStep(k))

FairSpec == Spec /\ Fairness

-----------------------------------------------------------------------------
(* What holds whatever containers, requests and faults do.                 *)

\* Between locking its batch row and recording the outcome a worker owns it.
Owns(k) == worker[k] \in {"send", "reply", "recordSubmitted", "recordFailed"}

\* A batch row left in 'submitting' that no worker will write any more.
Orphan(b) ==
  /\ batch[b] = "submitting"
  /\ \A k \in Slots : Owns(k) => holds[k] # b

\* The provider accepts a batch once, and once more for each accepted call
\* whose answer was lost: crashes, restarts, concurrent jobs, retries and
\* failing saves never send a batch a second time (sendBatch, updateStatusLock).
AtMostOneDelivery == \A b \in Batches : accepted[b] <= lost[b] + 1

\* No two workers, of whatever jobs in whatever containers, send or record the
\* same batch at the same time (the select-for-update of updateStatusLock).
OneOwnerPerBatch ==
  \A k, l \in Slots : Owns(k) /\ Owns(l) /\ holds[k] = holds[l] => k = l

\* A batch recorded as 'failed', which a retry sends again, is one the provider
\* did not accept, save for calls whose answer was lost (the `succeeded` flag
\* in sendBatch's catch block).
FailedBatchNotDelivered ==
  \A b \in Batches : batch[b] = "failed" => accepted[b] = lost[b]

\* A batch recorded as 'submitted' stays so and is never handed to the provider
\* again, whatever the email row goes through.
SubmittedBatchIsFinal ==
  [][\A b \in Batches : batch[b] = "submitted" =>
       batch'[b] = "submitted" /\ accepted'[b] = accepted[b]]_vars

\* An orphan of a crashed worker is never claimed nor sent again: it stays an
\* orphan until an operator steps in (sendBatch's "orphan" branch).
OrphanIsNeverResent ==
  [][\A b \in Batches : Orphan(b) =>
       Orphan(b)' /\ accepted'[b] = accepted[b]]_vars

\* Why these hold: an inductive invariant.  A worker past the queue has a batch;
\* an owner's row is in 'submitting', so that nobody else can lock it; what the
\* provider holds follows from the row, and from the owner if it has one; and a
\* job's own rows appear only while it creates them, so none is created over.
WorkerHoldsBatch ==
  \A k \in Slots : worker[k] \notin {"off", "loop"} => holds[k] \in Batches

OwnerHoldsLock ==
  \A k \in Slots : Owns(k) => batch[holds[k]] = "submitting"

RowTellsDelivery ==
  \A b \in Batches :
    /\ batch[b] \in {"absent", "pending", "failed"} => accepted[b] = lost[b]
    /\ batch[b] = "submitted" => accepted[b] = lost[b] + 1
    /\ batch[b] = "submitting" => accepted[b] \in {lost[b], lost[b] + 1}

OwnerKnowsDelivery ==
  \A k \in Slots :
    /\ worker[k] \in {"send", "recordFailed"} =>
         accepted[holds[k]] = lost[holds[k]]
    /\ worker[k] \in {"reply", "recordSubmitted"} =>
         accepted[holds[k]] = lost[holds[k]] + 1

RowsAreCreatedOnce ==
  \A j \in Jobs, c \in Chunks :
    batch[<<j, c>>] # "absent" =>
      /\ job[j] \notin {"unused", "queued", "loading"}
      /\ job[j] = "creating" => <<j, c>> \in batches[j]

DeliveryInv ==
  /\ TypeOK
  /\ WorkerHoldsBatch
  /\ OwnerHoldsLock
  /\ OneOwnerPerBatch
  /\ RowTellsDelivery
  /\ OwnerKnowsDelivery
  /\ RowsAreCreatedOnce

\* Whatever containers, jobs and workers do, each batch goes through the life
\* that BatchLifecycle allows it (sendBatch as seen from the row and the
\* provider).
BL == INSTANCE BatchLifecycle
ImplementsBatchLifecycle == BL!Spec

-----------------------------------------------------------------------------
(* What holds when containers, boot scans and retries do not overlap.      *)

\* emailJob past its lock and before its last save.
Active(j) == job[j] \in {"loading", "creating", "sending", "saving", "failing"}

\* "an email can only have one active job" (the comment on emailJob's lock).
OneActiveJob == \A i, j \in Jobs : Active(i) /\ Active(j) => i = j

\* No part of the audience is in two batches: createBatches ran at most once to
\* the point of storing rows.
NoPartBatchedTwice == \A a, b \in Present : a[2] = b[2] => a = b

\* An email is 'submitted' only when the provider accepted every batch row of
\* it and Ghost knows: orphans and failed batches keep it from getting there.
SubmittedEmailAcknowledged ==
  emailStatus = "submitted" => \A b \in Present : accepted[b] = lost[b] + 1

\* An email is 'submitted' only when every part of the audience was accepted,
\* except after a createBatches call that was cut short between two batches:
\* its rows are taken for the whole set (sendEmail's `batches.length === 0`).
SubmittedEmailIsComplete ==
  emailStatus = "submitted" /\ ~cutShort =>
    \A c \in Chunks : \E j \in Jobs : accepted[<<j, c>>] > 0

-----------------------------------------------------------------------------
(* Shutdown and progress.                                                  *)

\* A graceful exit never kills a worker between its call to the provider and the
\* record of the outcome (onShutdown awaits #inFlight).
ExitAwaitsRecords ==
  [][\A p \in Procs : proc[p] = "draining" /\ proc'[p] = "down" /\ faults' = faults
       => \A k \in Slots : host[k[1]] = p => ~Owns(k)]_vars

\* An email that was 'pending' when its container went away: the row is the
\* only trace of it, and neither the boot scan nor a retry looks at 'pending'.
Stranded ==
  /\ emailStatus = "pending"
  /\ \A j \in Jobs : job[j] # "queued" /\ ~Active(j)
  /\ \A p \in Procs : resume[p] # "schedule"

Settled == emailStatus \in {"submitted", "failed"}

\* A send always ends in 'submitted' or 'failed', over crashes and shutdowns,
\* unless it is stranded in 'pending'.
SendSettles == emailStatus \in {"pending", "submitting"} ~> Settled \/ Stranded

\* A container asked to stop does stop (onShutdown and the job queue drain).
DrainEnds == \A p \in Procs : proc[p] = "draining" ~> proc[p] = "down"

\* boot.js: "Resume any newsletter sends interrupted by a prior container
\* shutdown": a send left in 'submitting' goes on to an end.
InterruptedSendResumes == emailStatus = "submitting" ~> Settled

=============================================================================
