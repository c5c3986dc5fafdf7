--------------------------- MODULE AutomationSteps ---------------------------
(***************************************************************************)
(* The step runner of one automation, as services/automations does it.     *)
(* For every member that enters, a run stands at one step row of table     *)
(* automation_run_steps.  A poll locks the rows that are due, works on all *)
(* of them at once and lets each insert the row of the next action.  Locks *)
(* are leases: one that is older than LOCK_TIMEOUT_MS may be taken over,   *)
(* whether its holder died or is only slow.                                *)
(*                                                                         *)
(* Nothing looks at the table all the time: a poll happens when an event   *)
(* asks for it, and each poll arranges the next one.  oneAtATime lets a    *)
(* container run one poll and remember one request; SoonestTimer keeps the *)
(* earliest date asked for.                                                *)
(*                                                                         *)
(* Dates are kept as the time left until them, which Tick reduces; a step  *)
(* is <<r, i>>, the i-th row of run r.  Transactions are steps.            *)
(***************************************************************************)
EXTENDS Naturals, Sequences, FiniteSets

CONSTANTS
  Procs,         \* containers on this database
  NoProc,
  Runs,          \* members that may enter
  Actions,
  NoAction,
  Emails,        \* the actions that send an email; the others wait
  Paths,         \* the linear graphs an editor may save
  MaxSteps,      \* bound: the step rows of a run
  BatchLimit,    \* MAX_STEPS_PER_BATCH
  MaxAttempts,   \* MAX_ATTEMPTS
  LockTimeout,   \* LOCK_TIMEOUT_MS
  RetryDelay,    \* RETRY_DELAY_MS
  WaitDelay,     \* the wait of a wait action
  MaxEdits,      \* bound: edits of the automation
  Faults,        \* kinds of fault that may happen
  MaxFaults      \* bound: how many of them happen

\* validateGraph: a linear path, every action once.
LinearPath(g) ==
  /\ g \in Seq(Actions)
  /\ g # <<>>
  /\ \A i, k \in 1..Len(g) : g[i] = g[k] => i = k

ASSUME AutomationAssumption ==
  /\ IsFiniteSet(Procs) /\ NoProc \notin Procs
  /\ NoAction \notin Actions
  /\ Emails \subseteq Actions
  /\ \A g \in Paths : LinearPath(g)
  /\ MaxSteps \in Nat \ {0}
  /\ BatchLimit \in Nat \ {0}
  /\ MaxAttempts \in Nat
  /\ LockTimeout \in Nat /\ RetryDelay \in Nat /\ WaitDelay \in Nat
  /\ Faults \subseteq {"crash", "db", "lost", "slow"}
  /\ MaxEdits \in Nat /\ MaxFaults \in Nat

Steps == Runs \X (1..MaxSteps)

\* A date that never comes: later than all others.
Never == RetryDelay + WaitDelay + 1
Dates == 0..Never

VARIABLES
  active,    \* automations.status is 'active'
  path,      \* the live actions in the order of their edges
  status,    \* automation_run_steps.status, "absent" before the row exists
  action,    \* the action of each row
  attempts,  \* step_attempts
  ready,     \* ready_at
  lockedBy,  \* locked_by: the container whose poll locked the row
  lockAge,   \* the time since locked_at
  poll,      \* each container: "down", or where its poll is
  queued,    \* whether oneAtATime remembers a request
  timer,     \* the date of the SoonestTimer
  nextPoll,  \* nextPollAt of the poll
  exec,      \* where the poll of a container is with a step
  sent,      \* how often the email of each step was sent
  troubled,  \* history: steps whose lock was taken over, or whose finishing or
             \* sending reported an error after the email was out
  edits,     \* edits so far
  faults     \* faults so far

autoVars == <<active, path, edits>>
lockVars == <<lockedBy, lockAge>>
rowVars  == <<status, action, attempts, ready, lockVars>>
pollVars == <<poll, queued, timer, nextPoll>>
mailVars == <<sent, troubled>>
vars == <<autoVars, rowVars, pollVars, exec, mailVars, faults>>

Ended == {"finished", "failed", "disabled", "member"}
PollState == {"down", "idle", "fetch", "steps"}

\* Where processStep is: about to look at the member, to send, to finish, to
\* handle an error, to reschedule, or to end the step with a status.
ExecState == {"off", "run", "send", "finish", "error", "retry",
              "disabled", "member", "failed"}

TypeOK ==
  /\ active \in BOOLEAN
  /\ path \in Paths
  /\ status \in [Steps -> {"absent", "pending"} \cup Ended]
  /\ action \in [Steps -> Actions \cup {NoAction}]
  /\ attempts \in [Steps -> Nat]
  /\ ready \in [Steps -> Dates]
  /\ lockedBy \in [Steps -> Procs \cup {NoProc}]
  /\ lockAge \in [Steps -> 0..(LockTimeout + 1)]
  /\ poll \in [Procs -> PollState]
  /\ queued \in [Procs -> BOOLEAN]
  /\ timer \in [Procs -> Dates]
  /\ nextPoll \in [Procs -> Dates]
  /\ exec \in [Procs -> [Steps -> ExecState]]
  /\ sent \in [Steps -> Nat]
  /\ troubled \in SUBSET Steps
  /\ edits \in Nat
  /\ faults \in Nat

Init ==
  /\ active = TRUE
  /\ path \in Paths
  /\ status = [s \in Steps |-> "absent"]
  /\ action = [s \in Steps |-> NoAction]
  /\ attempts = [s \in Steps |-> 0]
  /\ ready = [s \in Steps |-> 0]
  /\ lockedBy = [s \in Steps |-> NoProc]
  /\ lockAge = [s \in Steps |-> 0]
  /\ poll = [p \in Procs |-> "down"]
  /\ queued = [p \in Procs |-> FALSE]
  /\ timer = [p \in Procs |-> Never]
  /\ nextPoll = [p \in Procs |-> Never]
  /\ exec = [p \in Procs |-> [s \in Steps |-> "off"]]
  /\ sent = [s \in Steps |-> 0]
  /\ troubled = {}
  /\ edits = 0
  /\ faults = 0

-----------------------------------------------------------------------------
(* Time and faults.                                                        *)

Fault(kind) ==
  /\ kind \in Faults
  /\ faults < MaxFaults
  /\ faults' = faults + 1

\* A date, one unit of time later.
Nearer(d) == IF d \in 1..(Never - 1) THEN d - 1 ELSE d

\* A lock that runs out now although its step is still being worked on.
Overrun == \E p \in Procs, s \in Steps :
             /\ exec[p][s] # "off"
             /\ lockedBy[s] = p
             /\ lockAge[s] = LockTimeout

\* Time passes.  That a step takes longer than its lock lasts is a fault.
Tick ==
  /\ \/ ~Overrun /\ UNCHANGED faults
     \/ Overrun /\ Fault("slow")
  /\ ready' = [s \in Steps |-> Nearer(ready[s])]
  /\ timer' = [p \in Procs |-> Nearer(timer[p])]
  /\ nextPoll' = [p \in Procs |-> Nearer(nextPoll[p])]
  /\ lockAge' = [s \in Steps |->
                   IF lockedBy[s] # NoProc /\ lockAge[s] <= LockTimeout
                   THEN lockAge[s] + 1 ELSE lockAge[s]]
  /\ UNCHANGED <<autoVars, status, action, attempts, lockedBy, poll, queued,
                 exec, mailVars>>

-----------------------------------------------------------------------------
(* The rows.                                                               *)

\* A lock that another poll may take over.
Stale(s) == lockedBy[s] # NoProc /\ lockAge[s] > LockTimeout

\* Mutant of Free: locks are not looked at.
FreeOrNot(s) == status[s] = "pending"

\* Rows a poll may lock and cancelling an automation ends.
Free(s) == status[s] = "pending" /\ (lockedBy[s] = NoProc \/ Stale(s))

\* Mutant of Holds: updateStep looks at the id alone.
HoldsEver(p, s) == TRUE

\* Mutant of Holds: updateStep does not look at the lock.
HoldsAny(p, s) == status[s] = "pending"

\* The condition of updateStep: still pending, and still locked by this poll.
\* A container runs one poll at a time, so its name stands for the lock's id.
Holds(p, s) == status[s] = "pending" /\ lockedBy[s] = p

Unlock(s) ==
  /\ lockedBy' = [lockedBy EXCEPT ![s] = NoProc]
  /\ lockAge' = [lockAge EXCEPT ![s] = 0]

\* Mutant of DelayOf: the wait is scaled twice.
DelayScaledTwice(a) == IF a \in Emails THEN 0 ELSE 4 * WaitDelay

DelayOf(a) == IF a \in Emails THEN 0 ELSE WaitDelay   \* getReadyAtForAction

RowsOf(r) == {s \in Steps : s[1] = r /\ status[s] # "absent"}

\* insertRunStep: one more row of run r, after the status changes so far.
AddRow(r, a, changed) ==
  LET s == <<r, Cardinality(RowsOf(r)) + 1>>
  IN  /\ s \in Steps
      /\ status' = [changed EXCEPT ![s] = "pending"]
      /\ action' = [action EXCEPT ![s] = a]
      /\ ready' = [ready EXCEPT ![s] = DelayOf(a)]

-----------------------------------------------------------------------------
(* Events: AutomationsService, oneAtATime and SoonestTimer.                *)

Sooner(d, e) == IF d <= e THEN d ELSE e       \* dateMin

\* The subscriber of StartAutomationsPollEvent.
StartPoll(p) ==
  IF poll[p] = "idle"
  THEN poll' = [poll EXCEPT ![p] = "fetch"] /\ UNCHANGED queued
  ELSE queued' = [queued EXCEPT ![p] = TRUE] /\ UNCHANGED poll

\* init enqueues a poll at once.  (The turn of the event loop before it begins
\* is left out, here and in PollEnds.)
Boot(p) ==
  /\ poll[p] = "down"
  /\ poll' = [poll EXCEPT ![p] = "fetch"]
  /\ UNCHANGED <<autoVars, rowVars, queued, timer, nextPoll, exec, mailVars,
                 faults>>

\* The container dies; its locks stay.
Crash(p) ==
  /\ poll[p] # "down"
  /\ Fault("crash")
  /\ poll' = [poll EXCEPT ![p] = "down"]
  /\ queued' = [queued EXCEPT ![p] = FALSE]
  /\ timer' = [timer EXCEPT ![p] = Never]
  /\ nextPoll' = [nextPoll EXCEPT ![p] = Never]
  /\ exec' = [exec EXCEPT ![p] = [s \in Steps |-> "off"]]
  /\ UNCHANGED <<autoVars, rowVars, mailVars>>

TimerFires(p) ==
  /\ timer[p] = 0
  /\ timer' = [timer EXCEPT ![p] = Never]
  /\ StartPoll(p)
  /\ UNCHANGED <<autoVars, rowVars, nextPoll, exec, mailVars, faults>>

\* requestPoll, for a callback of the scheduler or for another event.
RequestPoll(p) ==
  /\ poll[p] # "down"
  /\ StartPoll(p)
  /\ UNCHANGED <<autoVars, rowVars, timer, nextPoll, exec, mailVars,
                 faults>>

\* findFirstActionRevision: the action no edge leads to.
FirstAction == path[1]

\* trigger: the first step of a new member's run, then requestPoll.
SignUp(p, r) ==
  /\ poll[p] # "down"
  /\ active
  /\ RowsOf(r) = {}
  /\ AddRow(r, FirstAction, status)
  /\ StartPoll(p)
  /\ UNCHANGED <<autoVars, attempts, lockVars, timer, nextPoll, exec, mailVars,
                 faults>>

\* replaceAutomationGraph: edges are replaced, actions that are gone keep none.
ReplaceGraph == path' \in Paths

\* cancelCancelablePendingStepsForAutomation
CancelSteps(ends) ==
  /\ status' = [s \in Steps |-> IF s \in ends THEN "disabled" ELSE status[s]]
  /\ lockedBy' = [s \in Steps |-> IF s \in ends THEN NoProc ELSE lockedBy[s]]
  /\ lockAge' = [s \in Steps |-> IF s \in ends THEN 0 ELSE lockAge[s]]

\* edit: a new status and graph; an inactive automation loses its free steps.
Edit ==
  /\ edits < MaxEdits
  /\ edits' = edits + 1
  /\ active' \in BOOLEAN
  /\ ReplaceGraph
  /\ \/ active' /\ UNCHANGED <<status, lockVars>>
     \/ ~active' /\ CancelSteps({s \in Steps : Free(s)})
  /\ UNCHANGED <<action, attempts, ready, pollVars, exec, mailVars, faults>>

-----------------------------------------------------------------------------
(* fetchAndLockSteps.                                                      *)

Due == {s \in Steps : Free(s) /\ ready[s] = 0}

\* What one poll may lock.  Which of the due rows are oldest is left open.
FullOrAll == {B \in SUBSET Due : \/ B = Due /\ Cardinality(B) <= BatchLimit
                                 \/ Cardinality(B) = BatchLimit}

\* Attempts beyond the limit are all alike.
Lock(p, B) ==
  /\ lockedBy' = [s \in Steps |-> IF s \in B THEN p ELSE lockedBy[s]]
  /\ lockAge' = [s \in Steps |-> IF s \in B THEN 0 ELSE lockAge[s]]
  /\ attempts' = [s \in Steps |->
                    IF s \in B /\ attempts[s] <= MaxAttempts
                    THEN attempts[s] + 1 ELSE attempts[s]]
  /\ troubled' = troubled \cup {s \in B : Stale(s)}
  /\ UNCHANGED <<status, action, ready>>

\* Mutant of Verdict: the attempt that starts now is not counted.
VerdictLate(s) ==
  IF ~active THEN "disabled"
  ELSE IF attempts[s] > MaxAttempts THEN "failed"
  ELSE "run"

\* How processStep begins, from what the locking transaction read.
Verdict(s) ==
  IF ~active THEN "disabled"
  ELSE IF attempts[s] >= MaxAttempts THEN "failed"
  ELSE "run"

\* Mutant of SoonestLeft: only rows that are due count.
SoonestDue(B) == IF Due \subseteq B THEN Never ELSE 0

\* findNextPendingReadyAt, after the rows of B were locked.
SoonestLeft(B) ==
  LET left == {ready[s] : s \in {s \in Steps : Free(s)} \ B} \cup {Never}
  IN  CHOOSE d \in left : \A e \in left : d <= e

Fetch(p) ==
  /\ poll[p] = "fetch"
  /\ \E B \in FullOrAll :
       /\ Lock(p, B)
       /\ exec' = [exec EXCEPT ![p] =
                     [s \in Steps |-> IF s \in B THEN Verdict(s) ELSE exec[p][s]]]
       /\ nextPoll' = [nextPoll EXCEPT ![p] =
            IF Cardinality(B) >= BatchLimit THEN 0 ELSE SoonestLeft(B)]
  /\ poll' = [poll EXCEPT ![p] = "steps"]
  /\ UNCHANGED <<autoVars, queued, timer, sent, faults>>

\* The run of oneAtATime ends: a queued one begins.
RunEnds(p) ==
  /\ poll' = [poll EXCEPT ![p] = IF queued[p] THEN "fetch" ELSE "idle"]
  /\ queued' = [queued EXCEPT ![p] = FALSE]

\* The transaction fails, or commits without an answer: the error ends the
\* poll, which arranges no other.
FetchFails(p) ==
  /\ poll[p] = "fetch"
  /\ Fault("db")
  /\ \/ UNCHANGED <<rowVars, troubled>>
     \/ \E B \in FullOrAll : Lock(p, B)
  /\ RunEnds(p)
  /\ UNCHANGED <<autoVars, timer, nextPoll, exec, sent>>

-----------------------------------------------------------------------------
(* processStep.                                                            *)

Goes(p, s, from, to) ==
  /\ exec[p][s] = from
  /\ exec' = [exec EXCEPT ![p][s] = to]

\* What processStep returns is merged into nextPollAt.
PollAgainAt(p, date) ==
  nextPoll' = [nextPoll EXCEPT ![p] = Sooner(@, date)]

\* The member left or changed status; or there is nothing to send; or there is.
MeetMember(p, s) ==
  /\ \/ Goes(p, s, "run", "member")
     \/ Goes(p, s, "run", "finish")
     \/ action[s] \in Emails /\ Goes(p, s, "run", "send")
  /\ UNCHANGED <<autoVars, rowVars, pollVars, mailVars, faults>>

\* The email is out; that its recipient cannot be recorded is only logged.
Send(p, s) ==
  /\ Goes(p, s, "send", "finish")
  /\ sent' = [sent EXCEPT ![s] = @ + 1]
  /\ UNCHANGED <<autoVars, rowVars, pollVars, troubled, faults>>

SendFails(p, s) ==
  /\ Goes(p, s, "send", "error")
  /\ UNCHANGED <<autoVars, rowVars, pollVars, mailVars, faults>>

\* The provider took the email and the answer is lost.
SendLost(p, s) ==
  /\ Fault("lost")
  /\ Goes(p, s, "send", "error")
  /\ sent' = [sent EXCEPT ![s] = @ + 1]
  /\ troubled' = troubled \cup {s}
  /\ UNCHANGED <<autoVars, rowVars, pollVars>>

\* updateStep with a final status.
EndRow(p, s, to) ==
  IF Holds(p, s)
  THEN status' = [status EXCEPT ![s] = to] /\ Unlock(s)
  ELSE UNCHANGED <<status, lockVars>>

MarkTerminal(p, s) ==
  /\ \E to \in {"disabled", "member", "failed"} :
       Goes(p, s, to, "off") /\ EndRow(p, s, to)
  /\ UNCHANGED <<autoVars, action, attempts, ready, pollVars, mailVars, faults>>

\* findNextActionRevision: the actions the edges lead to from a row's action.
NextActions(s) == {path[i] : i \in {i \in 2..Len(path) :
                                      path[i - 1] = action[s]}}

\* The transaction of finishStepAndEnqueueNext, when the lock still holds; next
\* are the actions that follow.
FinishRow(s, next) ==
  LET done == [status EXCEPT ![s] = "finished"]
  IN  /\ Unlock(s)
      /\ \/ /\ next = {}
            /\ status' = done
            /\ UNCHANGED <<action, ready>>
         \/ \E a \in next : AddRow(s[1], a, done)

\* Mutant of Onward: the automation's status is not looked at.
OnwardWhenOff(s) == NextActions(s)

\* The actions a finished step goes on to: none in an inactive automation.
Onward(s) == IF active THEN NextActions(s) ELSE {}

Finish(p, s) ==
  /\ Goes(p, s, "finish", "off")
  /\ \/ /\ ~Holds(p, s)
        /\ UNCHANGED <<rowVars, nextPoll>>
     \/ /\ Holds(p, s)
        /\ FinishRow(s, Onward(s))
        /\ \/ Onward(s) = {} /\ UNCHANGED nextPoll
           \/ \E a \in Onward(s) : PollAgainAt(p, DelayOf(a))
        /\ UNCHANGED attempts
  /\ UNCHANGED <<autoVars, poll, queued, timer, mailVars, faults>>

\* The transaction fails, or commits without an answer.
FinishFails(p, s) ==
  /\ Fault("db")
  /\ Goes(p, s, "finish", "error")
  /\ \/ UNCHANGED rowVars
     \/ Holds(p, s) /\ FinishRow(s, Onward(s)) /\ UNCHANGED attempts
  /\ troubled' = troubled \cup {s}
  /\ UNCHANGED <<autoVars, pollVars, sent>>

\* handleStepExecutionFailure: too many attempts, or retryStep, which first
\* looks whether the automation is active ...
Retry(p, s) ==
  /\ \/ attempts[s] >= MaxAttempts /\ Goes(p, s, "error", "failed")
     \/ attempts[s] < MaxAttempts /\ ~active /\ Goes(p, s, "error", "disabled")
     \/ attempts[s] < MaxAttempts /\ active /\ Goes(p, s, "error", "retry")
  /\ UNCHANGED <<autoVars, rowVars, pollVars, mailVars, faults>>

\* ... and then updates the row; an edit may commit in between.
Reschedule(p, s) ==
  /\ Goes(p, s, "retry", "off")
  /\ \/ /\ Holds(p, s)
        /\ ready' = [ready EXCEPT ![s] = RetryDelay]
        /\ Unlock(s)
        /\ PollAgainAt(p, RetryDelay)
     \/ ~Holds(p, s) /\ UNCHANGED <<ready, lockVars, nextPoll>>
  /\ UNCHANGED <<autoVars, status, action, attempts, poll, queued,
                 timer, mailVars, faults>>

\* A query outside the try block fails: the row stays locked.
ProcessFails(p, s) ==
  /\ Fault("db")
  /\ \E at \in {"run", "error", "retry", "disabled", "member", "failed"} :
       Goes(p, s, at, "off")
  /\ UNCHANGED <<autoVars, rowVars, pollVars, mailVars>>

\* Mutant of PollEnds: the poll arranges no other.
PollEndsSilently(p) ==
  /\ poll[p] = "steps"
  /\ \A s \in Steps : exec[p][s] = "off"
  /\ nextPoll' = [nextPoll EXCEPT ![p] = Never]
  /\ RunEnds(p)
  /\ UNCHANGED <<autoVars, rowVars, timer, exec, mailVars, faults>>

\* All steps are over: the next poll is asked for now, or put on the timer.
PollEnds(p) ==
  /\ poll[p] = "steps"
  /\ \A s \in Steps : exec[p][s] = "off"
  /\ \/ /\ nextPoll[p] = 0
        /\ poll' = [poll EXCEPT ![p] = "fetch"]
        /\ UNCHANGED <<queued, timer>>
     \/ /\ nextPoll[p] > 0
        /\ RunEnds(p)
        /\ timer' = [timer EXCEPT ![p] = Sooner(@, nextPoll[p])]
  /\ nextPoll' = [nextPoll EXCEPT ![p] = Never]
  /\ UNCHANGED <<autoVars, rowVars, exec, mailVars, faults>>

-----------------------------------------------------------------------------
Work(p, s) ==
  \/ MeetMember(p, s)
  \/ Send(p, s)
  \/ SendFails(p, s)
  \/ MarkTerminal(p, s)
  \/ Finish(p, s)
  \/ Retry(p, s)
  \/ Reschedule(p, s)

WorkFails(p, s) ==
  \/ SendLost(p, s)
  \/ FinishFails(p, s)
  \/ ProcessFails(p, s)

Serve(p) ==
  \/ Boot(p)
  \/ TimerFires(p)
  \/ Fetch(p)
  \/ PollEnds(p)

Next ==
  \/ Tick
  \/ Edit
  \/ \E p \in Procs :
       \/ Serve(p)
       \/ Crash(p)
       \/ RequestPoll(p)
       \/ FetchFails(p)
       \/ \E r \in Runs : SignUp(p, r)
       \/ \E s \in Steps : Work(p, s) \/ WorkFails(p, s)

Spec == Init /\ [][Next]_vars

\* Time goes on, containers come back and go on with what they have to do;
\* calls get an answer.  Nothing makes an event ask for a poll.
Fairness ==
  /\ WF_vars(Tick)
  /\ \A p \in Procs :
       /\ WF_vars(Serve(p))
       /\ \A s \in Steps : WF_vars(Work(p, s))

FairSpec == Spec /\ Fairness

-----------------------------------------------------------------------------
(* Properties.                                                             *)

\* A run does its steps one after the other: a row is inserted only behind a
\* finished one, and once, however many polls believe they hold the step.
RunIsSequential ==
  \A s \in Steps :
    s[2] > 1 /\ status[s] # "absent" => status[<<s[1], s[2] - 1>>] = "finished"

\* Retries, takeovers and crashes together send the email of a step no more
\* often than the step may be attempted.
SendsBounded == \A s \in Steps : sent[s] <= MaxAttempts

\* The email of a step goes out twice only if its lock ran out, the provider
\* took an email without an answer, or the step could not be finished.
TwiceOnlyAfterTrouble == \A s \in Steps : sent[s] > 1 => s \in troubled

\* A lock that has not run out protects the row: only the poll that holds it
\* changes the row, and gives the lock back when it does.
LockProtects ==
  [][\A s \in Steps :
       /\ lockedBy[s] # NoProc
       /\ ~Stale(s)
       /\ <<status[s], attempts[s], lockedBy[s]>>'
            # <<status[s], attempts[s], lockedBy[s]>>
       => LET p == lockedBy[s]
          IN  exec'[p][s] # exec[p][s] /\ lockedBy[s]' = NoProc]_vars

\* A container on its way to a poll that comes no later than a date.
PollsBy(p, date) ==
  \/ poll[p] \in {"down", "fetch"}
  \/ queued[p]
  \/ timer[p] <= date
  \/ poll[p] = "steps" /\ nextPoll[p] <= date

\* No step is forgotten: for every row that waits unlocked, some container will
\* poll by its date, of itself.  (A database error in a poll breaks the chain,
\* and so this is checked without the fault "db".)
WaitingStepsArePolled ==
  \A s \in Steps :
    status[s] = "pending" /\ lockedBy[s] = NoProc
      => \E p \in Procs : PollsBy(p, ready[s])

\* Every step ends, or is left with the lock of a poll that is no more.
StepsEnd ==
  \A s \in Steps :
    status[s] = "pending"
      ~> \/ status[s] # "pending"
         \/ \E p \in Procs : lockedBy[s] = p /\ exec[p][s] = "off"

-----------------------------------------------------------------------------
(* Refinement.                                                             *)

PendingOf(r) == {s \in RowsOf(r) : status[s] = "pending"}

StageOf(r) == IF RowsOf(r) = {} THEN "none"
              ELSE IF PendingOf(r) = {} THEN "over" ELSE "on"
AtOf(r) == IF PendingOf(r) = {} THEN NoAction
           ELSE action[CHOOSE s \in PendingOf(r) : TRUE]

StageOfRuns == [r \in Runs |-> StageOf(r)]
AtOfRuns == [r \in Runs |-> AtOf(r)]

Run == INSTANCE AutomationRun WITH stage <- StageOfRuns, at <- AtOfRuns

\* A member goes through the automation as AutomationRun says: no action is
\* skipped or done in another order than the path had when it was reached, and
\* a run that is over stays over.
ImplementsAutomationRun == Run!Spec

=============================================================================
