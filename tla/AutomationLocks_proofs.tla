------------------------ MODULE AutomationLocks_proofs ------------------------
(***************************************************************************)
(* What the locks of AutomationSteps protect, and what they do not: who    *)
(* may change a row, how often an email is sent, and who polls next.       *)
(***************************************************************************)
EXTENDS AutomationSteps_proofs

\* Only rows that wait are locked.
LockedWaits == \A s \in Steps : lockedBy[s] # NoProc => status[s] = "pending"

\* A step is worked on in a poll that is under way.
WorkInPoll == \A p \in Procs, s \in Steps : exec[p][s] # "off" => poll[p] = "steps"

\* A new row is one that was not there, and leaves the others alone.
LEMMA NewRow ==
  ASSUME TypeOK, RowsInOrder, NEW r \in Runs, NEW a,
         NEW changed \in [Steps -> {"absent", "pending"} \cup Ended], AddRow(r, a, changed)
  PROVE  \E t \in Steps :
           /\ t[1] = r /\ status[t] = "absent"
           /\ status' = [changed EXCEPT ![t] = "pending"]
           /\ action' = [action EXCEPT ![t] = a]
           /\ ready' = [ready EXCEPT ![t] = DelayOf(a)]
<1>1. PICK n \in Nat : UpTo(r, n)
  BY DEF RowsInOrder
<1>2. /\ n + 1 \in 1..MaxSteps /\ <<r, n + 1>> \in Steps
      /\ status' = [changed EXCEPT ![<<r, n + 1>>] = "pending"]
      /\ action' = [action EXCEPT ![<<r, n + 1>>] = a]
  BY <1>1, AddRowMeans
<1>3. status[<<r, n + 1>>] = "absent"
  BY <1>1, <1>2 DEF UpTo
<1>4. ready' = [ready EXCEPT ![<<r, n + 1>>] = DelayOf(a)]
  BY <1>1, RowCount DEF AddRow
<1> QED
  BY <1>2, <1>3, <1>4

\* Finishing a row: it is unlocked, and at most one new row waits.
LEMMA FinishedRow ==
  ASSUME TypeOK, RowsInOrder, NEW p \in Procs, NEW s \in Steps, Holds(p, s),
         FinishRow(s, Onward(s))
  PROVE  /\ lockedBy' = [lockedBy EXCEPT ![s] = NoProc]
         /\ \/ status' = [status EXCEPT ![s] = "finished"] /\ Onward(s) = {}
               /\ UNCHANGED <<action, ready>>
            \/ \E t \in Steps, a \in Onward(s) :
                 /\ status[t] = "absent" /\ t # s
                 /\ status' = [status EXCEPT ![s] = "finished", ![t] = "pending"]
                 /\ ready' = [ready EXCEPT ![t] = DelayOf(a)]
<1> DEFINE done == [status EXCEPT ![s] = "finished"]
<1>1. done \in [Steps -> {"absent", "pending"} \cup Ended] /\ status[s] = "pending" /\ s[1] \in Runs
  BY DEF TypeOK, Ended, Holds, Steps
<1>2. lockedBy' = [lockedBy EXCEPT ![s] = NoProc]
  BY DEF FinishRow, Unlock
<1>3. CASE Onward(s) = {} /\ status' = done /\ UNCHANGED <<action, ready>>
  BY <1>2, <1>3
<1>4. ASSUME NEW a \in Onward(s), AddRow(s[1], a, done)
      PROVE  \E t \in Steps :
               /\ status[t] = "absent" /\ t # s
               /\ status' = [status EXCEPT ![s] = "finished", ![t] = "pending"]
               /\ ready' = [ready EXCEPT ![t] = DelayOf(a)]
  <2> HIDE DEF done
  <2>1. PICK t \in Steps :
           /\ status[t] = "absent"
           /\ status' = [done EXCEPT ![t] = "pending"]
           /\ ready' = [ready EXCEPT ![t] = DelayOf(a)]
    BY <1>1, <1>4, NewRow
  <2> QED
    BY <1>1, <2>1 DEF done
<1> QED
  BY <1>2, <1>3, <1>4 DEF FinishRow

LEMMA BegunRow ==
  ASSUME TypeOK, RowsInOrder, NEW p \in Procs, NEW r \in Runs, SignUp(p, r)
  PROVE  \E t \in Steps :
           /\ status[t] = "absent"
           /\ status' = [status EXCEPT ![t] = "pending"]
           /\ ready' = [ready EXCEPT ![t] = DelayOf(FirstAction)]
<1>1. status \in [Steps -> {"absent", "pending"} \cup Ended] /\ AddRow(r, FirstAction, status)
  BY DEF TypeOK, SignUp
<1> QED
  BY <1>1, NewRow

\* The rows a poll locks wait and are free.
LEMMA LockedRows ==
  ASSUME NEW B \in FullOrAll
  PROVE  B \subseteq Steps /\ \A s \in B : Free(s) /\ status[s] = "pending" /\ ready[s] = 0
BY DEF FullOrAll, Due, Free

-----------------------------------------------------------------------------
(* Locks.                                                                  *)

LockInv == TypeOK /\ RowsInOrder /\ LockedWaits /\ WorkInPoll

LEMMA InitLocks == Init => LockInv
<1> SUFFICES ASSUME Init PROVE LockInv
  OBVIOUS
<1>1. LockedWaits /\ WorkInPoll
  BY DEF Init, LockedWaits, WorkInPoll
<1> QED
  BY <1>1, InitTypes, InitOrder DEF LockInv

LEMMA StepLockedWaits ==
  ASSUME LockInv, [Next]_vars
  PROVE  LockedWaits'
<1>t. TypeOK /\ RowsInOrder /\ LockedWaits
  BY DEF LockInv
<1> USE DEF autoVars, rowVars, lockVars, pollVars, mailVars
<1>k. /\ status \in [Steps -> {"absent", "pending"} \cup Ended]
      /\ lockedBy \in [Steps -> Procs \cup {NoProc}]
  BY <1>t DEF TypeOK
<1>1. CASE UNCHANGED <<status, lockedBy>>
  BY <1>t, <1>1 DEF LockedWaits
<1>2. CASE Edit
  BY <1>t, <1>k, <1>2 DEF Edit, CancelSteps, LockedWaits, Free
<1>3. ASSUME NEW p \in Procs, NEW B \in FullOrAll, Lock(p, B) PROVE LockedWaits'
  BY <1>t, <1>k, <1>3, LockedRows DEF Lock, LockedWaits
<1>4. ASSUME NEW p \in Procs, NEW r \in Runs, SignUp(p, r) PROVE LockedWaits'
  <2>1. PICK t \in Steps : status' = [status EXCEPT ![t] = "pending"]
    BY <1>t, <1>4, BegunRow
  <2>2. lockedBy' = lockedBy
    BY <1>4 DEF SignUp
  <2> QED
    BY <1>t, <1>k, <2>1, <2>2 DEF LockedWaits
<1>5. ASSUME NEW p \in Procs, NEW s \in Steps, Holds(p, s), FinishRow(s, Onward(s))
      PROVE  LockedWaits'
  BY <1>t, <1>k, <1>5, FinishedRow DEF LockedWaits
<1>6. ASSUME NEW p \in Procs, NEW s \in Steps, MarkTerminal(p, s) \/ Reschedule(p, s)
      PROVE  LockedWaits'
  BY <1>t, <1>k, <1>6 DEF MarkTerminal, EndRow, Reschedule, Unlock, LockedWaits
<1>7. ASSUME NEW p \in Procs, NEW s \in Steps, Work(p, s) \/ WorkFails(p, s) PROVE LockedWaits'
  BY <1>1, <1>5, <1>6, <1>7 DEF Work, WorkFails, MeetMember, Send, SendFails, Finish, Retry,
     SendLost, FinishFails, ProcessFails
<1>8. ASSUME NEW p \in Procs, Serve(p) \/ Crash(p) \/ RequestPoll(p) \/ FetchFails(p)
      PROVE  LockedWaits'
  BY <1>1, <1>3, <1>8 DEF Serve, Boot, TimerFires, Fetch, PollEnds, Crash, RequestPoll, FetchFails
<1>9. CASE Tick \/ UNCHANGED vars
  BY <1>1, <1>9 DEF Tick, vars
<1> QED
  BY <1>2, <1>4, <1>7, <1>8, <1>9 DEF Next

LEMMA StepWorkInPoll ==
  ASSUME LockInv, [Next]_vars
  PROVE  WorkInPoll'
<1>t. TypeOK /\ WorkInPoll
  BY DEF LockInv
<1> USE DEF autoVars, rowVars, lockVars, pollVars, mailVars
<1>k. poll \in [Procs -> PollState] /\ exec \in [Procs -> [Steps -> ExecState]]
  BY <1>t DEF TypeOK
<1>1. CASE UNCHANGED <<poll, exec>>
  BY <1>t, <1>1 DEF WorkInPoll
<1>2. ASSUME NEW p \in Procs, exec' = exec, poll[p] # "steps",
             \E x \in PollState : poll' = [poll EXCEPT ![p] = x]
      PROVE  WorkInPoll'
  BY <1>t, <1>k, <1>2 DEF WorkInPoll
<1>3. ASSUME NEW p \in Procs, StartPoll(p), exec' = exec PROVE WorkInPoll'
  BY <1>1, <1>2, <1>3 DEF StartPoll, PollState
<1>4. ASSUME NEW p \in Procs, Boot(p) \/ FetchFails(p) PROVE WorkInPoll'
  BY <1>2, <1>4 DEF Boot, FetchFails, RunEnds, PollState
<1>5. ASSUME NEW p \in Procs, Crash(p) PROVE WorkInPoll'
  BY <1>t, <1>k, <1>5 DEF Crash, WorkInPoll
<1>6. ASSUME NEW p \in Procs, Fetch(p) PROVE WorkInPoll'
  BY <1>t, <1>k, <1>6 DEF Fetch, WorkInPoll
<1>7. ASSUME NEW p \in Procs, PollEnds(p) PROVE WorkInPoll'
  BY <1>t, <1>k, <1>7 DEF PollEnds, RunEnds, WorkInPoll
<1>8. ASSUME NEW p \in Procs, NEW s \in Steps, Work(p, s) \/ WorkFails(p, s) PROVE WorkInPoll'
  <2>1. \E from \in ExecState \ {"off"}, to \in ExecState : Goes(p, s, from, to)
    BY <1>8 DEF Work, WorkFails, MeetMember, Send, SendFails, SendLost, MarkTerminal, Finish,
       FinishFails, Retry, Reschedule, ProcessFails, ExecState
  <2>2. poll' = poll
    BY <1>8 DEF Work, WorkFails, MeetMember, Send, SendFails, SendLost, MarkTerminal, Finish,
       FinishFails, Retry, Reschedule, ProcessFails
  <2> QED
    BY <1>t, <2>1, <2>2, GoesType DEF WorkInPoll
<1> QED
  BY <1>1, <1>3, <1>4, <1>5, <1>6, <1>7, <1>8
  DEF Next, vars, Tick, Edit, Serve, TimerFires, RequestPoll, SignUp

LEMMA StepLocks == LockInv /\ [Next]_vars => LockInv'
<1> SUFFICES ASSUME LockInv, [Next]_vars PROVE LockInv'
  OBVIOUS
<1>1. TypeOK' /\ RowsInOrder'
  BY StepTypes, RowSteps, StepOrder DEF LockInv
<1> QED
  BY <1>1, StepLockedWaits, StepWorkInPoll DEF LockInv

\* One row and its lock, in one step.
LEMMA LockStep ==
  ASSUME LockInv, [Next]_vars, NEW s \in Steps, lockedBy[s] # NoProc, ~Stale(s)
  PROVE  \/ UNCHANGED <<status[s], attempts[s], lockedBy[s]>>
         \/ exec'[lockedBy[s]][s] # exec[lockedBy[s]][s] /\ lockedBy'[s] = NoProc
<1>t. TypeOK /\ RowsInOrder /\ LockedWaits /\ status[s] = "pending"
  BY DEF LockInv, LockedWaits
<1> USE DEF autoVars, rowVars, lockVars, pollVars, mailVars
<1>k. /\ status \in [Steps -> {"absent", "pending"} \cup Ended]
      /\ lockedBy \in [Steps -> Procs \cup {NoProc}]
      /\ attempts \in [Steps -> Nat]
  BY <1>t DEF TypeOK
<1> DEFINE Same == UNCHANGED <<status[s], attempts[s], lockedBy[s]>>
           Given == exec'[lockedBy[s]][s] # exec[lockedBy[s]][s] /\ lockedBy'[s] = NoProc
<1>f. ~Free(s)
  BY DEF Free
<1>1. CASE UNCHANGED <<status, attempts, lockedBy>>
  BY <1>1
<1>2. CASE Edit
  BY <1>f, <1>k, <1>2 DEF Edit, CancelSteps
<1>3. ASSUME NEW p \in Procs, NEW B \in FullOrAll, Lock(p, B) PROVE Same
  BY <1>f, <1>k, <1>3, LockedRows DEF Lock
<1>4. ASSUME NEW p \in Procs, NEW r \in Runs, SignUp(p, r) PROVE Same
  <2>1. PICK t \in Steps : status[t] = "absent" /\ status' = [status EXCEPT ![t] = "pending"]
    BY <1>t, <1>4, BegunRow
  <2>2. lockedBy' = lockedBy /\ attempts' = attempts
    BY <1>4 DEF SignUp
  <2> QED
    BY <1>t, <1>k, <2>1, <2>2
<1>5. ASSUME NEW p \in Procs, NEW t \in Steps, Holds(p, t), FinishRow(t, Onward(t)),
             UNCHANGED attempts, \E from, to \in ExecState : from # to /\ Goes(p, t, from, to)
      PROVE  Same \/ Given
  <2>1. /\ lockedBy' = [lockedBy EXCEPT ![t] = NoProc] /\ lockedBy[t] = p
        /\ \A u \in Steps \ {t} : status[u] = "pending" => status'[u] = status[u]
    BY <1>t, <1>k, <1>5, FinishedRow DEF Holds
  <2>2. exec'[p][t] # exec[p][t]
    BY <1>t, <1>5, GoesType
  <2> QED
    BY <1>t, <1>k, <1>5, <2>1, <2>2
<1>6. ASSUME NEW p \in Procs, NEW t \in Steps, MarkTerminal(p, t) \/ Reschedule(p, t)
      PROVE  Same \/ Given
  <2>1. \E from, to \in ExecState : from # to /\ Goes(p, t, from, to)
    BY <1>6 DEF MarkTerminal, Reschedule, ExecState
  <2>2. exec'[p][t] # exec[p][t] /\ attempts' = attempts
    BY <1>t, <1>6, <2>1, GoesType DEF MarkTerminal, Reschedule
  <2>3. \/ UNCHANGED <<status, lockedBy>>
        \/ /\ lockedBy[t] = p /\ lockedBy' = [lockedBy EXCEPT ![t] = NoProc]
           /\ \A u \in Steps \ {t} : status'[u] = status[u]
    BY <1>k, <1>6 DEF MarkTerminal, EndRow, Reschedule, Unlock, Holds
  <2> QED
    BY <1>k, <2>2, <2>3
<1>7. ASSUME NEW p \in Procs, NEW t \in Steps, Finish(p, t) \/ FinishFails(p, t)
      PROVE  Same \/ Given
  <2>1. \E from, to \in ExecState : from # to /\ Goes(p, t, from, to)
    BY <1>7 DEF Finish, FinishFails, ExecState
  <2>2. \/ UNCHANGED <<status, attempts, lockedBy>>
        \/ Holds(p, t) /\ FinishRow(t, Onward(t)) /\ UNCHANGED attempts
    <3>1. CASE Finish(p, t)
      BY <3>1 DEF Finish
    <3>2. CASE FinishFails(p, t)
      BY <3>2 DEF FinishFails
    <3> QED
      BY <1>7, <3>1, <3>2
  <2> QED
    BY <1>1, <1>5, <2>1, <2>2
<1>8. ASSUME NEW p \in Procs, NEW t \in Steps, Work(p, t) \/ WorkFails(p, t) PROVE Same \/ Given
  BY <1>1, <1>6, <1>7, <1>8 DEF Work, WorkFails, MeetMember, Send, SendFails, Retry,
     SendLost, ProcessFails
<1>9. ASSUME NEW p \in Procs, Serve(p) \/ Crash(p) \/ RequestPoll(p) \/ FetchFails(p)
      PROVE  Same
  BY <1>1, <1>3, <1>9 DEF Serve, Boot, TimerFires, Fetch, PollEnds, Crash, RequestPoll, FetchFails
<1>10. CASE Tick \/ UNCHANGED vars
  BY <1>1, <1>10 DEF Tick, vars
<1> QED
  BY <1>2, <1>4, <1>8, <1>9, <1>10 DEF Next

\* A lock that has not run out protects its row against every other poll, an
\* edit and another member's events, however they overlap.
THEOREM LocksProtect == Spec => LockProtects
<1>1. LockInv /\ [Next]_vars =>
        [\A s \in Steps :
           /\ lockedBy[s] # NoProc
           /\ ~Stale(s)
           /\ <<status[s], attempts[s], lockedBy[s]>>'
                # <<status[s], attempts[s], lockedBy[s]>>
           => LET p == lockedBy[s]
              IN  exec'[p][s] # exec[p][s] /\ lockedBy[s]' = NoProc]_vars
  BY LockStep
<1> QED
  BY <1>1, InitLocks, StepLocks, PTL DEF Spec, LockProtects

-----------------------------------------------------------------------------
(* How often an email is sent.                                             *)

\* Who may still send the email of a step.
Trying(s) == {p \in Procs : exec[p][s] \in {"run", "send"}}

\* What was sent and what still may be was paid for with attempts.
Budget(s) ==
  /\ sent[s] + Cardinality(Trying(s)) <= attempts[s]
  /\ sent[s] + Cardinality(Trying(s)) <= MaxAttempts

BudgetInv == \A s \in Steps : Budget(s)

LEMMA TryingFinite ==
  \A s : /\ IsFiniteSet(Trying(s)) /\ Cardinality(Trying(s)) \in Nat
         /\ IsFiniteSet(Trying(s)') /\ Cardinality(Trying(s)') \in Nat
<1>1. \A s : Trying(s) \in SUBSET Procs /\ Trying(s)' \in SUBSET Procs
  BY DEF Trying
<1>2. \A s : IsFiniteSet(Trying(s)) /\ IsFiniteSet(Trying(s)')
  BY <1>1, AutomationAssumption, FS_Subset
<1> QED
  BY <1>2, FS_CardinalityType

LEMMA InitBudget == Init => BudgetInv
<1> SUFFICES ASSUME Init, NEW s \in Steps PROVE Budget(s)
  BY DEF BudgetInv
<1>1. Trying(s) = {} /\ sent[s] = 0 /\ attempts[s] = 0
  BY DEF Init, Trying
<1> QED
  BY <1>1, FS_EmptySet, AutomationAssumption DEF Budget

\* Nobody starts to try, and attempts do not go down.
LEMMA FewerTry ==
  ASSUME TypeOK, NEW s \in Steps, Budget(s), Trying(s)' \subseteq Trying(s),
         sent'[s] = sent[s], attempts'[s] \in Nat, attempts[s] <= attempts'[s]
  PROVE  Budget(s)'
<1>1. Cardinality(Trying(s)') <= Cardinality(Trying(s))
  BY TryingFinite, FS_Subset
<1> QED
  BY <1>1, TryingFinite, AutomationAssumption DEF Budget, TypeOK

\* An attempt begins.
LEMMA OneTries ==
  ASSUME TypeOK, NEW s \in Steps, Budget(s), NEW p \in Procs,
         Trying(s)' = Trying(s) \cup {p}, sent'[s] = sent[s],
         attempts[s] < MaxAttempts, attempts'[s] = attempts[s] + 1
  PROVE  Budget(s)'
<1> DEFINE T == Trying(s)
<1>1. IsFiniteSet(T) /\ Cardinality(T) \in Nat
  BY TryingFinite
<1> HIDE DEF T
<1>2. Cardinality(T \cup {p}) <= Cardinality(T) + 1 /\ Cardinality(T \cup {p}) \in Nat
  <2>1. Cardinality(T \cup {p}) = IF p \in T THEN Cardinality(T) ELSE Cardinality(T) + 1
    BY <1>1, FS_AddElement
  <2> QED
    BY <1>1, <2>1
<1>3. Cardinality(Trying(s)') = Cardinality(T \cup {p}) /\ T = Trying(s)
  BY DEF T
<1> QED
  BY <1>1, <1>2, <1>3, AutomationAssumption DEF Budget, TypeOK

\* An email is sent: an attempt is used.
LEMMA OneSends ==
  ASSUME TypeOK, NEW s \in Steps, Budget(s), NEW p \in Trying(s),
         Trying(s)' = Trying(s) \ {p}, sent'[s] = sent[s] + 1, attempts'[s] = attempts[s]
  PROVE  Budget(s)'
<1> DEFINE T == Trying(s)
<1>1. IsFiniteSet(T) /\ Cardinality(T) \in Nat /\ p \in T
  BY TryingFinite
<1> HIDE DEF T
<1>2. Cardinality(T \ {p}) = Cardinality(T) - 1
  BY <1>1, FS_RemoveElement
<1>3. Cardinality(Trying(s)') = Cardinality(T \ {p}) /\ T = Trying(s)
  BY DEF T
<1> QED
  BY <1>1, <1>2, <1>3, AutomationAssumption DEF Budget, TypeOK

LEMMA StepBudget ==
  ASSUME LockInv, BudgetInv, [Next]_vars, NEW s \in Steps
  PROVE  Budget(s)'
<1>t. TypeOK /\ WorkInPoll /\ Budget(s)
  BY DEF LockInv, BudgetInv
<1> USE DEF autoVars, rowVars, lockVars, pollVars, mailVars
<1>k. /\ exec \in [Procs -> [Steps -> ExecState]] /\ attempts \in [Steps -> Nat]
      /\ sent \in [Steps -> Nat]
  BY <1>t DEF TypeOK
<1>1. CASE UNCHANGED <<exec, sent, attempts>>
  BY <1>t, <1>k, <1>1, FewerTry DEF Trying
<1>2. ASSUME NEW p \in Procs, Crash(p) PROVE Budget(s)'
  <2>1. Trying(s)' \subseteq Trying(s)
    BY <1>k, <1>2 DEF Crash, Trying
  <2> QED
    BY <1>t, <1>k, <1>2, <2>1, FewerTry DEF Crash
<1>3. ASSUME NEW p \in Procs, NEW B, Lock(p, B)
      PROVE  attempts'[s] = IF s \in B /\ attempts[s] <= MaxAttempts
                            THEN attempts[s] + 1 ELSE attempts[s]
  BY <1>3 DEF Lock
<1>4. ASSUME NEW p \in Procs, FetchFails(p) PROVE Budget(s)'
  <2>1. sent' = sent /\ exec' = exec
    BY <1>4 DEF FetchFails
  <2>2. attempts' = attempts \/ \E B \in FullOrAll : Lock(p, B)
    BY <1>4 DEF FetchFails
  <2>3. attempts'[s] \in Nat /\ attempts[s] <= attempts'[s]
    BY <1>k, <1>3, <2>2
  <2> QED
    BY <1>t, <2>1, <2>3, FewerTry DEF Trying
<1>5. ASSUME NEW p \in Procs, Fetch(p) PROVE Budget(s)'
  <2>1. PICK B : /\ Lock(p, B)
                 /\ exec' = [exec EXCEPT ![p] =
                      [u \in Steps |-> IF u \in B THEN Verdict(u) ELSE exec[p][u]]]
    BY <1>5 DEF Fetch
  <2>2. sent' = sent /\ exec[p][s] = "off"
    BY <1>t, <1>5 DEF Fetch, WorkInPoll
  <2>3. \A q \in Procs : exec'[q][s] = IF q = p /\ s \in B THEN Verdict(s) ELSE exec[q][s]
    BY <1>k, <2>1
  <2>4. CASE s \in B /\ Verdict(s) = "run"
    <3>1. Trying(s)' = Trying(s) \cup {p}
      BY <2>3, <2>4 DEF Trying
    <3>2. attempts[s] < MaxAttempts
      BY <1>k, <2>4, AutomationAssumption DEF Verdict
    <3>3. attempts'[s] = attempts[s] + 1
      BY <1>3, <1>k, <2>1, <2>4, <3>2, AutomationAssumption
    <3> QED
      BY <1>t, <2>2, <3>1, <3>2, <3>3, OneTries
  <2>5. CASE ~(s \in B /\ Verdict(s) = "run")
    <3>1. Trying(s)' \subseteq Trying(s)
      BY <2>3, <2>5 DEF Trying, Verdict
    <3>2. attempts'[s] \in Nat /\ attempts[s] <= attempts'[s]
      BY <1>k, <1>3, <2>1
    <3> QED
      BY <1>t, <2>2, <3>1, <3>2, FewerTry
  <2> QED
    BY <2>4, <2>5
<1>6. ASSUME NEW p \in Procs, NEW u \in Steps, Send(p, u) \/ SendLost(p, u) PROVE Budget(s)'
  <2>1. /\ attempts' = attempts /\ sent' = [sent EXCEPT ![u] = @ + 1]
        /\ \E to \in {"finish", "error"} : Goes(p, u, "send", to)
    BY <1>6 DEF Send, SendLost
  <2>2. PICK to \in {"finish", "error"} :
          /\ exec[p][u] = "send"
          /\ \A q \in Procs, v \in Steps : exec'[q][v] = IF q = p /\ v = u THEN to ELSE exec[q][v]
    BY <1>t, <2>1, GoesType DEF ExecState
  <2>3. CASE s = u
    <3>1. p \in Trying(s) /\ Trying(s)' = Trying(s) \ {p}
      BY <2>2, <2>3 DEF Trying
    <3> QED
      BY <1>t, <1>k, <2>1, <2>3, <3>1, OneSends
  <2>4. CASE s # u
    <3>1. Trying(s)' \subseteq Trying(s)
      BY <2>2, <2>4 DEF Trying
    <3> QED
      BY <1>t, <1>k, <2>1, <2>4, <3>1, FewerTry
  <2> QED
    BY <2>3, <2>4
<1>7. ASSUME NEW p \in Procs, NEW u \in Steps,
             sent' = sent, attempts' = attempts,
             \E from, to \in ExecState :
                /\ Goes(p, u, from, to)
                /\ to \in {"run", "send"} => from \in {"run", "send"}
      PROVE  Budget(s)'
  <2>1. Trying(s)' \subseteq Trying(s)
    BY <1>t, <1>7, GoesType DEF Trying
  <2> QED
    BY <1>t, <1>k, <1>7, <2>1, FewerTry
<1>8. ASSUME NEW p \in Procs, NEW u \in Steps, Work(p, u) \/ WorkFails(p, u) PROVE Budget(s)'
  <2>1. CASE Send(p, u) \/ SendLost(p, u)
    BY <1>6, <2>1
  <2>2. CASE \/ MeetMember(p, u) \/ SendFails(p, u) \/ MarkTerminal(p, u) \/ Finish(p, u)
             \/ Retry(p, u) \/ Reschedule(p, u) \/ FinishFails(p, u) \/ ProcessFails(p, u)
    <3>1. sent' = sent /\ attempts' = attempts
      BY <2>2 DEF MeetMember, SendFails, MarkTerminal, Finish, Retry, Reschedule, FinishFails,
         ProcessFails
    <3>2. \E from, to \in ExecState :
            /\ Goes(p, u, from, to)
            /\ to \in {"run", "send"} => from \in {"run", "send"}
      BY <2>2 DEF MeetMember, SendFails, MarkTerminal, Finish, Retry, Reschedule, FinishFails,
         ProcessFails, ExecState
    <3> QED
      BY <1>7, <3>1, <3>2
  <2> QED
    BY <1>8, <2>1, <2>2 DEF Work, WorkFails
<1> QED
  BY <1>1, <1>2, <1>4, <1>5, <1>8
  DEF Next, vars, Tick, Edit, Serve, Boot, TimerFires, PollEnds, RequestPoll, SignUp

\* The email of a step is sent no more often than it may be attempted, even if
\* slow polls whose locks were taken over send it too.
THEOREM SendsWithinAttempts == Spec => []SendsBounded
<1>1. Init => LockInv /\ BudgetInv
  BY InitLocks, InitBudget
<1>2. LockInv /\ BudgetInv /\ [Next]_vars => (LockInv /\ BudgetInv)'
  <2>1. ASSUME LockInv, BudgetInv, [Next]_vars PROVE BudgetInv'
    BY <2>1, StepBudget DEF BudgetInv
  <2> QED
    BY <2>1, StepLocks
<1>3. LockInv /\ BudgetInv => SendsBounded
  BY TryingFinite, AutomationAssumption DEF LockInv, TypeOK, BudgetInv, Budget, SendsBounded
<1> QED
  BY <1>1, <1>2, <1>3, PTL DEF Spec

-----------------------------------------------------------------------------
(* When an email is sent twice.                                            *)

\* Nothing has happened to a row that is not there.
Fresh(s) ==
  status[s] = "absent" =>
    sent[s] = 0 /\ lockedBy[s] = NoProc /\ \A p \in Procs : exec[p][s] = "off"

\* Without trouble, who works on a step holds its lock, unless the step was
\* ended meanwhile; and who has sent its email only has to finish it.
Orderly(s) ==
  s \notin troubled =>
    /\ \A p \in Procs : exec[p][s] # "off" => lockedBy[s] = p \/ status[s] \in Ended
    /\ \A p, q \in Procs : exec[p][s] # "off" /\ exec[q][s] # "off" => p = q
    /\ sent[s] <= 1
    /\ sent[s] = 1 => /\ \A p \in Procs : exec[p][s] \in {"off", "finish"}
                      /\ status[s] = "pending" => lockedBy[s] # NoProc

OrderInv == \A s \in Steps : Fresh(s) /\ Orderly(s)

LEMMA InitOrderly == Init => OrderInv
BY DEF Init, OrderInv, Fresh, Orderly

LEMMA StepOrderly ==
  ASSUME LockInv, OrderInv, [Next]_vars, NEW s \in Steps
  PROVE  (Fresh(s) /\ Orderly(s))'
<1>t. TypeOK /\ RowsInOrder /\ LockedWaits /\ WorkInPoll /\ Fresh(s) /\ Orderly(s)
  BY DEF LockInv, OrderInv
<1> USE DEF autoVars, rowVars, lockVars, pollVars, mailVars
<1>k. /\ exec \in [Procs -> [Steps -> ExecState]] /\ sent \in [Steps -> Nat]
      /\ status \in [Steps -> {"absent", "pending"} \cup Ended]
      /\ lockedBy \in [Steps -> Procs \cup {NoProc}] /\ NoProc \notin Procs
      /\ "absent" \notin Ended /\ "pending" \notin Ended
  BY <1>t, AutomationAssumption DEF TypeOK, Ended
<1>1. CASE UNCHANGED <<status, lockedBy, exec, sent, troubled>>
  BY <1>t, <1>1 DEF Fresh, Orderly
<1>2. CASE Edit
  <2>1. UNCHANGED <<exec, sent, troubled>>
    BY <1>2 DEF Edit
  <2>2. \/ UNCHANGED <<status[s], lockedBy[s]>>
        \/ Free(s) /\ status'[s] = "disabled" /\ lockedBy'[s] = NoProc
    BY <1>2 DEF Edit, CancelSteps
  <2>3. Free(s) => status[s] = "pending"
    BY DEF Free
  <2> QED
    BY <1>t, <1>k, <2>1, <2>2, <2>3 DEF Fresh, Orderly, Ended
<1>3. ASSUME NEW p \in Procs, NEW B \in FullOrAll, Lock(p, B)
      PROVE  /\ status'[s] = status[s] /\ troubled \subseteq troubled'
             /\ s \notin B => lockedBy'[s] = lockedBy[s]
             /\ s \in B => /\ status[s] = "pending" /\ lockedBy'[s] = p
                           /\ lockedBy[s] = NoProc \/ s \in troubled'
  BY <1>3, LockedRows DEF Lock, Free
<1>4. ASSUME NEW p \in Procs, FetchFails(p) PROVE (Fresh(s) /\ Orderly(s))'
  <2>1. sent' = sent /\ exec' = exec
    BY <1>4 DEF FetchFails
  <2>2. UNCHANGED <<status, lockedBy, troubled>> \/ \E B \in FullOrAll : Lock(p, B)
    BY <1>4 DEF FetchFails
  <2>3. ASSUME NEW B \in FullOrAll, Lock(p, B) PROVE (Fresh(s) /\ Orderly(s))'
    BY <1>t, <1>k, <1>3, <2>1, <2>3 DEF Fresh, Orderly
  <2> QED
    BY <1>1, <2>1, <2>2, <2>3
<1>5. ASSUME NEW p \in Procs, Fetch(p) PROVE (Fresh(s) /\ Orderly(s))'
  <2>1. PICK B \in FullOrAll :
          /\ Lock(p, B)
          /\ exec' = [exec EXCEPT ![p] =
               [u \in Steps |-> IF u \in B THEN Verdict(u) ELSE exec[p][u]]]
    BY <1>5 DEF Fetch
  <2>2. sent' = sent /\ exec[p][s] = "off"
    BY <1>t, <1>5 DEF Fetch, WorkInPoll
  <2>3. \A q \in Procs : exec'[q][s] = IF q = p /\ s \in B THEN Verdict(s) ELSE exec[q][s]
    BY <1>k, <2>1
  <2>4. CASE s \notin B
    BY <1>t, <1>k, <1>3, <2>1, <2>2, <2>3, <2>4 DEF Fresh, Orderly
  <2>5. CASE s \in B /\ s \notin troubled'
    <3>1. status[s] = "pending" /\ lockedBy[s] = NoProc /\ lockedBy'[s] = p /\ s \notin troubled
          /\ status'[s] = "pending"
      BY <1>3, <2>1, <2>5
    <3>2. sent[s] = 0
      <4>1. sent[s] # 1 /\ sent[s] <= 1 /\ sent[s] \in Nat
        BY <1>t, <1>k, <3>1 DEF Orderly
      <4> QED
        BY <4>1
    <3>3. \A q \in Procs : exec[q][s] = "off"
      BY <1>t, <1>k, <3>1, Zenon DEF Orderly
    <3>4. \A q \in Procs : exec'[q][s] # "off" => q = p
      BY <2>3, <3>3
    <3>5. Fresh(s)'
      BY <3>1 DEF Fresh
    <3>6. sent'[s] = 0
      BY <2>2, <3>2
    <3> QED
      BY <3>1, <3>4, <3>5, <3>6 DEF Orderly
  <2>6. CASE s \in B /\ s \in troubled'
    BY <1>k, <1>3, <2>1, <2>6 DEF Fresh, Orderly
  <2> QED
    BY <2>4, <2>5, <2>6
<1>6. ASSUME NEW p \in Procs, Crash(p) PROVE (Fresh(s) /\ Orderly(s))'
  <2>1. \A q \in Procs : exec'[q][s] = IF q = p THEN "off" ELSE exec[q][s]
    BY <1>k, <1>6 DEF Crash
  <2>2. UNCHANGED <<status, lockedBy, sent, troubled>>
    BY <1>6 DEF Crash
  <2> QED
    BY <1>t, <2>1, <2>2 DEF Fresh, Orderly
<1>7. ASSUME NEW p \in Procs, NEW r \in Runs, SignUp(p, r) PROVE (Fresh(s) /\ Orderly(s))'
  <2>1. PICK t \in Steps : status[t] = "absent" /\ status' = [status EXCEPT ![t] = "pending"]
    BY <1>t, <1>7, BegunRow
  <2>2. UNCHANGED <<lockedBy, exec, sent, troubled>>
    BY <1>7 DEF SignUp
  <2> QED
    BY <1>t, <1>k, <2>1, <2>2 DEF Fresh, Orderly
<1>8. ASSUME NEW p \in Procs, NEW u \in Steps, Work(p, u) \/ WorkFails(p, u)
      PROVE  (Fresh(s) /\ Orderly(s))'
  <2>g. PICK from \in ExecState \ {"off"}, to \in ExecState :
          /\ exec[p][u] = from
          /\ \A q \in Procs, v \in Steps : exec'[q][v] = IF q = p /\ v = u THEN to ELSE exec[q][v]
          /\ Goes(p, u, from, to)
    <3>1. \E from \in ExecState \ {"off"}, to \in ExecState : Goes(p, u, from, to)
      BY <1>8 DEF Work, WorkFails, MeetMember, Send, SendFails, SendLost, MarkTerminal, Finish,
         FinishFails, Retry, Reschedule, ProcessFails, ExecState
    <3> QED
      BY <1>t, <3>1, GoesType
  <2>p. status[u] # "absent"
    BY <2>g DEF OrderInv, Fresh
  <2>1. CASE UNCHANGED <<status, lockedBy, sent, troubled>> /\ (to \in {"off", "finish"} \/ from # "finish")
    BY <1>t, <1>k, <2>1, <2>g, <2>p DEF Fresh, Orderly
  <2>2. CASE Send(p, u)
    <3>1. sent' = [sent EXCEPT ![u] = @ + 1] /\ UNCHANGED <<status, lockedBy, troubled>>
          /\ from = "send" /\ exec'[p][u] = "finish"
      BY <1>t, <2>2, <2>g, GoesType DEF Send, ExecState
    <3> QED
      BY <1>t, <1>k, <2>g, <2>p, <3>1 DEF Fresh, Orderly
  <2>3. CASE SendLost(p, u)
    <3>1. sent' = [sent EXCEPT ![u] = @ + 1] /\ UNCHANGED <<status, lockedBy>>
          /\ troubled' = troubled \cup {u}
      BY <2>3 DEF SendLost
    <3> QED
      BY <1>t, <1>k, <2>g, <2>p, <3>1 DEF Fresh, Orderly
  <2>4. ASSUME Holds(p, u), FinishRow(u, Onward(u)), sent' = sent, troubled \subseteq troubled',
               to = "off" \/ u \in troubled'
        PROVE  (Fresh(s) /\ Orderly(s))'
    <3>1. lockedBy' = [lockedBy EXCEPT ![u] = NoProc] /\ status[u] = "pending"
      BY <1>t, <2>4, FinishedRow DEF Holds
    <3>2. \/ status' = [status EXCEPT ![u] = "finished"]
          \/ \E t \in Steps :
               /\ status[t] = "absent" /\ t # u
               /\ status' = [status EXCEPT ![u] = "finished", ![t] = "pending"]
      BY <1>t, <2>4, FinishedRow
    <3>3. CASE s = u
      <4>1. status'[s] = "finished" /\ lockedBy'[s] = NoProc
        BY <1>k, <3>1, <3>2, <3>3
      <4> QED
        BY <1>t, <1>k, <2>4, <2>g, <3>3, <4>1 DEF Fresh, Orderly, Ended
    <3>4. CASE s # u
      <4>1. lockedBy'[s] = lockedBy[s] /\ sent'[s] = sent[s]
            /\ \A q \in Procs : exec'[q][s] = exec[q][s]
        BY <1>k, <2>4, <2>g, <3>1, <3>4
      <4>2. CASE status'[s] = status[s]
        BY <1>t, <2>4, <4>1, <4>2 DEF Fresh, Orderly
      <4>3. CASE status[s] = "absent" /\ status'[s] = "pending"
        <5>1. sent'[s] = 0 /\ \A q \in Procs : exec'[q][s] = "off"
          BY <1>t, <4>1, <4>3 DEF Fresh
        <5> QED
          BY <4>3, <5>1 DEF Fresh, Orderly
      <4> QED
        BY <1>k, <3>2, <3>4, <4>2, <4>3
    <3> QED
      BY <3>3, <3>4
  <2>5. CASE Finish(p, u)
    <3>1. sent' = sent /\ troubled' = troubled /\ to = "off"
      BY <1>k, <2>5, <2>g DEF Finish, Goes
    <3>2. CASE UNCHANGED rowVars
      BY <2>1, <3>1, <3>2
    <3>3. CASE Holds(p, u) /\ FinishRow(u, Onward(u))
      BY <2>4, <3>1, <3>3
    <3> QED
      BY <2>5, <3>2, <3>3 DEF Finish
  <2>6. CASE FinishFails(p, u)
    <3>1. sent' = sent /\ troubled' = troubled \cup {u}
      BY <2>6 DEF FinishFails
    <3>2. CASE UNCHANGED <<status, lockedBy>>
      BY <1>t, <1>k, <2>g, <2>p, <3>1, <3>2 DEF Fresh, Orderly
    <3>3. CASE Holds(p, u) /\ FinishRow(u, Onward(u))
      BY <2>4, <3>1, <3>3
    <3> QED
      BY <2>6, <3>2, <3>3 DEF FinishFails
  <2>7. CASE MarkTerminal(p, u)
    <3>0. PICK end \in {"disabled", "member", "failed"} : Goes(p, u, end, "off")
      BY <2>7 DEF MarkTerminal
    <3>1. sent' = sent /\ troubled' = troubled /\ exec'[p][u] = "off" /\ exec[p][u] = end
      <4>1. exec'[p][u] = "off" /\ exec[p][u] = end
        BY <1>t, <3>0, GoesType DEF ExecState
      <4> QED
        BY <2>7, <4>1 DEF MarkTerminal
    <3>2. \/ UNCHANGED <<status, lockedBy>>
          \/ /\ \E e \in Ended : status' = [status EXCEPT ![u] = e]
             /\ lockedBy' = [lockedBy EXCEPT ![u] = NoProc]
      BY <2>7 DEF MarkTerminal, EndRow, Unlock, Ended
    <3>3. from # "finish" /\ to = "off"
      BY <2>g, <3>1
    <3>4. CASE UNCHANGED <<status, lockedBy>>
      BY <2>1, <3>1, <3>3, <3>4
    <3>5. ASSUME NEW e \in Ended, status' = [status EXCEPT ![u] = e],
                 lockedBy' = [lockedBy EXCEPT ![u] = NoProc]
          PROVE  (Fresh(s) /\ Orderly(s))'
      BY <1>t, <1>k, <2>g, <3>1, <3>3, <3>5 DEF Fresh, Orderly
    <3> QED
      BY <3>2, <3>4, <3>5
  <2>8. CASE Reschedule(p, u)
    <3>1. UNCHANGED <<status, sent, troubled>> /\ from = "retry" /\ exec'[p][u] = "off"
      BY <1>t, <2>8, <2>g, GoesType DEF Reschedule, ExecState
    <3>2. lockedBy' = lockedBy \/ lockedBy' = [lockedBy EXCEPT ![u] = NoProc]
      BY <2>8 DEF Reschedule, Unlock
    <3> QED
      BY <1>t, <1>k, <2>g, <2>p, <3>1, <3>2 DEF Fresh, Orderly
  <2>9. CASE MeetMember(p, u) \/ SendFails(p, u) \/ Retry(p, u) \/ ProcessFails(p, u)
    <3>1. UNCHANGED <<status, lockedBy, sent, troubled>>
      BY <2>9 DEF MeetMember, SendFails, Retry, ProcessFails
    <3>2. from # "finish"
      BY <2>9, <2>g DEF MeetMember, SendFails, Retry, ProcessFails, Goes
    <3> QED
      BY <2>1, <3>1, <3>2
  <2> QED
    BY <1>8, <2>2, <2>3, <2>5, <2>6, <2>7, <2>8, <2>9 DEF Work, WorkFails
<1> QED
  BY <1>1, <1>2, <1>4, <1>5, <1>6, <1>7, <1>8
  DEF Next, vars, Tick, Edit, Serve, Boot, TimerFires, PollEnds, RequestPoll

\* A member gets the email of a step twice only after a lock ran out, an
\* answer of the provider was lost, or the step could not be finished.
THEOREM TwiceNeedsTrouble == Spec => []TwiceOnlyAfterTrouble
<1>1. Init => LockInv /\ OrderInv
  BY InitLocks, InitOrderly
<1>2. LockInv /\ OrderInv /\ [Next]_vars => (LockInv /\ OrderInv)'
  <2>1. ASSUME LockInv, OrderInv, [Next]_vars PROVE OrderInv'
    BY <2>1, StepOrderly DEF OrderInv
  <2> QED
    BY <2>1, StepLocks
<1>3. LockInv /\ OrderInv => TwiceOnlyAfterTrouble
  BY DEF LockInv, TypeOK, OrderInv, Orderly, TwiceOnlyAfterTrouble
<1> QED
  BY <1>1, <1>2, <1>3, PTL DEF Spec

-----------------------------------------------------------------------------
(* Who polls next.                                                         *)

\* A path goes on to one action.
LEMMA OnwardOne ==
  ASSUME TypeOK, NEW s, NEW a \in Onward(s), NEW b \in Onward(s)
  PROVE  a = b
<1>1. path \in Seq(Actions) /\ \A i, k \in 1..Len(path) : path[i] = path[k] => i = k
  BY AutomationAssumption DEF TypeOK, LinearPath
<1>2. a \in NextActions(s) /\ b \in NextActions(s)
  BY DEF Onward
<1>3. PICK i \in 2..Len(path) : path[i - 1] = action[s] /\ a = path[i]
  BY <1>2 DEF NextActions
<1>4. PICK k \in 2..Len(path) : path[k - 1] = action[s] /\ b = path[k]
  BY <1>2 DEF NextActions
<1>5. i - 1 = k - 1
  BY <1>1, <1>3, <1>4
<1> QED
  BY <1>3, <1>4, <1>5

Waits(s) == status[s] = "pending" /\ lockedBy[s] = NoProc

\* Rows that waited before are still polled when containers only poll sooner.
PollsNoLater(p) ==
  \A d \in Dates : PollsBy(p, d) => PollsBy(p, d)'

LEMMA StepPolled ==
  ASSUME LockInv, WaitingStepsArePolled, "db" \notin Faults, [Next]_vars, NEW s \in Steps, Waits(s)'
  PROVE  \E p \in Procs : PollsBy(p, ready[s])'
<1>t. TypeOK /\ RowsInOrder /\ LockedWaits /\ WorkInPoll
  BY DEF LockInv
<1> USE DEF autoVars, rowVars, lockVars, pollVars, mailVars
<1>k. /\ status \in [Steps -> {"absent", "pending"} \cup Ended]
      /\ lockedBy \in [Steps -> Procs \cup {NoProc}]
      /\ ready \in [Steps -> Dates]
      /\ poll \in [Procs -> PollState] /\ queued \in [Procs -> BOOLEAN]
      /\ timer \in [Procs -> Dates] /\ nextPoll \in [Procs -> Dates]
      /\ Dates \subseteq Nat /\ NoProc \notin Procs /\ "pending" \notin Ended
  BY <1>t, AutomationAssumption DEF TypeOK, Dates, Never, Ended
<1>w. Waits(s) => \E p \in Procs : PollsBy(p, ready[s])
  BY DEF WaitingStepsArePolled, Waits
\* The row waited before, and every container polls as soon as before.
<1>1. ASSUME Waits(s), ready'[s] = ready[s], \A q \in Procs : PollsNoLater(q)
      PROVE  \E p \in Procs : PollsBy(p, ready[s])'
  <2>1. PICK p \in Procs : PollsBy(p, ready[s])
    BY <1>1, <1>w
  <2>2. PollsBy(p, ready[s])'
    BY <1>1, <1>k, <2>1 DEF PollsNoLater, PollsBy
  <2> QED
    BY <2>2
<1>2. CASE UNCHANGED <<status, lockedBy, ready, poll, queued, timer, nextPoll>>
  <2>1. \A q \in Procs : PollsNoLater(q)
    BY <1>2 DEF PollsNoLater, PollsBy
  <2> QED
    BY <1>1, <1>2, <2>1 DEF Waits
\* Some container polls at once.
<1>3. ASSUME NEW p \in Procs, poll'[p] \in {"down", "fetch"} \/ queued'[p]
      PROVE  \E q \in Procs : PollsBy(q, ready[s])'
  BY <1>3 DEF PollsBy
<1>4. ASSUME NEW p \in Procs, StartPoll(p) PROVE \E q \in Procs : PollsBy(q, ready[s])'
  BY <1>k, <1>3, <1>4 DEF StartPoll
<1>5. CASE Tick
  <2>1. Waits(s) /\ ready'[s] = Nearer(ready[s])
    BY <1>5 DEF Tick, Waits
  <2>2. PICK p \in Procs : PollsBy(p, ready[s])
    BY <1>w, <2>1
  <2>3. /\ timer'[p] = Nearer(timer[p]) /\ nextPoll'[p] = Nearer(nextPoll[p])
        /\ poll' = poll /\ queued' = queued
    BY <1>5 DEF Tick
  <2>4. /\ timer[p] <= ready[s] => timer'[p] <= ready'[s]
        /\ nextPoll[p] <= ready[s] => nextPoll'[p] <= ready'[s]
    <3>1. timer[p] \in Dates /\ nextPoll[p] \in Dates /\ ready[s] \in Dates
      BY <1>k
    <3>2. \A d, e \in Dates : d <= e => Nearer(d) <= Nearer(e)
      BY DateFacts
    <3> QED
      BY <2>1, <2>3, <3>1, <3>2
  <2>5. PollsBy(p, ready[s])'
    BY <2>2, <2>3, <2>4 DEF PollsBy
  <2> QED
    BY <2>5
<1>6. CASE Edit
  <2>1. UNCHANGED <<ready, poll, queued, timer, nextPoll>>
    BY <1>6 DEF Edit
  <2>2. UNCHANGED <<status[s], lockedBy[s]>>
    BY <1>k, <1>6 DEF Edit, CancelSteps, Waits
  <2>3. \A q \in Procs : PollsNoLater(q)
    BY <2>1 DEF PollsNoLater, PollsBy
  <2> QED
    BY <1>1, <2>1, <2>2, <2>3 DEF Waits
<1>7. ASSUME NEW p \in Procs, Fetch(p) PROVE \E q \in Procs : PollsBy(q, ready[s])'
  <2>1. PICK B \in FullOrAll :
          /\ Lock(p, B)
          /\ nextPoll' = [nextPoll EXCEPT ![p] =
               IF Cardinality(B) >= BatchLimit THEN 0 ELSE SoonestLeft(B)]
    BY <1>7 DEF Fetch
  <2>2. s \notin B /\ Free(s) /\ ready'[s] = ready[s]
    BY <1>k, <2>1 DEF Lock, Waits, Free
  <2>3. nextPoll'[p] = 0 \/ nextPoll'[p] <= ready[s]
    BY <1>t, <1>k, <2>1, <2>2, SoonestFacts
  <2>4. ready[s] \in Nat /\ poll'[p] = "steps"
    BY <1>k, <1>7 DEF Fetch
  <2>5. PollsBy(p, ready[s])'
    BY <2>2, <2>3, <2>4 DEF PollsBy
  <2> QED
    BY <2>5
<1>8. ASSUME NEW p \in Procs, PollEnds(p) PROVE \E q \in Procs : PollsBy(q, ready[s])'
  <2>1. UNCHANGED <<status, lockedBy, ready>>
    BY <1>8 DEF PollEnds
  <2>2. CASE poll'[p] = "fetch"
    BY <1>3, <2>2
  <2>3. CASE poll'[p] # "fetch"
    <3>1. /\ RunEnds(p) /\ ~queued[p] /\ poll[p] = "steps"
          /\ timer' = [timer EXCEPT ![p] = Sooner(@, nextPoll[p])]
      BY <1>k, <1>8, <2>3 DEF PollEnds, RunEnds
    <3>2. /\ \A q \in Procs \ {p} : poll'[q] = poll[q] /\ queued'[q] = queued[q]
                                    /\ timer'[q] = timer[q] /\ nextPoll'[q] = nextPoll[q]
          /\ timer'[p] = Sooner(timer[p], nextPoll[p])
      BY <1>k, <1>8, <3>1 DEF PollEnds, RunEnds
    <3>n. timer[p] \in Nat /\ nextPoll[p] \in Nat
      BY <1>k
    <3>3. timer'[p] <= timer[p] /\ timer'[p] <= nextPoll[p] /\ timer'[p] \in Nat
      BY <3>2, <3>n DEF Sooner
    <3>4. PollsNoLater(p)
      <4> SUFFICES ASSUME NEW d \in Dates, PollsBy(p, d) PROVE timer'[p] <= d
        BY <1>k DEF PollsNoLater, PollsBy
      <4>1. timer[p] <= d \/ nextPoll[p] <= d
        BY <3>1 DEF PollsBy
      <4> QED
        <5>1. d \in Nat
          BY <1>k
        <5> QED
          BY <3>n, <3>3, <4>1, <5>1
    <3>5. \A q \in Procs : PollsNoLater(q)
      BY <3>2, <3>4 DEF PollsNoLater, PollsBy
    <3> QED
      BY <1>1, <2>1, <3>5 DEF Waits
  <2> QED
    BY <2>2, <2>3
\* A poll that works on a step moves its next poll forward, if at all.
<1>9. ASSUME NEW p \in Procs, NEW d \in Dates, poll[p] = "steps", PollAgainAt(p, d),
             UNCHANGED <<poll, queued, timer>>
      PROVE  PollsBy(p, d)' /\ \A q \in Procs : PollsNoLater(q)
  <2>1. nextPoll'[p] = Sooner(nextPoll[p], d) /\ \A q \in Procs \ {p} : nextPoll'[q] = nextPoll[q]
    BY <1>k, <1>9 DEF PollAgainAt
  <2>n. nextPoll[p] \in Nat /\ d \in Nat
    BY <1>k
  <2>2. nextPoll'[p] <= d /\ nextPoll'[p] <= nextPoll[p] /\ nextPoll'[p] \in Nat
    BY <2>1, <2>n DEF Sooner
  <2>3. PollsBy(p, d)'
    BY <1>9, <2>2 DEF PollsBy
  <2>4. PollsNoLater(p)
    <3> SUFFICES ASSUME NEW e \in Dates, nextPoll[p] <= e PROVE nextPoll'[p] <= e
      BY <1>9 DEF PollsNoLater, PollsBy
    <3>1. e \in Nat
      BY <1>k
    <3> QED
      BY <2>2, <2>n, <3>1
  <2>5. \A q \in Procs : PollsNoLater(q)
    BY <1>9, <2>1, <2>4 DEF PollsNoLater, PollsBy
  <2> QED
    BY <2>3, <2>5
<1>10. ASSUME NEW p \in Procs, NEW u \in Steps, MarkTerminal(p, u)
       PROVE  \E q \in Procs : PollsBy(q, ready[s])'
  <2>1. UNCHANGED <<ready, poll, queued, timer, nextPoll>>
    BY <1>10 DEF MarkTerminal
  <2>2. UNCHANGED <<status[s], lockedBy[s]>>
    BY <1>k, <1>10 DEF MarkTerminal, EndRow, Unlock, Waits, Ended
  <2>3. \A q \in Procs : PollsNoLater(q)
    BY <2>1 DEF PollsNoLater, PollsBy
  <2> QED
    BY <1>1, <2>1, <2>2, <2>3 DEF Waits
<1>11. ASSUME NEW p \in Procs, NEW u \in Steps, Reschedule(p, u)
       PROVE  \E q \in Procs : PollsBy(q, ready[s])'
  <2>1. poll[p] = "steps" /\ UNCHANGED <<status, poll, queued, timer>>
    BY <1>t, <1>11 DEF Reschedule, Goes, WorkInPoll
  <2>2. CASE UNCHANGED <<ready, lockVars, nextPoll>>
    BY <1>2, <2>1, <2>2
  <2>3. CASE /\ ready' = [ready EXCEPT ![u] = RetryDelay]
             /\ Unlock(u) /\ PollAgainAt(p, RetryDelay)
    <3>1. PollsBy(p, RetryDelay)' /\ \A q \in Procs : PollsNoLater(q)
      BY <1>9, <2>1, <2>3, DateFacts
    <3>2. CASE s = u
      <4>1. ready'[s] = RetryDelay
        BY <1>k, <2>3, <3>2
      <4>2. PollsBy(p, ready[s])'
        BY <3>1, <4>1 DEF PollsBy
      <4> QED
        BY <4>2
    <3>3. CASE s # u
      <4>1. ready'[s] = ready[s] /\ lockedBy'[s] = lockedBy[s]
        BY <1>k, <2>3, <3>3 DEF Unlock
      <4> QED
        BY <1>1, <2>1, <3>1, <4>1 DEF Waits
    <3> QED
      BY <3>2, <3>3
  <2> QED
    BY <1>11, <2>2, <2>3 DEF Reschedule
<1>12. ASSUME NEW p \in Procs, NEW u \in Steps, Finish(p, u)
       PROVE  \E q \in Procs : PollsBy(q, ready[s])'
  <2>1. poll[p] = "steps" /\ UNCHANGED <<poll, queued, timer>>
    BY <1>t, <1>12 DEF Finish, Goes, WorkInPoll
  <2>2. CASE UNCHANGED <<rowVars, nextPoll>>
    BY <1>2, <2>1, <2>2
  <2>3. ASSUME Holds(p, u), FinishRow(u, Onward(u)), Onward(u) = {}, UNCHANGED nextPoll
        PROVE  \E q \in Procs : PollsBy(q, ready[s])'
    <3>1. /\ status' = [status EXCEPT ![u] = "finished"] /\ ready' = ready
          /\ lockedBy' = [lockedBy EXCEPT ![u] = NoProc]
      BY <1>t, <2>3, FinishedRow
    <3>2. s # u /\ status'[s] = status[s] /\ lockedBy'[s] = lockedBy[s]
      BY <1>k, <3>1 DEF Waits
    <3>3. \A q \in Procs : PollsNoLater(q)
      BY <2>1, <2>3 DEF PollsNoLater, PollsBy
    <3> QED
      BY <1>1, <3>1, <3>2, <3>3 DEF Waits
  <2>4. ASSUME Holds(p, u), FinishRow(u, Onward(u)),
               NEW a \in Onward(u), PollAgainAt(p, DelayOf(a))
        PROVE  \E q \in Procs : PollsBy(q, ready[s])'
    <3>1. PollsBy(p, DelayOf(a))' /\ \A q \in Procs : PollsNoLater(q)
      BY <1>9, <2>1, <2>4, DateFacts
    <3>2. PICK t \in Steps, b \in Onward(u) :
            /\ t # u
            /\ status' = [status EXCEPT ![u] = "finished", ![t] = "pending"]
            /\ ready' = [ready EXCEPT ![t] = DelayOf(b)]
      BY <1>t, <2>4, FinishedRow
    <3>3. lockedBy' = [lockedBy EXCEPT ![u] = NoProc]
      BY <1>t, <2>4, FinishedRow
    <3>4. CASE s = t
      <4>1. a = b
        BY <1>t, OnwardOne
      <4>2. ready'[s] = DelayOf(a)
        BY <1>k, <3>2, <3>4, <4>1
      <4>3. PollsBy(p, ready[s])'
        BY <3>1, <4>2 DEF PollsBy
      <4> QED
        BY <4>3
    <3>5. CASE s # t
      <4>1. s # u
        BY <1>k, <3>2, <3>5 DEF Waits
      <4>2. status'[s] = status[s] /\ ready'[s] = ready[s] /\ lockedBy'[s] = lockedBy[s]
        BY <1>k, <3>2, <3>3, <3>5, <4>1
      <4> QED
        BY <1>1, <3>1, <4>2 DEF Waits
    <3> QED
      BY <3>4, <3>5
  <2> QED
    BY <1>12, <2>2, <2>3, <2>4 DEF Finish
<1>13. ASSUME NEW p \in Procs, NEW u \in Steps, Work(p, u) \/ WorkFails(p, u)
       PROVE  \E q \in Procs : PollsBy(q, ready[s])'
  <2>1. ~ FinishFails(p, u) /\ ~ ProcessFails(p, u)
    BY DEF FinishFails, ProcessFails, Fault
  <2>2. CASE MeetMember(p, u) \/ Send(p, u) \/ SendFails(p, u) \/ Retry(p, u) \/ SendLost(p, u)
    BY <1>2, <2>2 DEF MeetMember, Send, SendFails, Retry, SendLost
  <2> QED
    BY <1>10, <1>11, <1>12, <1>13, <2>1, <2>2 DEF Work, WorkFails
<1>14. ASSUME NEW p \in Procs, Boot(p) \/ TimerFires(p) \/ Crash(p) \/ RequestPoll(p)
                                 \/ \E r \in Runs : SignUp(p, r)
       PROVE  \E q \in Procs : PollsBy(q, ready[s])'
  <2>1. CASE Boot(p) \/ Crash(p)
    BY <1>k, <1>3, <2>1 DEF Boot, Crash
  <2>2. CASE ~(Boot(p) \/ Crash(p))
    BY <1>4, <1>14, <2>2 DEF TimerFires, RequestPoll, SignUp
  <2> QED
    BY <2>1, <2>2
<1>15. ASSUME NEW p \in Procs PROVE ~FetchFails(p)
  BY DEF FetchFails, Fault
<1>16. CASE UNCHANGED vars
  BY <1>2, <1>16 DEF vars
<1> QED
  BY <1>5, <1>6, <1>7, <1>8, <1>13, <1>14, <1>15, <1>16 DEF Next, Serve

\* When the database always answers, no row is forgotten: whatever crashes,
\* takeovers and late events do, a container polls by its date.
THEOREM NoStepForgotten ==
  ASSUME "db" \notin Faults
  PROVE  Spec => []WaitingStepsArePolled
<1>1. Init => LockInv /\ WaitingStepsArePolled
  <2>1. Init => WaitingStepsArePolled
    BY DEF Init, WaitingStepsArePolled
  <2> QED
    BY <2>1, InitLocks
<1>2. LockInv /\ WaitingStepsArePolled /\ [Next]_vars => (LockInv /\ WaitingStepsArePolled)'
  <2>1. ASSUME LockInv, WaitingStepsArePolled, [Next]_vars PROVE WaitingStepsArePolled'
    <3> SUFFICES ASSUME NEW s \in Steps, Waits(s)' PROVE \E p \in Procs : PollsBy(p, ready[s])'
      BY DEF WaitingStepsArePolled, Waits
    <3> QED
      BY <2>1, StepPolled
  <2> QED
    BY <2>1, StepLocks
<1> QED
  BY <1>1, <1>2, PTL DEF Spec

=============================================================================
