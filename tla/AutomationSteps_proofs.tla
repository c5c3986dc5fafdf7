------------------------ MODULE AutomationSteps_proofs ------------------------
(***************************************************************************)
(* Theorems about AutomationSteps, for every number of containers, runs    *)
(* and actions, every path, limit, delay and fault.                        *)
(***************************************************************************)
EXTENDS AutomationSteps, FiniteSetTheorems, TLAPS

\* A set of dates has a soonest one.
LEMMA Least ==
  ASSUME NEW S \in SUBSET Nat, S # {}
  PROVE  \E d \in S : \A e \in S : d <= e
<1> DEFINE R == {ss \in Nat \X Nat : ss[1] < ss[2]}
<1>1. IsWellFoundedOn(R, Nat)
  BY NatLessThanWellFounded, Zenon DEF OpToRel
<1>2. \A e, d \in Nat : e < d => <<e, d>> \in R
  OBVIOUS
<1> HIDE DEF R
<1>3. PICK d \in S : \A e \in S : ~ (<<e, d>> \in R)
  BY <1>1, WFMin
<1>4. ASSUME NEW e \in S PROVE d <= e
  <2>1. ~ (e < d) /\ e \in Nat /\ d \in Nat
    BY <1>2, <1>3
  <2> QED
    BY <2>1
<1> QED
  BY <1>4

LEMMA SoonestFacts ==
  ASSUME TypeOK, NEW B
  PROVE  /\ SoonestLeft(B) \in Dates
         /\ \A s \in Steps \ B : Free(s) => SoonestLeft(B) <= ready[s]
<1> DEFINE left == {ready[s] : s \in {s \in Steps : Free(s)} \ B} \cup {Never}
<1>1. left \subseteq Dates /\ left # {} /\ Dates \subseteq Nat
  BY AutomationAssumption DEF TypeOK, Dates, Never
<1>2. SoonestLeft(B) = CHOOSE d \in left : \A e \in left : d <= e
  BY DEF SoonestLeft
<1>3. \A s \in Steps \ B : Free(s) => ready[s] \in left
  OBVIOUS
<1> HIDE DEF left
<1>4. \E d \in left : \A e \in left : d <= e
  BY <1>1, Least
<1> QED
  BY <1>1, <1>2, <1>3, <1>4

LEMMA DateFacts ==
  /\ Never \in Nat \ {0} /\ RetryDelay \in Dates /\ \A a : DelayOf(a) \in Dates
  /\ 0 \in Dates /\ Never \in Dates
  /\ \A d, e \in Dates : Sooner(d, e) \in Dates
  /\ \A d \in Dates : Nearer(d) \in Dates
  /\ \A d, e \in Dates : d <= e => Nearer(d) <= Nearer(e)
BY AutomationAssumption DEF Never, Dates, DelayOf, Sooner, Nearer

-----------------------------------------------------------------------------
(* What the actions do to the rows.                                        *)

\* A row is added: the one behind the last, waiting for its action.
LEMMA AddRowType ==
  ASSUME TypeOK, NEW r, NEW a \in Actions, NEW changed \in [Steps -> {"absent", "pending"} \cup Ended],
         AddRow(r, a, changed)
  PROVE  /\ status' \in [Steps -> {"absent", "pending"} \cup Ended]
         /\ action' \in [Steps -> Actions \cup {NoAction}]
         /\ ready' \in [Steps -> Dates]
BY DateFacts DEF AddRow, TypeOK

LEMMA NextInActions ==
  ASSUME TypeOK
  PROVE  /\ FirstAction \in Actions
         /\ \A s : NextActions(s) \subseteq Actions
<1>1. path \in Seq(Actions) /\ path # <<>>
  BY AutomationAssumption DEF TypeOK, LinearPath
<1> QED
  BY <1>1 DEF FirstAction, NextActions

LEMMA OnwardFacts ==
  ASSUME TypeOK
  PROVE  \A s : Onward(s) \subseteq Actions
BY NextInActions DEF Onward

LEMMA UnlockType ==
  ASSUME TypeOK, NEW s \in Steps, Unlock(s)
  PROVE  /\ lockedBy' \in [Steps -> Procs \cup {NoProc}]
         /\ lockAge' \in [Steps -> 0..(LockTimeout + 1)]
BY AutomationAssumption DEF Unlock, TypeOK

LEMMA FinishRowType ==
  ASSUME TypeOK, NEW s \in Steps, FinishRow(s, Onward(s))
  PROVE  /\ status' \in [Steps -> {"absent", "pending"} \cup Ended]
         /\ action' \in [Steps -> Actions \cup {NoAction}]
         /\ ready' \in [Steps -> Dates]
         /\ lockedBy' \in [Steps -> Procs \cup {NoProc}]
         /\ lockAge' \in [Steps -> 0..(LockTimeout + 1)]
<1> DEFINE done == [status EXCEPT ![s] = "finished"]
<1>1. done \in [Steps -> {"absent", "pending"} \cup Ended]
  BY DEF TypeOK, Ended
<1> HIDE DEF done
<1>2. Unlock(s) /\ \/ status' = done /\ UNCHANGED <<action, ready>>
                   \/ \E a \in Onward(s) : AddRow(s[1], a, done)
  BY DEF FinishRow, done
<1>3. CASE status' = done /\ UNCHANGED <<action, ready>>
  BY <1>1, <1>2, <1>3, UnlockType DEF TypeOK
<1>4. ASSUME NEW a \in Onward(s), AddRow(s[1], a, done)
      PROVE  /\ status' \in [Steps -> {"absent", "pending"} \cup Ended]
             /\ action' \in [Steps -> Actions \cup {NoAction}]
             /\ ready' \in [Steps -> Dates]
  BY <1>1, <1>4, OnwardFacts, AddRowType
<1> QED
  BY <1>2, <1>3, <1>4, UnlockType

LEMMA LockType ==
  ASSUME TypeOK, NEW p \in Procs, NEW B, Lock(p, B)
  PROVE  /\ attempts' \in [Steps -> Nat]
         /\ lockedBy' \in [Steps -> Procs \cup {NoProc}]
         /\ lockAge' \in [Steps -> 0..(LockTimeout + 1)]
         /\ UNCHANGED <<status, action, ready>>
<1>1. attempts' \in [Steps -> Nat]
  BY DEF Lock, TypeOK
<1>2. lockedBy' \in [Steps -> Procs \cup {NoProc}]
  BY DEF Lock, TypeOK
<1>3. lockAge' \in [Steps -> 0..(LockTimeout + 1)]
  BY AutomationAssumption DEF Lock, TypeOK
<1> QED
  BY <1>1, <1>2, <1>3 DEF Lock

LEMMA GoesType ==
  ASSUME TypeOK, NEW p \in Procs, NEW s \in Steps, NEW from, NEW to \in ExecState,
         Goes(p, s, from, to)
  PROVE  /\ exec' \in [Procs -> [Steps -> ExecState]]
         /\ \A q \in Procs, t \in Steps :
              exec'[q][t] = IF q = p /\ t = s THEN to ELSE exec[q][t]
         /\ exec[p][s] = from
BY DEF Goes, TypeOK

LEMMA StartPollType ==
  ASSUME TypeOK, NEW p \in Procs, StartPoll(p)
  PROVE  poll' \in [Procs -> PollState] /\ queued' \in [Procs -> BOOLEAN]
BY DEF StartPoll, TypeOK, PollState

LEMMA RunEndsType ==
  ASSUME TypeOK, NEW p \in Procs, RunEnds(p)
  PROVE  poll' \in [Procs -> PollState] /\ queued' \in [Procs -> BOOLEAN]
BY DEF RunEnds, TypeOK, PollState

LEMMA EndRowType ==
  ASSUME TypeOK, NEW p, NEW s \in Steps, NEW to \in Ended, EndRow(p, s, to)
  PROVE  /\ status' \in [Steps -> {"absent", "pending"} \cup Ended]
         /\ lockedBy' \in [Steps -> Procs \cup {NoProc}]
         /\ lockAge' \in [Steps -> 0..(LockTimeout + 1)]
<1>1. CASE status' = [status EXCEPT ![s] = to] /\ Unlock(s)
  BY <1>1, UnlockType DEF TypeOK
<1>2. CASE UNCHANGED <<status, lockVars>>
  BY <1>2 DEF TypeOK, lockVars
<1> QED
  BY <1>1, <1>2 DEF EndRow

-----------------------------------------------------------------------------
(* Types.                                                                  *)

LEMMA InitTypes == Init => TypeOK
BY DateFacts, AutomationAssumption DEF Init, TypeOK, PollState, ExecState

LEMMA TickTypes == TypeOK /\ Tick => TypeOK'
<1> SUFFICES ASSUME TypeOK, Tick PROVE TypeOK'
  OBVIOUS
<1>1. ready' \in [Steps -> Dates] /\ timer' \in [Procs -> Dates] /\ nextPoll' \in [Procs -> Dates]
  BY DateFacts DEF Tick, TypeOK
<1>2. lockAge' \in [Steps -> 0..(LockTimeout + 1)]
  BY AutomationAssumption DEF Tick, TypeOK
<1>3. faults' \in Nat
  BY DEF Tick, Fault, TypeOK
<1> QED
  BY <1>1, <1>2, <1>3 DEF Tick, TypeOK, autoVars, mailVars

LEMMA EditTypes == TypeOK /\ Edit => TypeOK'
<1> SUFFICES ASSUME TypeOK, Edit PROVE TypeOK'
  OBVIOUS
<1>1. path' \in Paths /\ active' \in BOOLEAN /\ edits' \in Nat
  BY DEF Edit, ReplaceGraph, TypeOK
<1>2. /\ status' \in [Steps -> {"absent", "pending"} \cup Ended]
      /\ lockedBy' \in [Steps -> Procs \cup {NoProc}]
      /\ lockAge' \in [Steps -> 0..(LockTimeout + 1)]
  BY AutomationAssumption DEF Edit, CancelSteps, TypeOK, Ended, lockVars
<1> QED
  BY <1>1, <1>2 DEF Edit, TypeOK, pollVars, mailVars

LEMMA PollTypes ==
  ASSUME TypeOK, NEW p \in Procs,
         \/ Serve(p) \/ Crash(p) \/ RequestPoll(p) \/ FetchFails(p)
         \/ \E r \in Runs : SignUp(p, r)
  PROVE  TypeOK'
<1>1. CASE Boot(p)
  BY <1>1 DEF Boot, TypeOK, PollState, autoVars, rowVars, lockVars, mailVars
<1>2. CASE TimerFires(p)
  <2>1. timer' \in [Procs -> Dates]
    BY <1>2, DateFacts DEF TimerFires, TypeOK
  <2> QED
    BY <1>2, <2>1, StartPollType DEF TimerFires, TypeOK, autoVars, rowVars, lockVars, mailVars
<1>3. CASE Fetch(p)
  <2>1. PICK B : /\ B \in FullOrAll /\ Lock(p, B)
                 /\ exec' = [exec EXCEPT ![p] =
                      [s \in Steps |-> IF s \in B THEN Verdict(s) ELSE exec[p][s]]]
                 /\ nextPoll' = [nextPoll EXCEPT ![p] =
                      IF Cardinality(B) >= BatchLimit THEN 0 ELSE SoonestLeft(B)]
    BY <1>3 DEF Fetch
  <2>2. \A s : Verdict(s) \in ExecState
    BY DEF Verdict, ExecState
  <2>3. exec' \in [Procs -> [Steps -> ExecState]]
    BY <2>1, <2>2 DEF TypeOK
  <2>4. nextPoll' \in [Procs -> Dates]
    BY <2>1, SoonestFacts, DateFacts DEF TypeOK
  <2>5. troubled' \in SUBSET Steps
    BY <2>1 DEF Lock, TypeOK, FullOrAll, Due
  <2>6. poll' \in [Procs -> PollState]
    BY <1>3 DEF Fetch, TypeOK, PollState
  <2>7. UNCHANGED <<active, path, edits, queued, timer, sent, faults>>
    BY <1>3 DEF Fetch, autoVars
  <2> QED
    BY <2>1, <2>3, <2>4, <2>5, <2>6, <2>7, LockType DEF TypeOK
<1>4. CASE PollEnds(p)
  <2>1. nextPoll' \in [Procs -> Dates] /\ timer' \in [Procs -> Dates]
    <3>1. nextPoll[p] \in Dates /\ timer[p] \in Dates
      BY DEF TypeOK
    <3>2. nextPoll' \in [Procs -> Dates]
      BY <1>4, DateFacts DEF PollEnds, TypeOK
    <3>3. Sooner(timer[p], nextPoll[p]) \in Dates
      BY <3>1, DateFacts
    <3>4. timer' = timer \/ timer' = [timer EXCEPT ![p] = Sooner(timer[p], nextPoll[p])]
      BY <1>4 DEF PollEnds
    <3> QED
      BY <3>2, <3>3, <3>4 DEF TypeOK
  <2>2. poll' \in [Procs -> PollState] /\ queued' \in [Procs -> BOOLEAN]
    BY <1>4, RunEndsType DEF PollEnds, TypeOK, PollState
  <2> QED
    BY <1>4, <2>1, <2>2 DEF PollEnds, TypeOK, autoVars, rowVars, lockVars, mailVars
<1>5. CASE Crash(p)
  <2>1. /\ poll' \in [Procs -> PollState] /\ queued' \in [Procs -> BOOLEAN]
        /\ nextPoll' \in [Procs -> Dates] /\ timer' \in [Procs -> Dates]
    BY <1>5, DateFacts DEF Crash, TypeOK, PollState
  <2>2. exec' \in [Procs -> [Steps -> ExecState]] /\ faults' \in Nat
    BY <1>5 DEF Crash, Fault, TypeOK, ExecState
  <2> QED
    BY <1>5, <2>1, <2>2 DEF Crash, TypeOK, autoVars, rowVars, lockVars, mailVars
<1>6. CASE RequestPoll(p)
  BY <1>6, StartPollType DEF RequestPoll, TypeOK, autoVars, rowVars, lockVars, mailVars
<1>7. CASE FetchFails(p)
  <2>1. /\ attempts' \in [Steps -> Nat] /\ troubled' \in SUBSET Steps
        /\ lockedBy' \in [Steps -> Procs \cup {NoProc}]
        /\ lockAge' \in [Steps -> 0..(LockTimeout + 1)]
        /\ UNCHANGED <<status, action, ready>>
    <3>1. CASE UNCHANGED <<rowVars, troubled>>
      BY <3>1 DEF TypeOK, rowVars, lockVars
    <3>2. ASSUME NEW B \in FullOrAll, Lock(p, B)
          PROVE  /\ attempts' \in [Steps -> Nat] /\ troubled' \in SUBSET Steps
                 /\ lockedBy' \in [Steps -> Procs \cup {NoProc}]
                 /\ lockAge' \in [Steps -> 0..(LockTimeout + 1)]
                 /\ UNCHANGED <<status, action, ready>>
      <4>1. troubled' \in SUBSET Steps
        BY <3>2 DEF Lock, TypeOK, FullOrAll, Due
      <4> QED
        BY <3>2, <4>1, LockType
    <3> QED
      BY <1>7, <3>1, <3>2 DEF FetchFails
  <2>2. poll' \in [Procs -> PollState] /\ queued' \in [Procs -> BOOLEAN] /\ faults' \in Nat
    BY <1>7, RunEndsType DEF FetchFails, Fault, TypeOK
  <2> QED
    BY <1>7, <2>1, <2>2 DEF FetchFails, TypeOK, autoVars
<1>8. ASSUME NEW r \in Runs, SignUp(p, r) PROVE TypeOK'
  <2>1. /\ status' \in [Steps -> {"absent", "pending"} \cup Ended]
        /\ action' \in [Steps -> Actions \cup {NoAction}]
        /\ ready' \in [Steps -> Dates]
    <3>1. status \in [Steps -> {"absent", "pending"} \cup Ended] /\ FirstAction \in Actions
      BY NextInActions DEF TypeOK
    <3> QED
      BY <1>8, <3>1, AddRowType DEF SignUp
  <2> QED
    BY <1>8, <2>1, StartPollType DEF SignUp, TypeOK, autoVars, lockVars, mailVars
<1> QED
  BY <1>1, <1>2, <1>3, <1>4, <1>5, <1>6, <1>7, <1>8 DEF Serve

LEMMA ExecTypes ==
  ASSUME TypeOK, NEW p \in Procs, NEW s \in Steps, Work(p, s) \/ WorkFails(p, s)
  PROVE  TypeOK'
<1> USE DEF autoVars, rowVars, lockVars, pollVars, mailVars
<1>0. exec' \in [Procs -> [Steps -> ExecState]]
  <2>1. \E from, to \in ExecState : Goes(p, s, from, to)
    BY DEF Work, WorkFails, MeetMember, Send, SendFails, SendLost, MarkTerminal, Finish,
       FinishFails, Retry, Reschedule, ProcessFails, ExecState
  <2> QED
    BY <2>1, GoesType
<1>s. sent' \in [Steps -> Nat] /\ troubled' \in SUBSET Steps /\ faults' \in Nat
      /\ UNCHANGED <<active, path, edits, poll, queued, timer>>
  <2>1. CASE Work(p, s)
    BY <2>1 DEF Work, MeetMember, Send, SendFails, MarkTerminal, Finish, Retry, Reschedule, TypeOK
  <2>2. CASE WorkFails(p, s)
    <3>1. faults' \in Nat
      BY <2>2 DEF WorkFails, SendLost, FinishFails, ProcessFails, Fault, TypeOK
    <3>2. CASE SendLost(p, s)
      BY <3>1, <3>2 DEF SendLost, TypeOK
    <3>3. CASE FinishFails(p, s)
      BY <3>1, <3>3 DEF FinishFails, TypeOK
    <3>4. CASE ProcessFails(p, s)
      BY <3>1, <3>4 DEF ProcessFails, TypeOK
    <3> QED
      BY <2>2, <3>2, <3>3, <3>4 DEF WorkFails
  <2> QED
    BY <2>1, <2>2
<1>n. nextPoll' \in [Procs -> Dates]
  <2>1. ASSUME NEW d \in Dates, PollAgainAt(p, d) PROVE nextPoll' \in [Procs -> Dates]
    BY <2>1, DateFacts DEF PollAgainAt, TypeOK
  <2>2. nextPoll' = nextPoll \/ \E d \in Dates : PollAgainAt(p, d)
    BY DateFacts DEF Work, WorkFails, MeetMember, Send, SendFails, SendLost, MarkTerminal, Finish,
       FinishFails, Retry, Reschedule, ProcessFails
  <2> QED
    BY <2>1, <2>2 DEF TypeOK
<1>r. /\ status' \in [Steps -> {"absent", "pending"} \cup Ended]
      /\ action' \in [Steps -> Actions \cup {NoAction}]
      /\ attempts' \in [Steps -> Nat]
      /\ ready' \in [Steps -> Dates]
      /\ lockedBy' \in [Steps -> Procs \cup {NoProc}]
      /\ lockAge' \in [Steps -> 0..(LockTimeout + 1)]
  <2>1. CASE UNCHANGED rowVars
    BY <2>1 DEF TypeOK
  <2>2. CASE MarkTerminal(p, s)
    BY <2>2, EndRowType DEF MarkTerminal, TypeOK, Ended
  <2>3. CASE FinishRow(s, Onward(s)) /\ UNCHANGED attempts
    BY <2>3, FinishRowType DEF TypeOK
  <2>4. CASE Reschedule(p, s)
    <3>1. ready' \in [Steps -> Dates]
      BY <2>4, DateFacts DEF Reschedule, TypeOK
    <3> QED
      BY <2>4, <3>1, UnlockType DEF Reschedule, TypeOK
  <2> QED
    BY <2>1, <2>2, <2>3, <2>4 DEF Work, WorkFails, MeetMember, Send, SendFails, SendLost, Finish,
       FinishFails, Retry, ProcessFails
<1> QED
  BY <1>0, <1>s, <1>n, <1>r DEF TypeOK

LEMMA StepTypes == TypeOK /\ [Next]_vars => TypeOK'
<1> SUFFICES ASSUME TypeOK, [Next]_vars PROVE TypeOK'
  OBVIOUS
<1>1. CASE UNCHANGED vars
  BY <1>1 DEF vars, TypeOK, autoVars, rowVars, lockVars, pollVars, mailVars
<1>2. CASE Tick \/ Edit
  BY <1>2, TickTypes, EditTypes
<1>3. ASSUME NEW p \in Procs,
             \/ Serve(p) \/ Crash(p) \/ RequestPoll(p) \/ FetchFails(p)
             \/ \E r \in Runs : SignUp(p, r)
      PROVE  TypeOK'
  BY <1>3, PollTypes
<1>4. ASSUME NEW p \in Procs, NEW s \in Steps, Work(p, s) \/ WorkFails(p, s)
      PROVE  TypeOK'
  BY <1>4, ExecTypes
<1> QED
  BY <1>1, <1>2, <1>3, <1>4 DEF Next

\* Every variable keeps its type.
THEOREM TypeCorrect == Spec => []TypeOK
<1>1. Init => TypeOK
  BY InitTypes
<1>2. TypeOK /\ [Next]_vars => TypeOK'
  BY StepTypes
<1> QED
  BY <1>1, <1>2, PTL DEF Spec

-----------------------------------------------------------------------------
(* Rows.                                                                   *)

\* All that can happen to the rows: nothing, an edit that ends some of those
\* that wait, the end of one, and a new one, for a new run or behind another.
NoRowMoves == UNCHANGED <<status, action, active, path>>
EditsRows ==
  /\ active' \in BOOLEAN /\ path' \in Paths /\ action' = action
  /\ \E S \in SUBSET Steps :
       /\ \A s \in S : status[s] = "pending"
       /\ active' => S = {}
       /\ status' = [s \in Steps |-> IF s \in S THEN "disabled" ELSE status[s]]
OneRowEnds(s) ==
  /\ status[s] = "pending"
  /\ \E to \in Ended : status' = [status EXCEPT ![s] = to]
  /\ UNCHANGED <<action, active, path>>
RunBegins(r) ==
  /\ RowsOf(r) = {} /\ active
  /\ AddRow(r, FirstAction, status)
  /\ UNCHANGED <<active, path>>
RowFollows(s) ==
  /\ status[s] = "pending"
  /\ \E a \in Onward(s) : AddRow(s[1], a, [status EXCEPT ![s] = "finished"])
  /\ UNCHANGED <<active, path>>

RowsMove ==
  \/ NoRowMoves \/ EditsRows
  \/ \E s \in Steps : OneRowEnds(s) \/ RowFollows(s)
  \/ \E r \in Runs : RunBegins(r)

LEMMA FinishRowMoves ==
  ASSUME TypeOK, NEW p \in Procs, NEW s \in Steps, Holds(p, s), FinishRow(s, Onward(s)),
         UNCHANGED <<active, path>>
  PROVE  OneRowEnds(s) \/ RowFollows(s)
BY DEF Holds, FinishRow, OneRowEnds, RowFollows, Ended

LEMMA RowSteps == TypeOK /\ [Next]_vars => RowsMove
<1> SUFFICES ASSUME TypeOK, [Next]_vars PROVE RowsMove
  OBVIOUS
<1> USE DEF autoVars, rowVars, lockVars, pollVars, mailVars
<1>1. CASE UNCHANGED vars
  BY <1>1 DEF vars, RowsMove, NoRowMoves
<1>2. CASE Tick
  BY <1>2 DEF Tick, RowsMove, NoRowMoves
<1>3. CASE Edit
  <2>1. active' \in BOOLEAN /\ path' \in Paths /\ action' = action
    BY <1>3 DEF Edit, ReplaceGraph
  <2>2. CASE active' /\ UNCHANGED <<status, lockVars>>
    <3>1. status' = [s \in Steps |-> IF s \in {} THEN "disabled" ELSE status[s]]
      BY <2>2 DEF TypeOK
    <3>2. \E S \in SUBSET Steps :
            /\ \A s \in S : status[s] = "pending"
            /\ active' => S = {}
            /\ status' = [s \in Steps |-> IF s \in S THEN "disabled" ELSE status[s]]
      <4> WITNESS {} \in SUBSET Steps
      <4> QED
        BY <3>1
    <3> QED
      BY <2>1, <3>2 DEF RowsMove, EditsRows
  <2>3. CASE ~active' /\ CancelSteps({s \in Steps : Free(s)})
    <3>1. \A s \in {s \in Steps : Free(s)} : status[s] = "pending"
      BY DEF Free
    <3> QED
      BY <2>1, <2>3, <3>1 DEF RowsMove, EditsRows, CancelSteps
  <2> QED
    BY <1>3, <2>2, <2>3 DEF Edit
<1>4. ASSUME NEW p \in Procs, Serve(p) \/ Crash(p) \/ RequestPoll(p) \/ FetchFails(p)
      PROVE  RowsMove
  BY <1>4 DEF Serve, Boot, TimerFires, Fetch, PollEnds, Crash, RequestPoll, FetchFails, Lock,
     RowsMove, NoRowMoves
<1>5. ASSUME NEW p \in Procs, NEW r \in Runs, SignUp(p, r) PROVE RowsMove
  BY <1>5 DEF SignUp, RowsMove, RunBegins
<1>6. ASSUME NEW p \in Procs, NEW s \in Steps, Work(p, s) \/ WorkFails(p, s) PROVE RowsMove
  <2>1. CASE Finish(p, s)
    <3>1. CASE ~Holds(p, s) /\ UNCHANGED rowVars
      BY <2>1, <3>1 DEF Finish, RowsMove, NoRowMoves
    <3>2. CASE Holds(p, s) /\ FinishRow(s, Onward(s))
      BY <2>1, <3>2, FinishRowMoves DEF Finish, RowsMove
    <3> QED
      BY <2>1, <3>1, <3>2 DEF Finish
  <2>2. CASE FinishFails(p, s)
    <3>1. CASE UNCHANGED rowVars
      BY <2>2, <3>1 DEF FinishFails, RowsMove, NoRowMoves
    <3>2. CASE Holds(p, s) /\ FinishRow(s, Onward(s))
      BY <2>2, <3>2, FinishRowMoves DEF FinishFails, RowsMove
    <3> QED
      BY <2>2, <3>1, <3>2 DEF FinishFails
  <2>3. CASE MarkTerminal(p, s)
    <3>1. PICK to \in {"disabled", "member", "failed"} : EndRow(p, s, to)
      BY <2>3 DEF MarkTerminal
    <3>2. UNCHANGED <<action, active, path>>
      BY <2>3 DEF MarkTerminal
    <3>3. CASE Holds(p, s) /\ status' = [status EXCEPT ![s] = to]
      BY <3>2, <3>3 DEF Holds, RowsMove, OneRowEnds, Ended
    <3> QED
      BY <3>1, <3>2, <3>3 DEF EndRow, RowsMove, NoRowMoves
  <2>4. CASE \/ MeetMember(p, s) \/ Send(p, s) \/ SendFails(p, s) \/ Retry(p, s)
             \/ Reschedule(p, s) \/ SendLost(p, s) \/ ProcessFails(p, s)
    BY <2>4 DEF MeetMember, Send, SendFails, Retry, Reschedule, SendLost, ProcessFails,
       RowsMove, NoRowMoves
  <2> QED
    BY <1>6, <2>1, <2>2, <2>3, <2>4 DEF Work, WorkFails
<1> QED
  BY <1>1, <1>2, <1>3, <1>4, <1>5, <1>6 DEF Next

\* The rows of a run are the first ones, all but the last of them finished.
UpTo(r, n) ==
  /\ n \in 0..MaxSteps
  /\ \A k \in 1..MaxSteps : /\ status[<<r, k>>] # "absent" <=> k <= n
                            /\ k < n => status[<<r, k>>] = "finished"

\* RunIsSequential alone does not say that the next row is the one behind the
\* last: insertRunStep would not know where to put it.
RowsInOrder == \A r \in Runs : \E n \in Nat : UpTo(r, n)

LEMMA RowCount ==
  ASSUME TypeOK, NEW r \in Runs, NEW n \in Nat, UpTo(r, n)
  PROVE  Cardinality(RowsOf(r)) = n
<1>1. n \in 0..MaxSteps /\ MaxSteps \in Nat
  BY AutomationAssumption DEF UpTo
<1>2. RowsOf(r) = {r} \X (1..n)
  BY <1>1 DEF UpTo, RowsOf, Steps
<1>3. IsFiniteSet({r}) /\ Cardinality({r}) = 1
  BY FS_Singleton
<1>4. IsFiniteSet(1..n) /\ Cardinality(1..n) = n
  <2>1. Cardinality(1..n) = IF 1 > n THEN 0 ELSE n - 1 + 1
    BY FS_Interval
  <2> QED
    BY <2>1, FS_Interval
<1>5. Cardinality({r} \X (1..n)) = 1 * n
  <2>1. Cardinality({r} \X (1..n)) = Cardinality({r}) * Cardinality(1..n)
    <3> DEFINE T == 1..n
    <3> HIDE DEF T
    <3>1. IsFiniteSet(T) => Cardinality({r} \X T) = Cardinality({r}) * Cardinality(T)
      BY <1>3, FS_Product
    <3> QED
      BY <1>4, <3>1 DEF T
  <2> QED
    BY <1>3, <1>4, <2>1
<1> QED
  BY <1>2, <1>5

\* A row that waits is the last of its run.
LEMMA PendingIsLast ==
  ASSUME TypeOK, NEW s \in Steps, NEW n \in Nat, UpTo(s[1], n), status[s] = "pending"
  PROVE  s = <<s[1], s[2]>> /\ s[1] \in Runs /\ s[2] \in 1..MaxSteps /\ s[2] = n
BY AutomationAssumption DEF UpTo, Steps

\* Where a new row comes to stand.
LEMMA AddRowMeans ==
  ASSUME TypeOK, NEW r \in Runs, NEW n \in Nat, UpTo(r, n), NEW a,
         NEW changed \in [Steps -> {"absent", "pending"} \cup Ended], AddRow(r, a, changed)
  PROVE  /\ n + 1 \in 1..MaxSteps /\ <<r, n + 1>> \in Steps
         /\ status' = [changed EXCEPT ![<<r, n + 1>>] = "pending"]
         /\ action' = [action EXCEPT ![<<r, n + 1>>] = a]
BY RowCount DEF AddRow, Steps

LEMMA InitOrder == Init => RowsInOrder
<1> SUFFICES ASSUME Init, NEW r \in Runs PROVE UpTo(r, 0)
  BY DEF RowsInOrder
<1> QED
  BY AutomationAssumption DEF Init, UpTo, Steps

LEMMA StepOrder ==
  ASSUME TypeOK, RowsInOrder, RowsMove
  PROVE  RowsInOrder'
<1> SUFFICES ASSUME NEW r \in Runs PROVE \E n \in Nat : UpTo(r, n)'
  BY DEF RowsInOrder
<1>n. PICK n \in Nat : UpTo(r, n)
  BY DEF RowsInOrder
<1>s. \A k \in 1..MaxSteps : <<r, k>> \in Steps
  BY DEF Steps
<1>t. status \in [Steps -> {"absent", "pending"} \cup Ended]
  BY DEF TypeOK
<1>1. CASE NoRowMoves
  BY <1>n, <1>1 DEF NoRowMoves, UpTo
<1>2. CASE EditsRows
  <2>1. PICK S \in SUBSET Steps :
          /\ \A s \in S : status[s] = "pending"
          /\ status' = [s \in Steps |-> IF s \in S THEN "disabled" ELSE status[s]]
    BY <1>2 DEF EditsRows
  <2>2. UpTo(r, n)'
    BY <1>n, <1>s, <2>1 DEF UpTo
  <2> QED
    BY <2>2
<1>3. ASSUME NEW s \in Steps, OneRowEnds(s) PROVE \E m \in Nat : UpTo(r, m)'
  <2>1. PICK to \in Ended : status[s] = "pending" /\ status' = [status EXCEPT ![s] = to]
    BY <1>3 DEF OneRowEnds
  <2>2. to # "absent"
    BY DEF Ended
  <2>3. UpTo(r, n)'
    BY <1>n, <1>s, <1>t, <2>1, <2>2 DEF UpTo
  <2> QED
    BY <2>3
<1>4. ASSUME NEW s \in Steps, RowFollows(s) PROVE \E m \in Nat : UpTo(r, m)'
  <2> DEFINE done == [status EXCEPT ![s] = "finished"]
  <2>1. PICK a \in Onward(s) : status[s] = "pending" /\ AddRow(s[1], a, done)
    BY <1>4 DEF RowFollows
  <2>2. done \in [Steps -> {"absent", "pending"} \cup Ended]
    BY <1>t DEF Ended
  <2>3. s[1] \in Runs
    BY DEF Steps
  <2>4. PICK k \in Nat : UpTo(s[1], k)
    BY <2>3 DEF RowsInOrder
  <2>5. /\ k + 1 \in 1..MaxSteps /\ <<s[1], k + 1>> \in Steps
        /\ status' = [done EXCEPT ![<<s[1], k + 1>>] = "pending"]
    <3> HIDE DEF done
    <3> QED
      BY <2>1, <2>2, <2>3, <2>4, AddRowMeans
  <2>6. s = <<s[1], s[2]>> /\ s[2] = k /\ s[2] \in 1..MaxSteps
    BY <2>1, <2>4, PendingIsLast
  <2>7. CASE r = s[1]
    <3>1. \A j \in 1..MaxSteps :
            status'[<<r, j>>] = IF j = k + 1 THEN "pending"
                                ELSE IF j = k THEN "finished" ELSE status[<<r, j>>]
      BY <1>s, <1>t, <2>5, <2>6, <2>7
    <3>2. UpTo(r, k)
      BY <2>4, <2>7
    <3>3. k + 1 \in 0..MaxSteps /\ k \in Nat
      BY <2>5
    <3>4. ASSUME NEW j \in 1..MaxSteps
          PROVE  /\ status'[<<r, j>>] # "absent" <=> j <= k + 1
                 /\ j < k + 1 => status'[<<r, j>>] = "finished"
      <4>1. CASE j = k + 1 \/ j = k
        BY <3>1, <4>1
      <4>2. CASE j < k
        BY <3>1, <3>2, <4>2 DEF UpTo
      <4>3. CASE j > k + 1
        BY <3>1, <3>2, <4>3 DEF UpTo
      <4> QED
        BY <3>3, <4>1, <4>2, <4>3
    <3>5. UpTo(r, k + 1)'
      BY <3>3, <3>4 DEF UpTo
    <3> QED
      BY <3>5
  <2>8. CASE r # s[1]
    <3>1. \A j \in 1..MaxSteps : status'[<<r, j>>] = status[<<r, j>>]
      BY <1>s, <1>t, <2>5, <2>6, <2>8
    <3>2. UpTo(r, n)'
      BY <1>n, <3>1 DEF UpTo
    <3> QED
      BY <3>2
  <2> QED
    BY <2>7, <2>8
<1>5. ASSUME NEW q \in Runs, RunBegins(q) PROVE \E m \in Nat : UpTo(r, m)'
  <2>1. PICK k \in Nat : UpTo(q, k)
    BY DEF RowsInOrder
  <2>2. /\ k + 1 \in 1..MaxSteps /\ <<q, k + 1>> \in Steps
        /\ status' = [status EXCEPT ![<<q, k + 1>>] = "pending"]
    BY <1>t, <1>5, <2>1, AddRowMeans DEF RunBegins
  <2>3. k = 0
    BY <1>5, <2>1, RowCount, FS_EmptySet DEF RunBegins
  <2>4. CASE r = q
    <3>1. \A j \in 1..MaxSteps :
            status'[<<r, j>>] = IF j = k + 1 THEN "pending" ELSE status[<<r, j>>]
      BY <1>s, <1>t, <2>2, <2>4
    <3>2. UpTo(r, k + 1)'
      BY <2>1, <2>2, <2>3, <2>4, <3>1 DEF UpTo
    <3> QED
      BY <3>2
  <2>5. CASE r # q
    <3>1. \A j \in 1..MaxSteps : status'[<<r, j>>] = status[<<r, j>>]
      BY <1>s, <1>t, <2>2, <2>5
    <3>2. UpTo(r, n)'
      BY <1>n, <3>1 DEF UpTo
    <3> QED
      BY <3>2
  <2> QED
    BY <2>4, <2>5
<1> QED
  BY <1>1, <1>2, <1>3, <1>4, <1>5 DEF RowsMove

\* The steps of a run are done one after the other (insertRunStep inside the
\* transaction that finishes the step before, under the lock on that step).
THEOREM RowsOfRunsInOrder == Spec => []RunIsSequential
<1>1. Init => TypeOK /\ RowsInOrder
  BY InitTypes, InitOrder
<1>2. TypeOK /\ RowsInOrder /\ [Next]_vars => (TypeOK /\ RowsInOrder)'
  BY StepTypes, RowSteps, StepOrder
<1>3. TypeOK /\ RowsInOrder => RunIsSequential
  <2> SUFFICES ASSUME TypeOK, RowsInOrder, NEW s \in Steps, s[2] > 1, status[s] # "absent"
               PROVE  status[<<s[1], s[2] - 1>>] = "finished"
    BY DEF RunIsSequential
  <2>1. s[1] \in Runs /\ s[2] \in 1..MaxSteps /\ s = <<s[1], s[2]>> /\ MaxSteps \in Nat
    BY AutomationAssumption DEF Steps
  <2>2. PICK n \in Nat : UpTo(s[1], n)
    BY <2>1 DEF RowsInOrder
  <2>3. s[2] - 1 \in 1..MaxSteps /\ s[2] <= n
    BY <2>1, <2>2 DEF UpTo
  <2> QED
    BY <2>1, <2>2, <2>3 DEF UpTo
<1> QED
  BY <1>1, <1>2, <1>3, PTL DEF Spec

-----------------------------------------------------------------------------
(* The refinement of AutomationRun.                                        *)

LEMMA OnePending ==
  ASSUME TypeOK, RowsInOrder, NEW r \in Runs
  PROVE  \A s, t \in PendingOf(r) : s = t
<1>1. PICK n \in Nat : UpTo(r, n)
  BY DEF RowsInOrder
<1> QED
  BY <1>1, PendingIsLast DEF PendingOf, RowsOf

\* Where a run stands, in terms of its one row that waits, if there is one.
LEMMA StandsAt ==
  ASSUME NEW r, NEW s, PendingOf(r) = {s}
  PROVE  StageOf(r) = "on" /\ AtOf(r) = action[s]
BY DEF StageOf, AtOf, PendingOf

LEMMA StandsAtNext ==
  ASSUME NEW r, NEW s, PendingOf(r)' = {s}
  PROVE  StageOf(r)' = "on" /\ AtOf(r)' = action'[s]
<1>1. PendingOf(r)' # {} /\ PendingOf(r)' \subseteq RowsOf(r)'
  BY DEF PendingOf
<1> QED
  BY <1>1 DEF StageOf, AtOf

\* One run moves: what AutomationRun calls Moves.
LEMMA OneMoves ==
  ASSUME NEW r \in Runs, NEW to, NEW a, StageOf(r)' = to, AtOf(r)' = a,
         \A q \in Runs \ {r} : StageOf(q)' = StageOf(q) /\ AtOf(q)' = AtOf(q),
         UNCHANGED <<active, path>>
  PROVE  Run!Moves(r, to, a)
<1>1. StageOfRuns' = [StageOfRuns EXCEPT ![r] = to]
  BY DEF StageOfRuns
<1>2. AtOfRuns' = [AtOfRuns EXCEPT ![r] = a]
  BY DEF AtOfRuns
<1> QED
  BY <1>1, <1>2 DEF Run!Moves

\* Rows of another run leave a run where it is.
LEMMA OthersStay ==
  ASSUME NEW q,
         \A t \in Steps : t[1] = q => status'[t] = status[t] /\ action'[t] = action[t]
  PROVE  StageOf(q)' = StageOf(q) /\ AtOf(q)' = AtOf(q)
<1>1. RowsOf(q)' = RowsOf(q) /\ PendingOf(q)' = PendingOf(q)
  BY DEF RowsOf, PendingOf
<1>2. \A t \in PendingOf(q) : action'[t] = action[t]
  BY DEF PendingOf, RowsOf
<1>3. PendingOf(q) # {} => (CHOOSE s \in PendingOf(q) : TRUE) \in PendingOf(q)
  OBVIOUS
<1> QED
  BY <1>1, <1>2, <1>3 DEF StageOf, AtOf

LEMMA RowsImplementRun ==
  ASSUME TypeOK, RowsInOrder, RowsMove
  PROVE  [Run!Next]_(Run!vars)
<1>t. /\ status \in [Steps -> {"absent", "pending"} \cup Ended]
      /\ action \in [Steps -> Actions \cup {NoAction}]
  BY DEF TypeOK
<1>1. CASE NoRowMoves
  <2>1. \A q \in Runs : StageOf(q)' = StageOf(q) /\ AtOf(q)' = AtOf(q)
    BY <1>1, OthersStay DEF NoRowMoves
  <2> QED
    BY <1>1, <2>1 DEF NoRowMoves, Run!vars, StageOfRuns, AtOfRuns
<1>2. CASE EditsRows
  <2>1. PICK S \in SUBSET Steps :
          /\ \A s \in S : status[s] = "pending"
          /\ active' => S = {}
          /\ status' = [s \in Steps |-> IF s \in S THEN "disabled" ELSE status[s]]
    BY <1>2 DEF EditsRows
  <2>2. active' \in BOOLEAN /\ path' \in Paths /\ action' = action
    BY <1>2 DEF EditsRows
  <2> DEFINE gone == {r \in Runs : PendingOf(r) \cap S # {}}
  <2>3. ASSUME NEW r \in gone
        PROVE  StageOf(r) = "on" /\ StageOf(r)' = "over" /\ AtOf(r)' = NoAction
    <3>1. PICK s \in PendingOf(r) : s \in S
      OBVIOUS
    <3>2. PendingOf(r) = {s}
      BY <3>1, OnePending
    <3>3. RowsOf(r)' = RowsOf(r) /\ s \in RowsOf(r)
      BY <2>1, <3>1, <1>t DEF RowsOf, PendingOf
    <3>4. PendingOf(r)' = {}
      BY <2>1, <3>1, <3>2, <3>3 DEF PendingOf, RowsOf
    <3> QED
      BY <3>2, <3>3, <3>4 DEF StageOf, AtOf
  <2>4. ASSUME NEW r \in Runs \ gone
        PROVE  StageOf(r)' = StageOf(r) /\ AtOf(r)' = AtOf(r)
    <3>1. \A t \in Steps : t[1] = r => t \notin S
      BY <2>1 DEF PendingOf, RowsOf
    <3> QED
      BY <2>1, <2>2, <3>1, OthersStay
  <2>5. gone \in SUBSET {r \in Runs : StageOfRuns[r] = "on"} /\ (active' => gone = {})
    BY <2>1, <2>3 DEF StageOfRuns
  <2>6. /\ StageOfRuns' = [r \in Runs |-> IF r \in gone THEN "over" ELSE StageOfRuns[r]]
        /\ AtOfRuns' = [r \in Runs |-> IF r \in gone THEN NoAction ELSE AtOfRuns[r]]
    BY <2>3, <2>4 DEF StageOfRuns, AtOfRuns
  <2> HIDE DEF gone
  <2>7. Run!Edit
    BY <2>2, <2>5, <2>6 DEF Run!Edit
  <2> QED
    BY <2>7 DEF Run!Next
<1>3. ASSUME NEW s \in Steps, OneRowEnds(s) PROVE [Run!Next]_(Run!vars)
  <2>1. PICK to \in Ended : status[s] = "pending" /\ status' = [status EXCEPT ![s] = to]
    BY <1>3 DEF OneRowEnds
  <2>2. s[1] \in Runs /\ UNCHANGED <<action, active, path>>
    BY <1>3 DEF OneRowEnds, Steps
  <2>3. PendingOf(s[1]) = {s}
    BY <2>1, <2>2, OnePending DEF PendingOf, RowsOf
  <2>4. RowsOf(s[1])' = RowsOf(s[1]) /\ s \in RowsOf(s[1])
    BY <1>t, <2>1 DEF RowsOf, Ended
  <2>5. PendingOf(s[1])' = {}
    BY <1>t, <2>1, <2>3, <2>4 DEF PendingOf, Ended
  <2>6. \A q \in Runs \ {s[1]} : StageOf(q)' = StageOf(q) /\ AtOf(q)' = AtOf(q)
    BY <1>t, <2>1, <2>2, OthersStay
  <2>7. StageOf(s[1])' = "over" /\ AtOf(s[1])' = NoAction
    BY <2>4, <2>5 DEF StageOf, AtOf
  <2>8. StageOfRuns[s[1]] = "on"
    BY <2>2, <2>3, StandsAt DEF StageOfRuns
  <2>9. Run!End(s[1])
    BY <2>2, <2>6, <2>7, <2>8, OneMoves DEF Run!End
  <2> QED
    BY <2>2, <2>9 DEF Run!Next
<1>4. ASSUME NEW s \in Steps, RowFollows(s) PROVE [Run!Next]_(Run!vars)
  <2> DEFINE done == [status EXCEPT ![s] = "finished"]
  <2>1. PICK a \in Onward(s) : status[s] = "pending" /\ AddRow(s[1], a, done)
    BY <1>4 DEF RowFollows
  <2>2. done \in [Steps -> {"absent", "pending"} \cup Ended] /\ UNCHANGED <<active, path>>
    BY <1>4, <1>t DEF Ended, RowFollows
  <2>3. s[1] \in Runs
    BY DEF Steps
  <2>4. PICK k \in Nat : UpTo(s[1], k)
    BY <2>3 DEF RowsInOrder
  <2> DEFINE t == <<s[1], k + 1>>
  <2>5. /\ t \in Steps
        /\ status' = [done EXCEPT ![t] = "pending"]
        /\ action' = [action EXCEPT ![t] = a]
    <3> HIDE DEF done
    <3> QED
      BY <2>1, <2>2, <2>3, <2>4, AddRowMeans
  <2>6. s[2] = k /\ t # s /\ t[1] = s[1]
    BY <2>1, <2>4, PendingIsLast
  <2>7. PendingOf(s[1]) = {s}
    BY <2>1, <2>3, OnePending DEF PendingOf, RowsOf
  <2> HIDE DEF t
  <2>8. PendingOf(s[1])' = {t}
    BY <1>t, <2>5, <2>6, <2>7 DEF PendingOf, RowsOf
  <2>9. \A q \in Runs \ {s[1]} : StageOf(q)' = StageOf(q) /\ AtOf(q)' = AtOf(q)
    BY <1>t, <2>5, <2>6, OthersStay
  <2>10. StageOfRuns[s[1]] = "on" /\ AtOfRuns[s[1]] = action[s]
    BY <2>3, <2>7, StandsAt DEF StageOfRuns, AtOfRuns
  <2>11. StageOf(s[1])' = "on" /\ AtOf(s[1])' = a
    BY <1>t, <2>5, <2>8, StandsAtNext
  <2>12. active /\ \E i \in 1..(Len(path) - 1) : path[i] = action[s] /\ a = path[i + 1]
    <3>1. path \in Seq(Actions)
      BY AutomationAssumption DEF TypeOK, LinearPath
    <3>2. active /\ a \in NextActions(s)
      BY <2>1 DEF Onward
    <3>3. PICK i \in 2..Len(path) : path[i - 1] = action[s] /\ a = path[i]
      BY <3>2 DEF NextActions
    <3>4. i - 1 \in 1..(Len(path) - 1) /\ (i - 1) + 1 = i
      BY <3>1, <3>3
    <3> QED
      BY <3>2, <3>3, <3>4
  <2>13. Run!GoOn(s[1])
    BY <2>2, <2>3, <2>9, <2>10, <2>11, <2>12, OneMoves DEF Run!GoOn
  <2> QED
    BY <2>3, <2>13 DEF Run!Next
<1>5. ASSUME NEW r \in Runs, RunBegins(r) PROVE [Run!Next]_(Run!vars)
  <2>1. PICK k \in Nat : UpTo(r, k)
    BY DEF RowsInOrder
  <2> DEFINE t == <<r, k + 1>>
  <2>2. /\ t \in Steps
        /\ status' = [status EXCEPT ![t] = "pending"]
        /\ action' = [action EXCEPT ![t] = FirstAction]
    BY <1>t, <1>5, <2>1, AddRowMeans DEF RunBegins
  <2>3. t[1] = r /\ RowsOf(r) = {} /\ PendingOf(r) = {} /\ active /\ UNCHANGED <<active, path>>
    BY <1>5 DEF RunBegins, PendingOf
  <2> HIDE DEF t
  <2>4. PendingOf(r)' = {t}
    BY <1>t, <2>2, <2>3 DEF PendingOf, RowsOf
  <2>5. \A q \in Runs \ {r} : StageOf(q)' = StageOf(q) /\ AtOf(q)' = AtOf(q)
    BY <1>t, <2>2, <2>3, OthersStay
  <2>6. StageOf(r)' = "on" /\ AtOf(r)' = path[1]
    BY <1>t, <2>2, <2>4, StandsAtNext DEF FirstAction
  <2>7. StageOfRuns[r] = "none"
    BY <2>3 DEF StageOfRuns, StageOf
  <2>8. Run!Begin(r)
    BY <2>3, <2>5, <2>6, <2>7, OneMoves DEF Run!Begin
  <2> QED
    BY <2>8 DEF Run!Next
<1> QED
  BY <1>1, <1>2, <1>3, <1>4, <1>5 DEF RowsMove

\* However many polls, retries, takeovers and edits: each run goes through the
\* automation as AutomationRun says.
THEOREM StepsImplementRun == Spec => ImplementsAutomationRun
<1>1. Init => Run!Init
  <2> SUFFICES ASSUME Init PROVE Run!Init
    OBVIOUS
  <2>1. \A r \in Runs : RowsOf(r) = {} /\ PendingOf(r) = {}
    BY DEF Init, RowsOf, PendingOf
  <2> QED
    BY <2>1 DEF Init, Run!Init, StageOfRuns, AtOfRuns, StageOf, AtOf
<1>2. Init => TypeOK /\ RowsInOrder
  BY InitTypes, InitOrder
<1>3. TypeOK /\ RowsInOrder /\ [Next]_vars => (TypeOK /\ RowsInOrder)'
  BY StepTypes, RowSteps, StepOrder
<1>4. TypeOK /\ RowsInOrder /\ [Next]_vars => [Run!Next]_(Run!vars)
  BY RowSteps, RowsImplementRun
<1> QED
  BY <1>1, <1>2, <1>3, <1>4, PTL DEF Spec, ImplementsAutomationRun, Run!Spec

=============================================================================
