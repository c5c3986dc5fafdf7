------------------------- MODULE TenderNotify_proofs -------------------------
(***************************************************************************)
(* Theorems about TenderNotify, for every number of members, alerts,       *)
(* tenders, requests, daily runs, days and faults.                         *)
(***************************************************************************)
EXTENDS TenderNotify, FiniteSetTheorems, TLAPS

\* What a request or run has in its hands: at most one channel, of a message.
OneKey(j) ==
  /\ \A c, d \in j.sending : c = d
  /\ j.now = {} => j.sending = {}

InHand(j) == {KeyOf(i, c) : i \in j.now, c \in j.sending}
LoggedKeys == {e.key : e \in log}

\* A new line of the log adds its key to the keys logged.
LEMMA KeyEntered ==
  ASSUME NEW k, NEW d, NEW t, log' = log \cup {[key |-> k, day |-> d, at |-> t]}
  PROVE  LoggedKeys' = LoggedKeys \cup {k}
<1> DEFINE e == [key |-> k, day |-> d, at |-> t]
<1>1. e.key = k /\ log' = log \cup {e}
  OBVIOUS
<1>2. \A x : x \in log' <=> x \in log \/ x = e
  BY <1>1
<1> HIDE DEF e
<1>3. \A y : y \in LoggedKeys' <=> \E x \in log' : x.key = y
  BY DEF LoggedKeys
<1>4. \A y : y \in LoggedKeys <=> \E x \in log : x.key = y
  BY DEF LoggedKeys
<1>5. \A y : y \in LoggedKeys' <=> y \in LoggedKeys \/ y = k
  BY <1>1, <1>2, <1>3, <1>4
<1> QED
  BY <1>5

\* What is left behind by the dead stays in the log and in nobody's hands.
OrphansApart ==
  /\ history.orphans \subseteq LoggedKeys
  /\ history.orphans \cap InFlight = {}

OneKeyEach == \A p \in Procs : OneKey(job[p])

\* LogTellsSends is not inductive: a row that is taken back must be that of
\* its sender and not one left by another.
LogInv == OneKeyEach /\ OrphansApart /\ LogTellsSends

-----------------------------------------------------------------------------
(* Types.                                                                  *)

\* What the messages are built from gives messages, and keys of the log.
LEMMA ItemFacts ==
  ASSUME TypeOK
  PROVE  /\ \A M \in SUBSET Members, kind \in {"new", "reminder"}, T \in SUBSET Tenders :
              ItemsOf(M, kind, T) \subseteq Items
         /\ \A m \in Members : DigestItems(m) \subseteq Items /\ CatchUpItems(m) \subseteq Items
         /\ \A i \in Items, c \in Channels : KeyOf(i, c) \in Keys
         /\ \A S : First(S) \in Channels
<1>1. ASSUME NEW M \in SUBSET Members, NEW kind \in {"new", "reminder"},
             NEW T \in SUBSET Tenders, NEW x \in ItemsOf(M, kind, T)
      PROVE  x \in Items
  <2>1. PICK a \in AlertsOf(M) \X T :
          x = [to |-> a[1][1], subject |-> <<kind, a[2]>>, about |-> {a[2]}, by |-> a[1][2]]
    BY <1>1 DEF ItemsOf
  <2>2. PICK m \in M : a[1] \in {m} \X Alerts[m]
    BY <2>1 DEF AlertsOf
  <2>3. a[1][1] \in Members /\ a[1][2] \in SUBSET Channels /\ a[2] \in Tenders
    BY <2>1, <2>2, TenderAssumption
  <2>4. <<kind, a[2]>> \in Subjects
    BY <2>3 DEF Subjects
  <2> QED
    BY <2>1, <2>3, <2>4 DEF Items
<1>2. ASSUME NEW m \in Members PROVE DigestItems(m) \subseteq Items
  <2>1. UNION Alerts[m] \subseteq Channels
    BY TenderAssumption
  <2>2. <<"digest", time.day>> \in Subjects
    BY DEF TypeOK, Subjects, Days
  <2>3. \A d : PublishedSince(d) \subseteq Tenders
    BY DEF PublishedSince
  <2> QED
    BY <2>1, <2>2, <2>3 DEF DigestItems, Items
<1>3. ASSUME NEW m \in Members PROVE CatchUpItems(m) \subseteq Items
  <2>1. PublishedSince(time.window) \subseteq Tenders
    BY DEF PublishedSince
  <2> QED
    BY <1>1, <2>1 DEF CatchUpItems
<1>4. ASSUME NEW i \in Items, NEW c \in Channels PROVE KeyOf(i, c) \in Keys
  BY DEF KeyOf, Items, Keys
<1>5. \A S : First(S) \in Channels
  BY DEF First, Channels
<1> QED
  BY <1>1, <1>2, <1>3, <1>4, <1>5

LEMMA IdleType == Idle \in Jobs
BY DEF Idle, Jobs

\* The request or run p goes on as j: what its step owes to the types.
Goes(p, j) ==
  /\ job' = [job EXCEPT ![p] = j]
  /\ j \in Jobs
  /\ \A i, k \in j.now : i = k

LEMMA GoesKeepsTypes ==
  ASSUME TypeOK, NEW p \in Procs, NEW j, Goes(p, j)
  PROVE  /\ job' \in [Procs -> Jobs]
         /\ \A q \in Procs : \A i, k \in job'[q].now : i = k
         /\ \A q \in Procs : job'[q] = IF q = p THEN j ELSE job[q]
<1>1. job \in [Procs -> Jobs]
  BY DEF TypeOK
<1>2. job' \in [Procs -> Jobs]
  BY <1>1 DEF Goes
<1>3. \A q \in Procs : job'[q] = IF q = p THEN j ELSE job[q]
  BY <1>1 DEF Goes
<1> QED
  BY <1>2, <1>3 DEF Goes, TypeOK

LEMMA RestFacts ==
  ASSUME NEW j \in Jobs, \A i, k \in j.now : i = k
  PROVE  /\ Rest(j) \in Jobs
         /\ Rest(j).now = j.now
         /\ Rest(j).sending \in {{}, j.sending}
         /\ j.now # {} => Rest(j) = j
BY IdleType DEF Rest, Idle

LEMMA OnwardStep ==
  ASSUME TypeOK, NEW p \in Procs, Onward(p)
  PROVE  \E j : Goes(p, j) /\ j.sending = {}
<1> DEFINE left == job[p].left \ {First(job[p].left)}
           next == [job[p] EXCEPT !.left = left, !.sending = {},
                      !.now = IF left = {} THEN {} ELSE @]
<1>1. job[p] \in Jobs /\ \A i, k \in job[p].now : i = k
  BY DEF TypeOK
<1>2. next \in Jobs /\ next.sending = {} /\ \A i, k \in next.now : i = k
  BY <1>1 DEF Jobs
<1>3. Rest(next) \in Jobs /\ Rest(next).sending = {}
      /\ \A i, k \in Rest(next).now : i = k
  <2> HIDE DEF next
  <2> QED
    BY <1>2, RestFacts
<1>4. job' = [job EXCEPT ![p] = Rest(next)]
  BY DEF Onward
<1> QED
  BY <1>3, <1>4 DEF Goes

\* Beginning a request or a run.
LEMMA BeginStep ==
  ASSUME TypeOK, NEW p \in Procs, NEW j \in Jobs, j.now = {}, Begin(p, j)
  PROVE  Goes(p, j)
BY DEF Begin, Goes

LEMMA PublishedStep ==
  ASSUME TypeOK, NEW p \in Procs, NEW t \in Tenders, Published(p, t)
  PROVE  \E j : Goes(p, j) /\ j.now = {} /\ j.sending = {}
<1> DEFINE items == ItemsOf(Members \ (digest \cup paused), "new", {t})
           j == [Idle EXCEPT !.op = "server", !.items = items]
<1>1. items \subseteq Items
  <2>1. Members \ (digest \cup paused) \in SUBSET Members /\ {t} \in SUBSET Tenders
    OBVIOUS
  <2> QED
    BY <2>1, ItemFacts
<1> HIDE DEF items
<1>2. j \in Jobs /\ j.now = {} /\ j.sending = {}
  BY <1>1, IdleType DEF Idle, Jobs
<1>3. Begin(p, j)
  BY DEF Published, items
<1> QED
  BY <1>2, <1>3, BeginStep

LEMMA DailyRunType ==
  ASSUME TypeOK, NEW timer \in BOOLEAN
  PROVE  DailyRun(timer) \in Jobs /\ DailyRun(timer).now = {} /\ DailyRun(timer).sending = {}
<1> DEFINE rows == {<<m, EffectiveFreq(m \in digest)>> : m \in Members \ paused}
<1>1. rows \subseteq Members \X {"instant", "daily"}
  BY DEF EffectiveFreq
<1> HIDE DEF rows
<1> DEFINE j == [Idle EXCEPT !.op = "daily", !.timer = timer, !.rows = rows]
<1>2. DailyRun(timer) = j
  BY DEF DailyRun, rows
<1>3. j.now = {} /\ j.sending = {}
  BY DEF Idle
<1>4. j \in Jobs
  BY <1>1 DEF Idle, Jobs
<1> QED
  BY <1>2, <1>3, <1>4

LEMMA VisitStep ==
  ASSUME TypeOK, NEW p \in Procs, Visit(p)
  PROVE  \E j : Goes(p, j) /\ j.now = {} /\ j.sending = job[p].sending
<1>1. job[p] \in Jobs /\ job[p].now = {}
  BY DEF TypeOK, Visit
<1>2. PICK r \in job[p].rows :
        job' = [job EXCEPT ![p].rows = @ \ {r}, ![p].who = r,
                  ![p].items = ItemsOf({r[1]}, "reminder", {t \in Closing : date[t] # 0})]
  BY DEF Visit
<1> DEFINE items == ItemsOf({r[1]}, "reminder", {t \in Closing : date[t] # 0})
           j == [job[p] EXCEPT !.rows = @ \ {r}, !.who = r, !.items = items]
<1>3. r \in Members \X {"instant", "daily"}
  BY <1>1 DEF Jobs
<1>4. items \subseteq Items
  <2>1. {r[1]} \in SUBSET Members /\ {t \in Closing : date[t] # 0} \in SUBSET Tenders
    BY <1>3, TenderAssumption
  <2> QED
    BY <2>1, ItemFacts
<1> HIDE DEF items
<1>5. j \in Jobs /\ j.now = {} /\ j.sending = job[p].sending
  BY <1>1, <1>3, <1>4 DEF Jobs
<1>6. job' = [job EXCEPT ![p] = j]
  BY <1>2 DEF items
<1> QED
  BY <1>5, <1>6 DEF Goes

LEMMA MatchStep ==
  ASSUME TypeOK, NEW p \in Procs, Match(p)
  PROVE  \E j : Goes(p, j) /\ j.now = {} /\ j.sending = job[p].sending
<1>1. job[p] \in Jobs /\ job[p].now = {} /\ job[p].who # <<>>
  BY DEF TypeOK, Match
<1> DEFINE m == job[p].who[1]
           found == IF job[p].who[2] = "daily" THEN DigestItems(m) ELSE CatchUpItems(m)
           j == [job[p] EXCEPT !.who = <<>>, !.items = found]
<1>2. found \subseteq Items
  <2>1. m \in Members
    BY <1>1 DEF Jobs
  <2> QED
    BY <2>1, ItemFacts
<1>3. job' = [job EXCEPT ![p] = j]
  BY DEF Match
<1> HIDE DEF found
<1>4. j \in Jobs /\ j.now = {} /\ j.sending = job[p].sending
  BY <1>1, <1>2 DEF Jobs
<1> QED
  BY <1>3, <1>4 DEF Goes

LEMMA DeliverStep ==
  ASSUME TypeOK, NEW p \in Procs, Deliver(p)
  PROVE  /\ job[p].now = {}
         /\ \E j : Goes(p, j) /\ j.sending \in {{}, job[p].sending}
<1>1. job[p] \in Jobs
  BY DEF TypeOK
<1>2. PICK i \in job[p].items :
        /\ job[p].now = {}
        /\ \/ job' = [job EXCEPT ![p] = Rest(
                [job[p] EXCEPT !.items = @ \ {i}, !.left = i.by,
                               !.now = IF i.by = {} THEN {} ELSE {i}])]
           \/ job' = [job EXCEPT ![p] = Rest([job[p] EXCEPT !.items = @ \ {i}])]
  BY DEF Deliver
<1> DEFINE tried == [job[p] EXCEPT !.items = @ \ {i}, !.left = i.by,
                       !.now = IF i.by = {} THEN {} ELSE {i}]
           dropped == [job[p] EXCEPT !.items = @ \ {i}]
<1>3. i \in Items /\ i.by \in SUBSET Channels
  BY <1>1 DEF Jobs, Items
<1>4. tried \in Jobs /\ tried.sending = job[p].sending /\ \A a, b \in tried.now : a = b
  BY <1>1, <1>3 DEF Jobs
<1>5. dropped \in Jobs /\ dropped.sending = job[p].sending /\ \A a, b \in dropped.now : a = b
  BY <1>1, <1>2 DEF Jobs
<1>6. job' = [job EXCEPT ![p] = Rest(tried)] \/ job' = [job EXCEPT ![p] = Rest(dropped)]
  BY <1>2, Zenon
<1> HIDE DEF tried, dropped
<1>7. Goes(p, Rest(tried)) \/ Goes(p, Rest(dropped))
  BY <1>4, <1>5, <1>6, RestFacts DEF Goes
<1>8. Rest(tried).sending \in {{}, job[p].sending} /\ Rest(dropped).sending \in {{}, job[p].sending}
  BY <1>4, <1>5, RestFacts
<1> QED
  BY <1>2, <1>7, <1>8

\* What markSent does to the log and to the hands of its sender.
LEMMA MarkStep ==
  ASSUME TypeOK, NEW p \in Procs, Mark(p)
  PROVE  \E i, c, j :
           /\ i \in job[p].now /\ c \in Channels
           /\ KeyOf(i, c) \in Keys /\ job[p].sending = {} /\ Goes(p, j)
           /\ \/ /\ ~Logged(KeyOf(i, c))
                 /\ log' = log \cup {[key |-> KeyOf(i, c), day |-> time.day, at |-> time.now]}
                 /\ j.sending = {c} /\ j.now = job[p].now
                 /\ history' = history
              \/ j.sending = {} /\ log' = log /\ Excuse(IF KindOf(i) = "digest" THEN {i.to} \X i.about ELSE {})
<1>1. PICK i \in job[p].now : 
        LET c == First(job[p].left)
            k == KeyOf(i, c)
        IN  /\ job[p].sending = {}
            /\ \/ /\ ~Logged(k)
                  /\ log' = log \cup {[key |-> k, day |-> time.day, at |-> time.now]}
                  /\ job' = [job EXCEPT ![p].sending = {c}]
                  /\ UNCHANGED history
               \/ /\ Logged(k)
                  /\ Onward(p)
                  /\ Excuse(IF KindOf(i) = "digest" THEN {i.to} \X i.about ELSE {})
                  /\ UNCHANGED log
  BY DEF Mark
<1> DEFINE c == First(job[p].left)
           j == [job[p] EXCEPT !.sending = {c}]
<1>2. job[p] \in Jobs /\ \A a, b \in job[p].now : a = b
  BY DEF TypeOK
<1>3. i \in Items /\ c \in Channels /\ KeyOf(i, c) \in Keys
  BY <1>2, ItemFacts DEF Jobs
<1>4. j \in Jobs /\ j.now = job[p].now /\ j.sending = {c}
  BY <1>2, <1>3 DEF Jobs
<1>5. CASE job' = [job EXCEPT ![p].sending = {c}] /\ ~Logged(KeyOf(i, c))
           /\ log' = log \cup {[key |-> KeyOf(i, c), day |-> time.day, at |-> time.now]}
           /\ UNCHANGED history
  <2>1. Goes(p, j)
    BY <1>2, <1>4, <1>5 DEF Goes
  <2> HIDE DEF c, j
  <2> QED
    BY <1>1, <1>3, <1>4, <1>5, <2>1
<1>6. CASE /\ Onward(p) /\ log' = log
           /\ Excuse(IF KindOf(i) = "digest" THEN {i.to} \X i.about ELSE {})
  <2>1. PICK h : Goes(p, h) /\ h.sending = {}
    BY <1>6, OnwardStep
  <2> HIDE DEF c, j
  <2> QED
    BY <1>1, <1>3, <1>6, <2>1
<1> QED
  BY <1>1, <1>5, <1>6

\* One message leaves the hands of p: it was sent, failed, or both.
LEMMA LandStep ==
  ASSUME TypeOK, NEW p \in Procs, Sent(p) \/ Fails(p) \/ AnswerLost(p)
  PROVE  \E i, c, j :
           /\ i \in job[p].now /\ c \in job[p].sending
           /\ i \in Items /\ c \in Channels /\ KeyOf(i, c) \in Keys
           /\ Goes(p, j) /\ j.sending = {}
           /\ \/ /\ mails' = [mails EXCEPT ![KeyOf(i, c)].sent = @ + 1]
                 /\ log' = log
              \/ mails' = mails /\ log' = Unmarked(KeyOf(i, c))
              \/ /\ mails' = [mails EXCEPT ![KeyOf(i, c)] = [sent |-> @.sent + 1, lost |-> @.lost + 1]]
                 /\ log' = Unmarked(KeyOf(i, c))
<1>1. PICK i \in job[p].now, c \in job[p].sending :
        /\ Onward(p)
        /\ \/ /\ mails' = [mails EXCEPT ![KeyOf(i, c)].sent = @ + 1]
              /\ log' = log
           \/ mails' = mails /\ log' = Unmarked(KeyOf(i, c))
           \/ /\ mails' = [mails EXCEPT ![KeyOf(i, c)] = [sent |-> @.sent + 1, lost |-> @.lost + 1]]
              /\ log' = Unmarked(KeyOf(i, c))
  BY DEF Sent, Fails, AnswerLost
<1>2. PICK j : Goes(p, j) /\ j.sending = {}
  BY <1>1, OnwardStep
<1>3. i \in Items /\ c \in Channels
  BY DEF TypeOK, Jobs
<1>4. KeyOf(i, c) \in Keys
  BY <1>3, ItemFacts
<1> QED
  BY <1>1, <1>2, <1>3, <1>4

Histories == [switched : SUBSET Members, late : SUBSET Tenders, settled : Dates,
              excused : SUBSET (Members \X Tenders), orphans : SUBSET Keys]
Times == [now : Dates, day : Days, fired : BOOLEAN, window : Dates, last : Dates]

LEMMA ExcuseType ==
  ASSUME TypeOK, NEW pairs \in SUBSET (Members \X Tenders), Excuse(pairs)
  PROVE  history' \in Histories /\ history'.orphans = history.orphans
BY DEF Excuse, TypeOK, Histories

\* What is excused for a message is about its member and its tenders.
LEMMA ItemPairs ==
  ASSUME NEW i \in Items
  PROVE  {i.to} \X i.about \subseteq Members \X Tenders
BY DEF Items

LEMMA ReachedType ==
  ASSUME TypeOK, NEW i \in Items, NEW c \in Channels, Reached(i, c)
  PROVE  heard' \subseteq Members \X Tenders \X {"new", "digest"} \X Channels
<1> DEFINE new == {<<i.to, t, KindOf(i), c>> : t \in i.about}
<1>1. CASE KindOf(i) = "reminder"
  BY <1>1 DEF Reached, TypeOK
<1>2. CASE KindOf(i) # "reminder"
  <2>1. i.to \in Members /\ i.about \subseteq Tenders /\ KindOf(i) \in {"new", "digest"}
    BY <1>2 DEF Items, Subjects, KindOf
  <2>2. new \subseteq Members \X Tenders \X {"new", "digest"} \X Channels
    BY <2>1
  <2> QED
    BY <1>2, <2>2 DEF Reached, TypeOK
<1> QED
  BY <1>1, <1>2

LEMMA InitTypes == Init => TypeOK
<1> SUFFICES ASSUME Init PROVE TypeOK
  OBVIOUS
<1>1. digest \subseteq Members /\ paused \subseteq Members /\ date \in [Tenders -> Dates]
  BY DEF Init, Dates
<1>2. time \in Times
  BY TenderAssumption DEF Init, Times, Dates, Days
<1>3. log = {} /\ mails \in [Keys -> [sent : Nat, lost : Nat]] /\ heard = {}
  BY DEF Init
<1>4. job \in [Procs -> Jobs] /\ \A p \in Procs : job[p].now = {}
  BY IdleType DEF Init, Idle
<1>5. history \in Histories
  BY DEF Init, Histories, Dates
<1>6. bounds \in [changes : 0..MaxChanges, faults : 0..MaxFaults]
  BY TenderAssumption DEF Init
<1> QED
  BY <1>1, <1>2, <1>3, <1>4, <1>5, <1>6 DEF TypeOK, Times, Histories

\* What the steps of p leave of the types to be shown.
LEMMA GoesTypes ==
  ASSUME TypeOK, NEW p \in Procs, NEW j, Goes(p, j),
         UNCHANGED <<digest, paused, date>>,
         time' \in Times, log' \subseteq Entries,
         \A e, f \in log' : e.key = f.key => e = f,
         mails' \in [Keys -> [sent : Nat, lost : Nat]],
         heard' \subseteq Members \X Tenders \X {"new", "digest"} \X Channels,
         history' \in Histories,
         bounds' \in [changes : 0..MaxChanges, faults : 0..MaxFaults]
  PROVE  TypeOK'
<1>1. job' \in [Procs -> Jobs] /\ \A q \in Procs : \A i, k \in job'[q].now : i = k
  BY GoesKeepsTypes
<1>2. digest' \subseteq Members /\ paused' \subseteq Members /\ date' \in [Tenders -> Dates]
  BY DEF TypeOK
<1> QED
  BY <1>1, <1>2 DEF TypeOK, Times, Histories

LEMMA FaultsType ==
  ASSUME TypeOK, Faults
  PROVE  bounds' \in [changes : 0..MaxChanges, faults : 0..MaxFaults]
BY TenderAssumption DEF TypeOK, Faults

LEMMA ChangesType ==
  ASSUME TypeOK, Changes
  PROVE  bounds' \in [changes : 0..MaxChanges, faults : 0..MaxFaults]
BY TenderAssumption DEF TypeOK, Changes

LEMMA StepTypes == TypeOK /\ [Next]_vars => TypeOK'
<1> SUFFICES ASSUME TypeOK, [Next]_vars PROVE TypeOK'
  OBVIOUS
<1>t. time \in Times /\ history \in Histories
  BY DEF TypeOK, Times, Histories
<1>1. CASE UNCHANGED vars
  BY <1>1 DEF vars, TypeOK
<1>2. ASSUME NEW t \in Tenders, Publish(t) PROVE TypeOK'
  <2>1. date' \in [Tenders -> Dates] /\ time' \in Times
    BY <1>2, <1>t DEF Publish, TypeOK, Times, Dates
  <2>2. history' \in Histories
    <3>1. Digesting \X {t} \subseteq Members \X Tenders
      BY DEF Digesting
    <3> QED
      BY <1>2, <1>t, <3>1 DEF Publish, Histories
  <2> QED
    BY <1>2, <2>1, <2>2 DEF Publish, TypeOK, Times, Histories
<1>3. ASSUME NEW m \in Members, Switch(m) PROVE TypeOK'
  <2>1. history' \in Histories /\ digest' \subseteq Members
    BY <1>3, <1>t DEF Switch, Histories, TypeOK
  <2> QED
    BY <1>3, <2>1, ChangesType DEF Switch, TypeOK, Histories
<1>4. ASSUME NEW m \in Members, Pause(m) PROVE TypeOK'
  BY <1>4, ChangesType DEF Pause, TypeOK
<1>5. ASSUME NextDay PROVE TypeOK'
  <2>1. time' \in Times
    <3>1. time.day \in 0..MaxDays /\ time.day < MaxDays /\ MaxDays \in Nat
      BY <1>5, <1>t, TenderAssumption DEF NextDay, Times, Days
    <3>2. time.day + 1 \in Days
      BY <3>1 DEF Days
    <3>3. time' = [time EXCEPT !.day = time.day + 1, !.fired = FALSE]
      BY <1>5 DEF NextDay
    <3> QED
      BY <1>t, <3>2, <3>3 DEF Times
  <2> QED
    BY <1>5, <2>1 DEF NextDay, TypeOK, Times
<1>6. ASSUME NEW p \in Procs, Work(p) PROVE TypeOK'
  <2>k. /\ log \subseteq Entries /\ \A e, f \in log : e.key = f.key => e = f
        /\ mails \in [Keys -> [sent : Nat, lost : Nat]]
        /\ heard \subseteq Members \X Tenders \X {"new", "digest"} \X Channels
        /\ bounds \in [changes : 0..MaxChanges, faults : 0..MaxFaults]
        /\ job[p] \in Jobs
    BY DEF TypeOK
  <2>1. ASSUME NEW t \in Tenders, Published(p, t) PROVE TypeOK'
    <3>1. PICK j : Goes(p, j)
      BY <2>1, PublishedStep
    <3>2. UNCHANGED <<digest, paused, date, time, log, mails, heard, history, bounds>>
      BY <2>1 DEF Published
    <3> QED
      BY <1>t, <2>k, <3>1, <3>2, GoesTypes
  <2>2. CASE TimerFires(p)
    <3>1. Goes(p, DailyRun(TRUE))
      BY <2>2, DailyRunType, BeginStep DEF TimerFires
    <3>2. time' \in Times
      BY <2>2, <1>t DEF TimerFires, Times
    <3>3. history' \in Histories
      <4>1. paused \X PublishedBy(time.now) \subseteq Members \X Tenders
        BY DEF TypeOK, PublishedBy
      <4> QED
        BY <2>2, <4>1, ExcuseType DEF TimerFires
    <3>4. UNCHANGED <<digest, paused, date, log, mails, heard, bounds>>
      BY <2>2 DEF TimerFires
    <3> QED
      BY <2>k, <3>1, <3>2, <3>3, <3>4, GoesTypes
  <2>3. CASE RunAgain(p)
    <3>1. Goes(p, DailyRun(FALSE))
      BY <2>3, DailyRunType, BeginStep DEF RunAgain
    <3>2. UNCHANGED <<digest, paused, date, time, log, mails, heard, history, bounds>>
      BY <2>3 DEF RunAgain
    <3> QED
      BY <1>t, <2>k, <3>1, <3>2, GoesTypes
  <2>4. CASE Visit(p) \/ Match(p)
    <3>1. PICK j : Goes(p, j)
      BY <2>4, VisitStep, MatchStep
    <3>2. UNCHANGED <<digest, paused, date, time, log, mails, heard, history, bounds>>
      BY <2>4 DEF Visit, Match
    <3> QED
      BY <1>t, <2>k, <3>1, <3>2, GoesTypes
  <2>5. CASE Ends(p)
    <3>1. Goes(p, Idle)
      BY <2>5, IdleType DEF Ends, Goes, Idle
    <3>2. history' \in Histories
      BY <2>5, <1>t DEF Ends, Histories, Times
    <3>3. UNCHANGED <<digest, paused, date, time, log, mails, heard, bounds>>
      BY <2>5 DEF Ends
    <3> QED
      BY <1>t, <2>k, <3>1, <3>2, <3>3, GoesTypes
  <2>6. CASE Deliver(p)
    <3>1. PICK j : Goes(p, j)
      BY <2>6, DeliverStep
    <3>2. history' \in Histories
      <4>1. ASSUME NEW i \in job[p].items
            PROVE  Dropped(p, i) \subseteq Members \X Tenders
        BY <2>k, ItemPairs DEF Dropped, Jobs, Items
      <4> QED
        BY <2>6, <1>t, <4>1, ExcuseType DEF Deliver
    <3>3. UNCHANGED <<digest, paused, date, time, log, mails, heard, bounds>>
      BY <2>6 DEF Deliver
    <3> QED
      BY <1>t, <2>k, <3>1, <3>2, <3>3, GoesTypes
  <2>7. CASE Mark(p)
    <3>1. PICK i, c, j :
           /\ i \in job[p].now /\ c \in Channels
           /\ KeyOf(i, c) \in Keys /\ Goes(p, j)
           /\ \/ /\ ~Logged(KeyOf(i, c))
                 /\ log' = log \cup {[key |-> KeyOf(i, c), day |-> time.day, at |-> time.now]}
                 /\ history' = history
              \/ log' = log /\ Excuse(IF KindOf(i) = "digest" THEN {i.to} \X i.about ELSE {})
      BY <2>7, MarkStep
    <3>2. history' \in Histories
      <4>1. {i.to} \X i.about \subseteq Members \X Tenders
        BY <2>k, <3>1, ItemPairs DEF Jobs
      <4> QED
        BY <1>t, <3>1, <4>1, ExcuseType
    <3>3. log' \subseteq Entries /\ \A e, f \in log' : e.key = f.key => e = f
      <4>1. [key |-> KeyOf(i, c), day |-> time.day, at |-> time.now] \in Entries
        BY <1>t, <3>1 DEF Entries, Times
      <4> QED
        BY <2>k, <3>1, <4>1 DEF Logged
    <3>4. UNCHANGED <<digest, paused, date, time, mails, heard, bounds>>
      BY <2>7 DEF Mark
    <3> QED
      BY <1>t, <2>k, <3>1, <3>2, <3>3, <3>4, GoesTypes
  <2>8. CASE Sent(p) \/ Fails(p) \/ AnswerLost(p)
    <3>1. PICK i, c, j :
           /\ i \in job[p].now /\ c \in job[p].sending
           /\ i \in Items /\ c \in Channels /\ KeyOf(i, c) \in Keys
           /\ Goes(p, j)
           /\ \/ /\ mails' = [mails EXCEPT ![KeyOf(i, c)].sent = @ + 1]
                 /\ log' = log
              \/ mails' = mails /\ log' = Unmarked(KeyOf(i, c))
              \/ /\ mails' = [mails EXCEPT ![KeyOf(i, c)] = [sent |-> @.sent + 1, lost |-> @.lost + 1]]
                 /\ log' = Unmarked(KeyOf(i, c))
      BY <2>8, LandStep
    <3>2. log' \subseteq log
      BY <3>1 DEF Unmarked
    <3>3. log' \subseteq Entries /\ \A e, f \in log' : e.key = f.key => e = f
      BY <2>k, <3>2
    <3>4. mails' \in [Keys -> [sent : Nat, lost : Nat]]
      BY <2>k, <3>1
    <3>5. heard' \subseteq Members \X Tenders \X {"new", "digest"} \X Channels
      <4>1. ASSUME NEW a \in job[p].now, NEW d \in job[p].sending, Reached(a, d)
            PROVE  heard' \subseteq Members \X Tenders \X {"new", "digest"} \X Channels
        BY <2>k, <4>1, ReachedType DEF Jobs
      <4> QED
        BY <2>8, <2>k, <4>1 DEF Sent, Fails, AnswerLost
    <3>6. history' \in Histories
      <4>1. ASSUME NEW a \in job[p].now
            PROVE  {a.to} \X (IF KindOf(a) = "digest" THEN a.about
                              ELSE a.about \cap PublishedBy(time.last)) \in SUBSET (Members \X Tenders)
        BY <2>k DEF Jobs, Items
      <4> QED
        BY <2>8, <1>t, <4>1, ExcuseType DEF Sent, Fails, AnswerLost
    <3>7. bounds' \in [changes : 0..MaxChanges, faults : 0..MaxFaults]
      BY <2>8, <2>k, FaultsType DEF Sent, Fails, AnswerLost
    <3>8. UNCHANGED <<digest, paused, date, time>>
      BY <2>8 DEF Sent, Fails, AnswerLost
    <3> QED
      BY <1>t, <3>1, <3>3, <3>4, <3>5, <3>6, <3>7, <3>8, GoesTypes
  <2>9. CASE Dies(p)
    <3>1. Goes(p, Idle)
      BY <2>9, IdleType DEF Dies, Goes, Idle
    <3>2. history' \in Histories
      <4>1. Sending(p) \subseteq Keys
        BY <2>k, ItemFacts DEF Sending, Jobs
      <4> DEFINE run == IF job[p].op = "daily" THEN Members \X PublishedBy(time.last) ELSE {}
                 hand == UNION {{i.to} \X i.about :
                           i \in {j \in job[p].now : job[p].sending # {} \/ KindOf(j) = "digest"}}
      <4>2. run \subseteq Members \X Tenders
        BY DEF PublishedBy
      <4>3. hand \subseteq Members \X Tenders
        <5>1. ASSUME NEW i \in job[p].now PROVE {i.to} \X i.about \subseteq Members \X Tenders
          BY <2>k, ItemPairs DEF Jobs
        <5> QED
          BY <5>1
      <4>4. history' = [history EXCEPT !.orphans = @ \cup Sending(p),
                                       !.excused = @ \cup run \cup hand]
        BY <2>9 DEF Dies
      <4> HIDE DEF run, hand
      <4> QED
        BY <1>t, <4>1, <4>2, <4>3, <4>4 DEF Histories
    <3>3. bounds' \in [changes : 0..MaxChanges, faults : 0..MaxFaults]
      BY <2>9, FaultsType DEF Dies
    <3>4. UNCHANGED <<digest, paused, date, time, log, mails, heard>>
      BY <2>9 DEF Dies
    <3> QED
      BY <1>t, <2>k, <3>1, <3>2, <3>3, <3>4, GoesTypes
  <2> QED
    BY <1>6, <2>1, <2>2, <2>3, <2>4, <2>5, <2>6, <2>7, <2>8, <2>9 DEF Work
<1> QED
  BY <1>1, <1>2, <1>3, <1>4, <1>5, <1>6 DEF Next

\* Every variable keeps its type.
THEOREM TypeCorrect == Spec => []TypeOK
<1>1. Init => TypeOK
  BY InitTypes
<1>2. TypeOK /\ [Next]_vars => TypeOK'
  BY StepTypes
<1> QED
  BY <1>1, <1>2, PTL DEF Spec

-----------------------------------------------------------------------------
(* The log.                                                                *)

LEMMA HandFacts ==
  /\ \A p \in Procs : Sending(p) = InHand(job[p])
  /\ \A k : Logged(k) <=> k \in LoggedKeys
  /\ \A j : j.sending = {} => InHand(j) = {} /\ OneKey(j)
<1>1. \A p \in Procs : Sending(p) = InHand(job[p])
  BY DEF Sending, InHand
<1>2. \A k : Logged(k) <=> k \in LoggedKeys
  BY DEF Logged, LoggedKeys
<1>3. \A j : j.sending = {} => InHand(j) = {} /\ OneKey(j)
  BY DEF InHand, OneKey
<1> QED
  BY <1>1, <1>2, <1>3

LEMMA HandsNext ==
  ASSUME TypeOK, NEW p \in Procs, NEW j, Goes(p, j)
  PROVE  \A q \in Procs : Sending(q)' = IF q = p THEN InHand(j) ELSE Sending(q)
BY GoesKeepsTypes DEF Sending, InHand

\* LogInv in terms of what is in each hand.
LogMeaning ==
  /\ \A p \in Procs : OneKey(job[p])
  /\ history.orphans \subseteq LoggedKeys
  /\ \A p \in Procs : /\ Sending(p) \subseteq LoggedKeys
                      /\ Sending(p) \cap history.orphans = {}
  /\ \A p, q \in Procs : p # q => Sending(p) \cap Sending(q) = {}
  /\ \A k \in Keys : mails[k].sent = mails[k].lost +
       IF k \in LoggedKeys /\ (\A p \in Procs : k \notin Sending(p)) /\ k \notin history.orphans
       THEN 1 ELSE 0

LEMMA LogInvMeans == LogInv <=> LogMeaning
<1> DEFINE done == {e.key : e \in log} \ (InFlight \cup history.orphans)
<1>1. \A k : k \in done <=> /\ k \in LoggedKeys /\ \A p \in Procs : k \notin Sending(p)
                            /\ k \notin history.orphans
  BY DEF LoggedKeys, InFlight
<1>2. (\A k \in InFlight : Logged(k)) <=> \A p \in Procs : Sending(p) \subseteq LoggedKeys
  BY HandFacts DEF InFlight
<1>3. history.orphans \cap InFlight = {} <=>
        \A p \in Procs : Sending(p) \cap history.orphans = {}
  BY DEF InFlight
<1> QED
  BY <1>1, <1>2, <1>3 DEF LogMeaning, LogInv, OneKeyEach, OrphansApart, LogTellsSends

LEMMA LogInvMeansNext == LogInv' <=> LogMeaning'
BY LogInvMeans, PTL

\* Nothing is taken in hand and nothing put down.
LEMMA IdleHands ==
  ASSUME TypeOK, LogInv, log' = log, mails' = mails,
         history'.orphans = history.orphans,
         \/ job' = job
         \/ \E p \in Procs : \E j : Goes(p, j) /\ OneKey(j) /\ InHand(j) = InHand(job[p])
  PROVE  LogInv'
<1> USE LogInvMeans
<1>1. \A q \in Procs : Sending(q)' = Sending(q) /\ OneKey(job'[q])
  <2>1. CASE job' = job
    BY <2>1 DEF Sending, LogMeaning
  <2>2. ASSUME NEW p \in Procs, NEW j, Goes(p, j), OneKey(j), InHand(j) = InHand(job[p])
        PROVE  \A q \in Procs : Sending(q)' = Sending(q) /\ OneKey(job'[q])
    BY <2>2, HandFacts, HandsNext, GoesKeepsTypes DEF LogMeaning
  <2> QED
    BY <2>1, <2>2
<1>2. LoggedKeys' = LoggedKeys
  BY DEF LoggedKeys
<1> QED
  BY <1>1, <1>2, LogInvMeansNext DEF LogMeaning

\* A message that is not in the log is logged and taken in hand.
LEMMA TakenUp ==
  ASSUME TypeOK, LogInv, NEW p \in Procs, NEW j, Goes(p, j), OneKey(j),
         NEW k \in Keys, k \notin LoggedKeys, job[p].sending = {}, InHand(j) = {k},
         LoggedKeys' = LoggedKeys \cup {k}, mails' = mails, history' = history
  PROVE  LogInv'
<1> USE LogInvMeans
<1>1. \A q \in Procs : Sending(q)' = IF q = p THEN {k} ELSE Sending(q)
  BY HandsNext
<1>2. Sending(p) = {} /\ \A q \in Procs : k \notin Sending(q)
  BY HandFacts DEF LogMeaning
<1>3. k \notin history.orphans
  BY DEF LogMeaning
<1>4. \A q \in Procs : OneKey(job'[q])
  BY GoesKeepsTypes DEF LogMeaning
<1>5. \A q, r \in Procs : q # r => Sending(q)' \cap Sending(r)' = {}
  BY <1>1, <1>2 DEF LogMeaning
<1>6. \A q \in Procs : /\ Sending(q)' \subseteq LoggedKeys'
                       /\ Sending(q)' \cap history'.orphans = {}
  BY <1>1, <1>3 DEF LogMeaning
<1>7. \A h \in Keys :
        (h \in LoggedKeys' /\ (\A q \in Procs : h \notin Sending(q)') /\ h \notin history'.orphans)
        <=> (h \in LoggedKeys /\ (\A q \in Procs : h \notin Sending(q)) /\ h \notin history.orphans)
  BY <1>1, <1>2
<1>8. \A h \in Keys : mails'[h].sent = mails'[h].lost +
        IF h \in LoggedKeys' /\ (\A q \in Procs : h \notin Sending(q)') /\ h \notin history'.orphans
        THEN 1 ELSE 0
  BY <1>7 DEF LogMeaning
<1>9. history'.orphans \subseteq LoggedKeys'
  BY DEF LogMeaning
<1> QED
  BY <1>4, <1>5, <1>6, <1>8, <1>9, LogInvMeansNext DEF LogMeaning

\* The one message in hand is put down: sent and logged, or taken back.
LEMMA PutDown ==
  ASSUME TypeOK, LogInv, NEW p \in Procs, NEW j, Goes(p, j), j.sending = {},
         NEW k \in Keys, InHand(job[p]) = {k}, history'.orphans = history.orphans,
         \/ /\ LoggedKeys' = LoggedKeys
            /\ mails' = [mails EXCEPT ![k].sent = @ + 1]
         \/ LoggedKeys' = LoggedKeys \ {k} /\ mails' = mails
         \/ /\ LoggedKeys' = LoggedKeys \ {k}
            /\ mails' = [mails EXCEPT ![k] = [sent |-> @.sent + 1, lost |-> @.lost + 1]]
  PROVE  LogInv'
<1> USE LogInvMeans
<1>1. \A q \in Procs : Sending(q)' = IF q = p THEN {} ELSE Sending(q)
  BY HandsNext, HandFacts
<1>2. Sending(p) = {k} /\ k \in LoggedKeys /\ k \notin history.orphans
      /\ \A q \in Procs \ {p} : k \notin Sending(q)
  BY HandFacts DEF LogMeaning
<1>3. \A q \in Procs : OneKey(job'[q])
  BY HandFacts, GoesKeepsTypes DEF LogMeaning
<1>4. \A q, r \in Procs : q # r => Sending(q)' \cap Sending(r)' = {}
  BY <1>1 DEF LogMeaning
<1>5. \A q \in Procs : /\ Sending(q)' \subseteq LoggedKeys'
                       /\ Sending(q)' \cap history'.orphans = {}
  BY <1>1, <1>2 DEF LogMeaning
<1>6. history'.orphans \subseteq LoggedKeys'
  BY <1>2 DEF LogMeaning
<1>7. mails \in [Keys -> [sent : Nat, lost : Nat]]
  BY DEF TypeOK
<1>8. ASSUME NEW h \in Keys
      PROVE  mails'[h].sent = mails'[h].lost +
        IF h \in LoggedKeys' /\ (\A q \in Procs : h \notin Sending(q)') /\ h \notin history'.orphans
        THEN 1 ELSE 0
  <2>1. CASE h # k
    <3>1. mails'[h] = mails[h]
      BY <1>7, <2>1
    <3>2. (h \in LoggedKeys' /\ (\A q \in Procs : h \notin Sending(q)') /\ h \notin history'.orphans)
          <=> (h \in LoggedKeys /\ (\A q \in Procs : h \notin Sending(q)) /\ h \notin history.orphans)
      BY <1>1, <1>2, <2>1
    <3> QED
      BY <3>1, <3>2 DEF LogMeaning
  <2>2. CASE h = k
    <3>1. mails[k].sent = mails[k].lost /\ mails[k].sent \in Nat
      BY <1>2, <1>7 DEF LogMeaning
    <3>2. (\A q \in Procs : k \notin Sending(q)') /\ k \notin history'.orphans
      BY <1>1, <1>2
    <3>3. CASE LoggedKeys' = LoggedKeys /\ mails' = [mails EXCEPT ![k].sent = @ + 1]
      <4>1. mails'[k].sent = mails[k].sent + 1 /\ mails'[k].lost = mails[k].lost
        BY <1>7, <3>3
      <4> QED
        BY <1>2, <2>2, <3>1, <3>2, <3>3, <4>1
    <3>4. CASE LoggedKeys' = LoggedKeys \ {k} /\ mails' = mails
      BY <2>2, <3>1, <3>4
    <3>5. CASE LoggedKeys' = LoggedKeys \ {k}
               /\ mails' = [mails EXCEPT ![k] = [sent |-> @.sent + 1, lost |-> @.lost + 1]]
      <4>1. mails'[k].sent = mails[k].sent + 1 /\ mails'[k].lost = mails[k].lost + 1
        BY <1>7, <3>5
      <4> QED
        BY <2>2, <3>1, <3>5, <4>1
    <3> QED
      BY <3>3, <3>4, <3>5
  <2> QED
    BY <2>1, <2>2
<1> QED
  BY <1>3, <1>4, <1>5, <1>6, <1>8, LogInvMeansNext DEF LogMeaning

\* What a dead sender had in hand stays in the log as an orphan.
LEMMA LeftBehind ==
  ASSUME TypeOK, LogInv, NEW p \in Procs, Goes(p, Idle), log' = log, mails' = mails,
         history'.orphans = history.orphans \cup Sending(p)
  PROVE  LogInv'
<1> USE LogInvMeans
<1>1. Idle.sending = {}
  BY DEF Idle
<1>2. \A q \in Procs : Sending(q)' = IF q = p THEN {} ELSE Sending(q)
  BY <1>1, HandsNext, HandFacts
<1>3. \A q \in Procs : OneKey(job'[q])
  BY <1>1, HandFacts, GoesKeepsTypes DEF LogMeaning
<1>4. LoggedKeys' = LoggedKeys
  BY DEF LoggedKeys
<1>5. \A q, r \in Procs : q # r => Sending(q)' \cap Sending(r)' = {}
  BY <1>2 DEF LogMeaning
<1>6. \A q \in Procs : /\ Sending(q)' \subseteq LoggedKeys'
                       /\ Sending(q)' \cap history'.orphans = {}
  BY <1>2, <1>4 DEF LogMeaning
<1>7. history'.orphans \subseteq LoggedKeys'
  BY <1>4 DEF LogMeaning
<1>8. \A h \in Keys :
        (h \in LoggedKeys' /\ (\A q \in Procs : h \notin Sending(q)') /\ h \notin history'.orphans)
        <=> (h \in LoggedKeys /\ (\A q \in Procs : h \notin Sending(q)) /\ h \notin history.orphans)
  BY <1>2, <1>4
<1>9. \A h \in Keys : mails'[h].sent = mails'[h].lost +
        IF h \in LoggedKeys' /\ (\A q \in Procs : h \notin Sending(q)') /\ h \notin history'.orphans
        THEN 1 ELSE 0
  BY <1>8 DEF LogMeaning
<1> QED
  BY <1>3, <1>5, <1>6, <1>7, <1>9, LogInvMeansNext DEF LogMeaning

LEMMA InitLog == Init => LogInv
<1> SUFFICES ASSUME Init PROVE LogInv
  OBVIOUS
<1>1. \A p \in Procs : job[p].sending = {}
  BY DEF Init, Idle
<1>2. LoggedKeys = {} /\ history.orphans = {}
  BY DEF Init, LoggedKeys
<1>3. \A k \in Keys : mails[k].sent = 0 /\ mails[k].lost = 0
  BY DEF Init
<1> QED
  BY <1>1, <1>2, <1>3, HandFacts, LogInvMeans DEF LogMeaning

LEMMA StepLog == TypeOK /\ LogInv /\ [Next]_vars => LogInv'
<1> SUFFICES ASSUME TypeOK, LogInv, [Next]_vars PROVE LogInv'
  OBVIOUS
<1>o. \A p \in Procs : OneKey(job[p])
  BY DEF LogInv, OneKeyEach
<1>1. CASE UNCHANGED vars
  BY <1>1, IdleHands DEF vars
<1>2. CASE \/ \E t \in Tenders : Publish(t)
           \/ \E m \in Members : Switch(m) \/ Pause(m)
           \/ NextDay
  <2>1. UNCHANGED <<log, job, mails>> /\ history'.orphans = history.orphans
    BY <1>2 DEF Publish, Switch, Pause, NextDay, TypeOK
  <2> QED
    BY <2>1, IdleHands
<1>3. ASSUME NEW p \in Procs, Work(p) PROVE LogInv'
  <2>1. ASSUME NEW t \in Tenders, Published(p, t) PROVE LogInv'
    <3>1. PICK j : Goes(p, j) /\ j.now = {} /\ j.sending = {}
      BY <2>1, PublishedStep
    <3>2. UNCHANGED <<log, mails, history>> /\ job[p] = Idle
      BY <2>1 DEF Published, Begin
    <3>3. OneKey(j) /\ InHand(j) = InHand(job[p])
      BY <3>1, <3>2, HandFacts DEF Idle
    <3> QED
      BY <3>1, <3>2, <3>3, IdleHands
  <2>2. CASE TimerFires(p) \/ RunAgain(p)
    <3>1. PICK timer \in BOOLEAN : Begin(p, DailyRun(timer))
      BY <2>2 DEF TimerFires, RunAgain
    <3>2. Goes(p, DailyRun(timer)) /\ DailyRun(timer).sending = {}
      BY <3>1, DailyRunType, BeginStep
    <3>3. log' = log /\ mails' = mails /\ history'.orphans = history.orphans /\ job[p] = Idle
      BY <2>2 DEF TimerFires, RunAgain, Begin, Excuse, TypeOK
    <3>4. OneKey(DailyRun(timer)) /\ InHand(DailyRun(timer)) = InHand(job[p])
      BY <3>2, <3>3, HandFacts DEF Idle
    <3> QED
      BY <3>2, <3>3, <3>4, IdleHands
  <2>3. CASE Visit(p) \/ Match(p) \/ Deliver(p)
    <3>1. job[p].now = {}
      BY <2>3 DEF Visit, Match, Deliver
    <3>2. job[p].sending = {}
      BY <1>o, <3>1 DEF OneKey
    <3>3. PICK j : Goes(p, j) /\ j.sending = {}
      BY <2>3, <3>2, VisitStep, MatchStep, DeliverStep
    <3>4. log' = log /\ mails' = mails /\ history'.orphans = history.orphans
      BY <2>3 DEF Visit, Match, Deliver, Excuse, TypeOK
    <3>5. OneKey(j) /\ InHand(j) = InHand(job[p])
      BY <3>2, <3>3, HandFacts
    <3> QED
      BY <3>3, <3>4, <3>5, IdleHands
  <2>4. CASE Ends(p)
    <3>1. job[p].now = {} /\ Goes(p, Idle) /\ Idle.sending = {}
      BY <2>4, IdleType DEF Ends, Goes, Idle
    <3>2. job[p].sending = {}
      BY <1>o, <3>1 DEF OneKey
    <3>3. log' = log /\ mails' = mails /\ history'.orphans = history.orphans
      BY <2>4 DEF Ends, TypeOK
    <3>4. OneKey(Idle) /\ InHand(Idle) = InHand(job[p])
      BY <3>1, <3>2, HandFacts
    <3> QED
      BY <3>1, <3>3, <3>4, IdleHands
  <2>5. CASE Mark(p)
    <3>1. PICK i, c, j :
           /\ i \in job[p].now /\ c \in Channels
           /\ KeyOf(i, c) \in Keys /\ job[p].sending = {} /\ Goes(p, j)
           /\ \/ /\ ~Logged(KeyOf(i, c))
                 /\ log' = log \cup {[key |-> KeyOf(i, c), day |-> time.day, at |-> time.now]}
                 /\ j.sending = {c} /\ j.now = job[p].now
                 /\ history' = history
              \/ j.sending = {} /\ log' = log /\ Excuse(IF KindOf(i) = "digest" THEN {i.to} \X i.about ELSE {})
      BY <2>5, MarkStep
    <3>2. mails' = mails /\ \A a, b \in job[p].now : a = b
      BY <2>5 DEF Mark, TypeOK
    <3>3. CASE j.sending = {} /\ log' = log
               /\ Excuse(IF KindOf(i) = "digest" THEN {i.to} \X i.about ELSE {})
      <4>1. OneKey(j) /\ InHand(j) = InHand(job[p])
        BY <3>1, <3>3, HandFacts
      <4>2. history'.orphans = history.orphans
        BY <3>3 DEF Excuse, TypeOK
      <4> QED
        BY <3>1, <3>2, <3>3, <4>1, <4>2, IdleHands
    <3>4. CASE /\ ~Logged(KeyOf(i, c))
               /\ log' = log \cup {[key |-> KeyOf(i, c), day |-> time.day, at |-> time.now]}
               /\ j.sending = {c} /\ j.now = job[p].now
               /\ history' = history
      <4>1. OneKey(j) /\ InHand(j) = {KeyOf(i, c)}
        BY <3>1, <3>2, <3>4 DEF OneKey, InHand
      <4>2. LoggedKeys' = LoggedKeys \cup {KeyOf(i, c)}
        BY <3>4, KeyEntered
      <4>3. KeyOf(i, c) \notin LoggedKeys
        BY <3>4, HandFacts
      <4> QED
        BY <3>1, <3>2, <3>4, <4>1, <4>2, <4>3, TakenUp
    <3> QED
      BY <3>1, <3>3, <3>4
  <2>6. CASE Sent(p) \/ Fails(p) \/ AnswerLost(p)
    <3>1. PICK i, c, j :
           /\ i \in job[p].now /\ c \in job[p].sending
           /\ KeyOf(i, c) \in Keys
           /\ Goes(p, j) /\ j.sending = {}
           /\ \/ /\ mails' = [mails EXCEPT ![KeyOf(i, c)].sent = @ + 1]
                 /\ log' = log
              \/ mails' = mails /\ log' = Unmarked(KeyOf(i, c))
              \/ /\ mails' = [mails EXCEPT ![KeyOf(i, c)] = [sent |-> @.sent + 1, lost |-> @.lost + 1]]
                 /\ log' = Unmarked(KeyOf(i, c))
      BY <2>6, LandStep
    <3>2. InHand(job[p]) = {KeyOf(i, c)}
      BY <1>o, <3>1 DEF OneKey, InHand, TypeOK
    <3>3. history'.orphans = history.orphans
      BY <2>6 DEF Sent, Fails, AnswerLost, Excuse, TypeOK
    <3>4. /\ log' = log => LoggedKeys' = LoggedKeys
          /\ log' = Unmarked(KeyOf(i, c)) => LoggedKeys' = LoggedKeys \ {KeyOf(i, c)}
      BY DEF LoggedKeys, Unmarked
    <3> QED
      BY <3>1, <3>2, <3>3, <3>4, PutDown
  <2>7. CASE Dies(p)
    <3>1. Goes(p, Idle)
      BY <2>7, IdleType DEF Dies, Goes, Idle
    <3>2. log' = log /\ mails' = mails
      BY <2>7 DEF Dies
    <3>3. history'.orphans = history.orphans \cup Sending(p)
      BY <2>7 DEF Dies, TypeOK
    <3> QED
      BY <3>1, <3>2, <3>3, LeftBehind
  <2> QED
    BY <1>3, <2>1, <2>2, <2>3, <2>4, <2>5, <2>6, <2>7 DEF Work
<1> QED
  BY <1>1, <1>2, <1>3 DEF Next

\* The log tells what was sent (markSent, unmarkSent and the order around the
\* sending): one message for each row that is neither in hand nor left behind
\* by a crash, and one more only for each failure that was none.
THEOREM LogIsTrue == Spec => []LogTellsSends
<1>1. Init => TypeOK /\ LogInv
  BY InitTypes, InitLog
<1>2. TypeOK /\ LogInv /\ [Next]_vars => (TypeOK /\ LogInv)'
  BY StepTypes, StepLog
<1>3. LogInv => LogTellsSends
  BY DEF LogInv
<1> QED
  BY <1>1, <1>2, <1>3, PTL DEF Spec

-----------------------------------------------------------------------------
(* How far deliver overruns the daily cap.                                 *)

\* Channels on which a job still tries a message to m.
Open(j, m) == {c \in j.left \ j.sending : \E i \in j.now : i.to = m}
Due(m) == {x \in Procs \X Channels : x[2] \in Open(job[x[1]], m)}

\* A message in delivery has a channel left, and is tried on the first.
HandSane(j) ==
  /\ j.now # {} => j.left # {}
  /\ j.now = {} => j.sending = {}
  /\ j.sending \subseteq {First(j.left)}

LogSane == IsFiniteSet(log) /\ \A e \in log : e.day <= time.day

\* CapNearlyKept is not inductive: who was let in under the cap will send.
Within(m) ==
  Cardinality(SentToday(m)) + Cardinality(Due(m)) <= DailyCap - 1 + 2 * Cardinality(Procs)

CapInv ==
  /\ LogSane
  /\ \A p \in Procs : HandSane(job[p])
  /\ \A m \in Members : Within(m)

-----------------------------------------------------------------------------
(* Counting.                                                               *)

LEMMA TwoChannels ==
  /\ IsFiniteSet(Procs \X Channels)
  /\ Cardinality(Procs \X Channels) = 2 * Cardinality(Procs)
  /\ Cardinality(Procs) \in Nat
<1>1. IsFiniteSet(Procs) /\ Cardinality(Procs) \in Nat
  BY TenderAssumption, FS_CardinalityType
<1>2. IsFiniteSet(Channels) /\ Cardinality(Channels) = 2
  <2>1. IsFiniteSet({"telegram"}) /\ Cardinality({"telegram"}) = 1
    BY FS_Singleton
  <2>2. Channels = {"telegram"} \cup {"email"} /\ "email" \notin {"telegram"}
    BY DEF Channels
  <2> QED
    BY <2>1, <2>2, FS_AddElement
<1> QED
  BY <1>1, <1>2, FS_Product

\* What is counted is finite, and no more than two are due for each job.
LEMMA Counts ==
  ASSUME IsFiniteSet(log), NEW m
  PROVE  /\ IsFiniteSet(SentToday(m)) /\ Cardinality(SentToday(m)) \in Nat
         /\ IsFiniteSet(Due(m)) /\ Cardinality(Due(m)) \in Nat
         /\ Cardinality(Due(m)) <= 2 * Cardinality(Procs)
<1>1. SentToday(m) \in SUBSET log /\ Due(m) \in SUBSET (Procs \X Channels)
  BY DEF SentToday, Due
<1>2. IsFiniteSet(SentToday(m)) /\ IsFiniteSet(Due(m))
      /\ Cardinality(Due(m)) <= 2 * Cardinality(Procs)
  BY <1>1, TwoChannels, FS_Subset
<1> QED
  BY <1>2, FS_CardinalityType

LEMMA CountsNext ==
  ASSUME IsFiniteSet(log'), NEW m
  PROVE  /\ IsFiniteSet(SentToday(m)') /\ Cardinality(SentToday(m)') \in Nat
         /\ IsFiniteSet(Due(m)') /\ Cardinality(Due(m)') \in Nat
         /\ Cardinality(Due(m)') <= 2 * Cardinality(Procs)
<1>1. SentToday(m)' \in SUBSET log' /\ Due(m)' \in SUBSET (Procs \X Channels)
  BY DEF SentToday, Due
<1>2. IsFiniteSet(SentToday(m)') /\ IsFiniteSet(Due(m)')
      /\ Cardinality(Due(m)') <= 2 * Cardinality(Procs)
  BY <1>1, TwoChannels, FS_Subset
<1> QED
  BY <1>2, FS_CardinalityType

\* Nothing more is sent and nothing more is due.
LEMMA NoMore ==
  ASSUME LogSane, NEW m, Within(m), IsFiniteSet(log'),
         SentToday(m)' \subseteq SentToday(m), Due(m)' \subseteq Due(m)
  PROVE  Within(m)'
<1>1. Cardinality(SentToday(m)') <= Cardinality(SentToday(m))
  BY Counts, FS_Subset DEF LogSane
<1>2. Cardinality(Due(m)') <= Cardinality(Due(m))
  BY Counts, FS_Subset DEF LogSane
<1> QED
  BY <1>1, <1>2, Counts, CountsNext, TwoChannels, TenderAssumption DEF Within, LogSane

\* A message under the cap may be due to all.
LEMMA LetIn ==
  ASSUME LogSane, NEW m, UnderCap(m), log' = log, time' = time
  PROVE  Within(m)'
<1>1. SentToday(m)' = SentToday(m)
  BY DEF SentToday
<1>2. Cardinality(SentToday(m)) <= DailyCap - 1
  BY Counts, TenderAssumption DEF UnderCap, LogSane
<1> QED
  BY <1>1, <1>2, Counts, CountsNext, TwoChannels, TenderAssumption DEF Within, LogSane

\* What was due is sent.
LEMMA OneSent ==
  ASSUME LogSane, NEW m, Within(m), NEW e, NEW x \in Due(m), IsFiniteSet(log'),
         SentToday(m)' \subseteq SentToday(m) \cup {e}, Due(m)' \subseteq Due(m) \ {x}
  PROVE  Within(m)'
<1>1. Cardinality(SentToday(m)') <= Cardinality(SentToday(m)) + 1
  <2>1. IsFiniteSet(SentToday(m) \cup {e})
        /\ Cardinality(SentToday(m) \cup {e}) <= Cardinality(SentToday(m)) + 1
    <3>1. IsFiniteSet(SentToday(m)) /\ Cardinality(SentToday(m)) \in Nat
      BY Counts DEF LogSane
    <3> HIDE DEF SentToday
    <3>2. /\ IsFiniteSet(SentToday(m) \cup {e})
          /\ Cardinality(SentToday(m) \cup {e}) =
               IF e \in SentToday(m) THEN Cardinality(SentToday(m)) ELSE Cardinality(SentToday(m)) + 1
      BY <3>1, FS_AddElement
    <3> QED
      BY <3>1, <3>2
  <2>2. Cardinality(SentToday(m)') <= Cardinality(SentToday(m) \cup {e})
    BY <2>1, FS_Subset
  <2>3. Cardinality(SentToday(m) \cup {e}) \in Nat
    BY <2>1, FS_CardinalityType
  <2> QED
    BY <2>1, <2>2, <2>3, Counts, CountsNext DEF LogSane
<1>2. Cardinality(Due(m)') <= Cardinality(Due(m)) - 1
  <2>1. IsFiniteSet(Due(m) \ {x}) /\ Cardinality(Due(m) \ {x}) = Cardinality(Due(m)) - 1
    BY Counts, FS_RemoveElement DEF LogSane
  <2> QED
    BY <2>1, Counts, CountsNext, FS_Subset DEF LogSane
<1> QED
  BY <1>1, <1>2, Counts, CountsNext, TwoChannels, TenderAssumption DEF Within, LogSane

-----------------------------------------------------------------------------
(* Steps.                                                                  *)

\* The other jobs have due what they had.
LEMMA DueNext ==
  ASSUME TypeOK, NEW p \in Procs, NEW j, Goes(p, j), NEW m
  PROVE  \A x : x \in Due(m)' <=>
           x \in Procs \X Channels /\ x[2] \in (IF x[1] = p THEN Open(j, m) ELSE Open(job[x[1]], m))
<1>1. \A x \in Procs \X Channels : job'[x[1]] = IF x[1] = p THEN j ELSE job[x[1]]
  BY GoesKeepsTypes
<1>2. \A x : x \in Due(m)' <=> x \in Procs \X Channels /\ x[2] \in Open(job'[x[1]], m)
  BY DEF Due, Open
<1> QED
  BY <1>1, <1>2

LEMMA Calm ==
  ASSUME TypeOK, CapInv, NEW p \in Procs, NEW j, Goes(p, j), HandSane(j),
         \A m \in Members : Open(j, m) \subseteq Open(job[p], m),
         log' \subseteq log, time'.day = time.day
  PROVE  CapInv'
<1>1. LogSane' /\ IsFiniteSet(log')
  BY FS_Subset DEF CapInv, LogSane
<1>2. \A q \in Procs : HandSane(job'[q])
  BY GoesKeepsTypes DEF CapInv
<1>3. ASSUME NEW m \in Members PROVE Within(m)'
  <2>1. SentToday(m)' \subseteq SentToday(m)
    BY DEF SentToday
  <2>2. Due(m)' \subseteq Due(m)
    BY DueNext DEF Due
  <2> QED
    BY <1>1, <2>1, <2>2, NoMore DEF CapInv
<1> QED
  BY <1>1, <1>2, <1>3 DEF CapInv, HandSane

\* Nothing in hand: nothing due.
LEMMA EmptyHand ==
  ASSUME NEW j, j.now = {}, j.sending = {}
  PROVE  HandSane(j) /\ \A m : Open(j, m) = {}
BY DEF HandSane, Open

LEMMA OnwardOpens ==
  ASSUME TypeOK, NEW p \in Procs, HandSane(job[p]), Onward(p)
  PROVE  \E j : Goes(p, j) /\ HandSane(j) /\ \A m : Open(j, m) \subseteq Open(job[p], m)
<1> DEFINE left == job[p].left \ {First(job[p].left)}
           next == [job[p] EXCEPT !.left = left, !.sending = {},
                      !.now = IF left = {} THEN {} ELSE @]
<1>1. job[p] \in Jobs /\ \A i, k \in job[p].now : i = k
  BY DEF TypeOK
<1>2. /\ next \in Jobs /\ next.sending = {} /\ next.left = left
      /\ next.now = IF left = {} THEN {} ELSE job[p].now
      /\ \A i, k \in next.now : i = k
  BY <1>1 DEF Jobs
<1>3. HandSane(next) /\ \A m : Open(next, m) \subseteq Open(job[p], m)
  BY <1>2 DEF HandSane, Open
<1>4. job' = [job EXCEPT ![p] = Rest(next)]
  BY DEF Onward
<1> HIDE DEF next
<1>5. Goes(p, Rest(next))
  BY <1>2, <1>4, RestFacts DEF Goes
<1>6. HandSane(Rest(next)) /\ \A m : Open(Rest(next), m) \subseteq Open(job[p], m)
  <2>1. CASE next.now = {}
    BY <1>2, <2>1, RestFacts, EmptyHand
  <2>2. CASE next.now # {}
    BY <1>2, <1>3, <2>2, RestFacts
  <2> QED
    BY <2>1, <2>2
<1> QED
  BY <1>5, <1>6

\* deliver lets in a message under the cap, or drops it.
LEMMA DeliverOpens ==
  ASSUME TypeOK, NEW p \in Procs, HandSane(job[p]), Deliver(p)
  PROVE  \E j : /\ Goes(p, j) /\ HandSane(j)
                /\ \A n : UnderCap(n) \/ Open(j, n) = {}
<1>1. job[p] \in Jobs /\ job[p].now = {} /\ job[p].sending = {}
  BY DEF TypeOK, Deliver, HandSane
<1>2. PICK i \in job[p].items :
        \/ /\ UnderCap(i.to)
           /\ job' = [job EXCEPT ![p] = Rest(
                [job[p] EXCEPT !.items = @ \ {i}, !.left = i.by,
                               !.now = IF i.by = {} THEN {} ELSE {i}])]
        \/ job' = [job EXCEPT ![p] = Rest([job[p] EXCEPT !.items = @ \ {i}])]
  BY DEF Deliver
<1> DEFINE tried == [job[p] EXCEPT !.items = @ \ {i}, !.left = i.by,
                       !.now = IF i.by = {} THEN {} ELSE {i}]
           dropped == [job[p] EXCEPT !.items = @ \ {i}]
<1>3. i \in Items /\ i.by \in SUBSET Channels
  BY <1>1 DEF Jobs, Items
<1>4. /\ tried \in Jobs /\ tried.sending = {} /\ \A a, b \in tried.now : a = b
      /\ HandSane(tried) /\ \A n : n # i.to => Open(tried, n) = {}
  BY <1>1, <1>3 DEF Jobs, HandSane, Open
<1>5. dropped \in Jobs /\ dropped.sending = {} /\ dropped.now = {}
  BY <1>1 DEF Jobs
<1>6. \/ UnderCap(i.to) /\ job' = [job EXCEPT ![p] = Rest(tried)]
      \/ job' = [job EXCEPT ![p] = Rest(dropped)]
  BY <1>2, Zenon
<1> HIDE DEF tried, dropped
<1>7. CASE job' = [job EXCEPT ![p] = Rest(dropped)]
  BY <1>5, <1>7, RestFacts, EmptyHand DEF Goes
<1>8. CASE UnderCap(i.to) /\ job' = [job EXCEPT ![p] = Rest(tried)]
  <2>1. Goes(p, Rest(tried))
    BY <1>4, <1>8, RestFacts DEF Goes
  <2>2. HandSane(Rest(tried)) /\ \A n : n # i.to => Open(Rest(tried), n) = {}
    BY <1>4, RestFacts, EmptyHand
  <2> QED
    BY <1>8, <2>1, <2>2
<1> QED
  BY <1>6, <1>7, <1>8

\* markSent hands over on a channel that was due, or finds the row.
LEMMA MarkOpens ==
  ASSUME TypeOK, NEW p \in Procs, HandSane(job[p]), Mark(p)
  PROVE  \E j : /\ Goes(p, j) /\ HandSane(j)
                /\ \/ log' = log /\ \A m : Open(j, m) \subseteq Open(job[p], m)
                   \/ \E i \in job[p].now, c \in Channels :
                        /\ log' = log \cup {[key |-> KeyOf(i, c), day |-> time.day, at |-> time.now]}
                        /\ \A m : Open(j, m) = Open(job[p], m) \ {c}
                        /\ c \in Open(job[p], i.to)
                        /\ \A m : m # i.to => Open(job[p], m) = {}
<1>1. PICK i \in job[p].now : 
        LET c == First(job[p].left)
            k == KeyOf(i, c)
        IN  /\ job[p].sending = {}
            /\ \/ /\ log' = log \cup {[key |-> k, day |-> time.day, at |-> time.now]}
                  /\ job' = [job EXCEPT ![p].sending = {c}]
               \/ Onward(p) /\ log' = log
  BY DEF Mark
<1> DEFINE c == First(job[p].left)
           j == [job[p] EXCEPT !.sending = {c}]
<1>2. job[p] \in Jobs /\ \A a, b \in job[p].now : a = b
  BY DEF TypeOK
<1>3. c \in job[p].left /\ c \in Channels
  BY <1>2 DEF HandSane, First, Jobs, Channels
<1>4. CASE Onward(p) /\ log' = log
  BY <1>4, OnwardOpens
<1>5. CASE /\ log' = log \cup {[key |-> KeyOf(i, c), day |-> time.day, at |-> time.now]}
           /\ job' = [job EXCEPT ![p].sending = {c}]
  <2>1. j \in Jobs /\ j.now = job[p].now /\ j.left = job[p].left /\ j.sending = {c}
    BY <1>2, <1>3 DEF Jobs
  <2>2. Goes(p, j)
    BY <1>2, <1>5, <2>1 DEF Goes
  <2>3. HandSane(j)
    BY <2>1 DEF HandSane
  <2> HIDE DEF j, c
  <2>4. \A m : Open(j, m) = Open(job[p], m) \ {c}
    BY <1>1, <2>1 DEF Open
  <2>5. c \in Open(job[p], i.to) /\ \A m : m # i.to => Open(job[p], m) = {}
    BY <1>1, <1>2, <1>3 DEF Open
  <2> QED
    BY <1>3, <1>5, <2>2, <2>3, <2>4, <2>5
<1> QED
  BY <1>1, <1>4, <1>5

\* A row for a message that was due.
LEMMA MarkKeeps ==
  ASSUME TypeOK, CapInv, NEW p \in Procs, Mark(p)
  PROVE  CapInv'
<1>1. HandSane(job[p])
  BY DEF CapInv
<1>2. PICK j : /\ Goes(p, j) /\ HandSane(j)
               /\ \/ log' = log /\ \A m : Open(j, m) \subseteq Open(job[p], m)
                  \/ \E i \in job[p].now, c \in Channels :
                       /\ log' = log \cup {[key |-> KeyOf(i, c), day |-> time.day, at |-> time.now]}
                       /\ \A m : Open(j, m) = Open(job[p], m) \ {c}
                       /\ c \in Open(job[p], i.to)
                       /\ \A m : m # i.to => Open(job[p], m) = {}
  BY <1>1, MarkOpens
<1>3. time' = time /\ time.day \in Nat
  BY DEF Mark, TypeOK, Days
<1>4. CASE log' = log /\ \A m : Open(j, m) \subseteq Open(job[p], m)
  BY <1>2, <1>3, <1>4, Calm
<1>5. ASSUME NEW i \in job[p].now, NEW c \in Channels,
             log' = log \cup {[key |-> KeyOf(i, c), day |-> time.day, at |-> time.now]},
             \A m : Open(j, m) = Open(job[p], m) \ {c},
             c \in Open(job[p], i.to)
      PROVE  CapInv'
  <2> DEFINE e == [key |-> KeyOf(i, c), day |-> time.day, at |-> time.now]
  <2>1. e.key[1] = i.to /\ e.day = time.day /\ log' = log \cup {e}
    BY <1>5 DEF KeyOf
  <2> HIDE DEF e
  <2>2. LogSane' /\ IsFiniteSet(log')
    BY <1>3, <2>1, FS_AddElement DEF CapInv, LogSane
  <2>3. \A q \in Procs : HandSane(job'[q])
    BY <1>2, GoesKeepsTypes DEF CapInv
  <2>4. ASSUME NEW m \in Members PROVE Within(m)'
    <3>1. CASE m = i.to
      <4>1. SentToday(m)' \subseteq SentToday(m) \cup {e}
        BY <1>3, <2>1 DEF SentToday
      <4>2. <<p, c>> \in Due(m)
        BY <1>5, <3>1 DEF Due
      <4>3. Due(m)' \subseteq Due(m) \ {<<p, c>>}
        BY <1>2, <1>5, DueNext DEF Due
      <4> QED
        BY <2>2, <4>1, <4>2, <4>3, OneSent DEF CapInv
    <3>2. CASE m # i.to
      <4>1. SentToday(m)' \subseteq SentToday(m)
        BY <1>3, <2>1, <3>2 DEF SentToday
      <4>2. Due(m)' \subseteq Due(m)
        BY <1>2, <1>5, DueNext DEF Due
      <4> QED
        BY <2>2, <4>1, <4>2, NoMore DEF CapInv
    <3> QED
      BY <3>1, <3>2
  <2> QED
    BY <2>2, <2>3, <2>4 DEF CapInv, HandSane
<1> QED
  BY <1>2, <1>4, <1>5

LEMMA DeliverKeeps ==
  ASSUME TypeOK, CapInv, NEW p \in Procs, Deliver(p)
  PROVE  CapInv'
<1>1. PICK j : /\ Goes(p, j) /\ HandSane(j)
               /\ \A n : UnderCap(n) \/ Open(j, n) = {}
  BY DeliverOpens DEF CapInv
<1>2. log' = log /\ time' = time
  BY DEF Deliver
<1>3. LogSane' /\ IsFiniteSet(log')
  BY <1>2 DEF CapInv, LogSane
<1>4. \A q \in Procs : HandSane(job'[q])
  BY <1>1, GoesKeepsTypes DEF CapInv
<1>5. ASSUME NEW m \in Members PROVE Within(m)'
  <2>1. CASE UnderCap(m)
    BY <1>2, <2>1, LetIn DEF CapInv
  <2>2. CASE Open(j, m) = {}
    <3>1. Due(m)' \subseteq Due(m)
      BY <1>1, <2>2, DueNext DEF Due
    <3>2. SentToday(m)' \subseteq SentToday(m)
      BY <1>2 DEF SentToday
    <3> QED
      BY <1>3, <3>1, <3>2, NoMore DEF CapInv
  <2> QED
    BY <1>1, <2>1, <2>2
<1> QED
  BY <1>3, <1>4, <1>5 DEF CapInv, HandSane

\* At midnight nobody has been sent anything, and nobody is at work.
LEMMA NextDayKeeps ==
  ASSUME TypeOK, CapInv, NextDay
  PROVE  CapInv'
<1>1. time'.day = time.day + 1 /\ time.day \in Nat /\ log' = log /\ job' = job
  BY DEF NextDay, TypeOK, Days
<1>2. \A e \in log : e.day \in Nat
  BY DEF TypeOK, Entries, Days
<1>3. LogSane' /\ IsFiniteSet(log')
  BY <1>1, <1>2 DEF CapInv, LogSane
<1>4. ASSUME NEW m \in Members PROVE Within(m)'
  <2>1. SentToday(m)' = {}
    BY <1>1, <1>2 DEF SentToday, CapInv, LogSane
  <2>2. Due(m)' \subseteq Due(m)
    BY <1>1 DEF Due, Open
  <2> QED
    BY <1>3, <2>1, <2>2, NoMore DEF CapInv
<1> QED
  BY <1>1, <1>3, <1>4 DEF CapInv, HandSane

LEMMA InitCap == Init => CapInv
<1> SUFFICES ASSUME Init PROVE CapInv
  OBVIOUS
<1>1. LogSane
  BY FS_EmptySet DEF Init, LogSane
<1>2. \A p \in Procs : job[p] = Idle /\ HandSane(job[p])
  BY EmptyHand DEF Init, Idle
<1>3. ASSUME NEW m \in Members PROVE Within(m)
  <2>1. SentToday(m) = {} /\ Due(m) = {}
    BY <1>2, EmptyHand DEF Init, SentToday, Due, Idle
  <2> QED
    BY <2>1, FS_EmptySet, TwoChannels, TenderAssumption DEF Within
<1> QED
  BY <1>1, <1>2, <1>3 DEF CapInv

LEMMA StepCap == TypeOK /\ CapInv /\ [Next]_vars => CapInv'
<1> SUFFICES ASSUME TypeOK, CapInv, [Next]_vars PROVE CapInv'
  OBVIOUS
<1>1. CASE \/ UNCHANGED vars
           \/ \E t \in Tenders : Publish(t)
           \/ \E m \in Members : Switch(m) \/ Pause(m)
  <2>1. log' = log /\ job' = job /\ time'.day = time.day
    BY <1>1 DEF vars, Publish, Switch, Pause, TypeOK
  <2>2. LogSane' /\ IsFiniteSet(log')
    BY <2>1 DEF CapInv, LogSane
  <2>3. ASSUME NEW m \in Members PROVE Within(m)'
    <3>1. SentToday(m)' \subseteq SentToday(m) /\ Due(m)' \subseteq Due(m)
      BY <2>1 DEF SentToday, Due, Open
    <3> QED
      BY <2>2, <3>1, NoMore DEF CapInv
  <2> QED
    BY <2>1, <2>2, <2>3 DEF CapInv, HandSane
<1>2. CASE NextDay
  BY <1>2, NextDayKeeps
<1>3. ASSUME NEW p \in Procs, Work(p) PROVE CapInv'
  <2>0. HandSane(job[p])
    BY DEF CapInv
  <2>1. CASE Mark(p)
    BY <2>1, MarkKeeps
  <2>2. CASE Deliver(p)
    BY <2>2, DeliverKeeps
  <2>3. CASE Sent(p) \/ Fails(p) \/ AnswerLost(p)
    <3>1. Onward(p) /\ log' \subseteq log /\ time' = time
      BY <2>3 DEF Sent, Fails, AnswerLost, Unmarked
    <3>2. PICK j : Goes(p, j) /\ HandSane(j) /\ \A m : Open(j, m) \subseteq Open(job[p], m)
      BY <2>0, <3>1, OnwardOpens
    <3> QED
      BY <3>1, <3>2, Calm
  <2>4. CASE \/ TimerFires(p) \/ RunAgain(p) \/ Visit(p) \/ Match(p) \/ Ends(p) \/ Dies(p)
             \/ \E t \in Tenders : Published(p, t)
    <3>1. log' = log /\ time'.day = time.day
      BY <2>4 DEF TimerFires, RunAgain, Visit, Match, Ends, Dies, Published, TypeOK
    <3>2. PICK j : Goes(p, j) /\ j.now = {} /\ j.sending = {}
      <4>1. CASE TimerFires(p) \/ RunAgain(p)
        BY <4>1, DailyRunType, BeginStep DEF TimerFires, RunAgain
      <4>2. CASE Visit(p) \/ Match(p)
        <5>1. job[p].sending = {}
          BY <2>0, <4>2 DEF Visit, Match, HandSane
        <5> QED
          BY <4>2, <5>1, VisitStep, MatchStep
      <4>3. CASE Ends(p) \/ Dies(p)
        <5>1. Idle.now = {} /\ Idle.sending = {}
          BY DEF Idle
        <5>2. Goes(p, Idle)
          BY <4>3, <5>1, IdleType DEF Ends, Dies, Goes
        <5> QED
          BY <5>1, <5>2
      <4>4. CASE \E t \in Tenders : Published(p, t)
        BY <4>4, PublishedStep
      <4> QED
        BY <2>4, <4>1, <4>2, <4>3, <4>4
    <3>3. HandSane(j) /\ \A m : Open(j, m) = {}
      BY <3>2, EmptyHand
    <3> QED
      BY <3>1, <3>2, <3>3, Calm
  <2> QED
    BY <1>3, <2>1, <2>2, <2>3, <2>4 DEF Work
<1> QED
  BY <1>1, <1>2, <1>3 DEF Next

\* With any number of senders at once, a member gets at most two messages a
\* day for each of them beyond the cap less one (deliver reads sentToday once,
\* before it tries the channels).
THEOREM CapOverrunBounded == Spec => []CapNearlyKept
<1>1. Init => TypeOK /\ CapInv
  BY InitTypes, InitCap
<1>2. TypeOK /\ CapInv /\ [Next]_vars => (TypeOK /\ CapInv)'
  BY StepTypes, StepCap
<1>3. CapInv => CapNearlyKept
  <2> SUFFICES ASSUME CapInv, NEW m \in Members
               PROVE  Cardinality(SentToday(m)) <= DailyCap - 1 + 2 * Cardinality(Procs)
    BY DEF CapNearlyKept
  <2> QED
    BY Counts, TwoChannels, TenderAssumption DEF CapInv, LogSane, Within
<1> QED
  BY <1>1, <1>2, <1>3, PTL DEF Spec

-----------------------------------------------------------------------------
(* What no daily run forgets.                                              *)

HeardOn(m, t, c) == \E way \in {"new", "digest"} : <<m, t, way, c>> \in heard
InHandNew(m, t, c) ==
  \E p \in Procs : \E i \in job[p].now :
    i.to = m /\ i.subject = <<"new", t>> /\ c \in job[p].sending
Excused(m, t) == <<m, t>> \in history.excused

\* A message that fails is excused only if it is about a tender the timer
\* has seen, so that only of those a message in hand is as good as sent.
Known(m, t, c) == HeardOn(m, t, c) \/ (date[t] <= time.last /\ InHandNew(m, t, c))
Told(m, t) == Excused(m, t) \/ \A c \in UNION Alerts[m] : Known(m, t, c)
Asked(d) == PublishedBy(d) \ history.late
NoTimer == \A p \in Procs : ~job[p].timer
Held(p) == job[p].items \cup job[p].now

Clocks ==
  /\ time.window <= time.last /\ time.last <= time.now
  /\ \A t \in Tenders : date[t] <= time.now
  /\ \A e \in log : e.at <= time.now
  /\ history.settled <= time.window \/ (history.settled = time.last /\ NoTimer)

OneDaily ==
  /\ \A p, q \in Procs : job[p].op = "daily" /\ job[q].op = "daily" => p = q
  /\ \A p \in Procs : job[p].timer => job[p].op = "daily"
  /\ ~time.fired => \A p \in Procs : job[p].op # "daily"

ItemsSane ==
  \A p \in Procs :
    /\ job[p].items \cap job[p].now = {}
    /\ \A i \in Held(p) :
         /\ KindOf(i) = "new" => i.about = {i.subject[2]}
         /\ KindOf(i) = "digest" => job[p].op = "daily" /\ i.by = UNION Alerts[i.to]

\* A row of the log for a single tender speaks of a message that was heard,
\* is in hand, or was left by a sender that died.
LoggedIsKnown ==
  \A m \in Members, t \in Tenders, c \in Channels :
    Logged(<<m, <<"new", t>>, c>>) => HeardOn(m, t, c) \/ InHandNew(m, t, c) \/ Excused(m, t)

\* What the timer had seen when it fired the last time but one is settled.
SinceWindow == \A m \in Members, t \in Asked(time.window) : Told(m, t)

\* Channel c is still to be tried for message i.
Pending(p, i, c) ==
  \/ i \in job[p].items /\ c \in i.by
  \/ i \in job[p].now /\ c \in job[p].left

Covers(p, m, t, c) ==
  \E i \in Held(p) : i.to = m /\ t \in i.about /\ KindOf(i) # "reminder" /\ Pending(p, i, c)

\* The run p has still to come to m, or has in its hands what m lacks.
Pursued(p, m, t) ==
  \/ \E f \in {"instant", "daily"} : <<m, f>> \in job[p].rows \/ <<m, f>> = job[p].who
  \/ \A c \in UNION Alerts[m] : Known(m, t, c) \/ Covers(p, m, t, c)

SinceLast ==
  \A m \in Members, t \in Asked(time.last) :
    Told(m, t) \/ \E p \in Procs : job[p].timer /\ Pursued(p, m, t)

\* A digest that is on its way makes up for all that its member lacks.
DigestsComplete ==
  \A p \in Procs : \A i \in Held(p) : KindOf(i) = "digest" =>
    \A t \in Asked(time.now) : ~Excused(i.to, t) =>
      \A c \in UNION Alerts[i.to] : Known(i.to, t, c) \/ (t \in i.about /\ Pending(p, i, c))

\* What was published up to a digest needs no other, once it is delivered.
DigestsKnown ==
  \A m \in Members : \A e \in Digests(m), t \in Asked(time.now) : date[t] <= e.at =>
    \/ Told(m, t)
    \/ \E p \in Procs : \E i \in job[p].now : i.to = m /\ KindOf(i) = "digest"

FInv ==
  /\ TypeOK /\ CapInv
  /\ Clocks /\ OneDaily /\ ItemsSane /\ LoggedIsKnown
  /\ SinceWindow /\ SinceLast /\ DigestsComplete /\ DigestsKnown

-----------------------------------------------------------------------------
(* What each action does to the request or run that takes it.              *)

Others(p) == \A q \in Procs : q # p => job'[q] = job[q]

\* Whose run it is stays the same, until a request of the server is over.
SameRun(p) ==
  /\ job[p].op = "daily" => /\ job'[p].op = "daily" /\ job'[p].timer = job[p].timer
                            /\ job'[p].rows = job[p].rows /\ job'[p].who = job[p].who
  /\ job[p].op # "daily" => job'[p].op # "daily"
  /\ job'[p].timer => job[p].timer
  /\ job'[p].rows \subseteq job[p].rows /\ job'[p].who \in {job[p].who, <<>>}

LEMMA JobFacts ==
  ASSUME TypeOK
  PROVE  /\ job \in [Procs -> Jobs]
         /\ \A p \in Procs :
              /\ job[p] \in Jobs /\ \A i, k \in job[p].now : i = k
              /\ \A i \in Held(p) : i \in Items /\ i.to \in Members /\ i.about \subseteq Tenders
                                    /\ i.by \subseteq Channels
BY DEF TypeOK, Held, Jobs, Items

\* p goes on as j, or is over with it.
GoesOnAs(p, j) ==
  /\ Others(p) /\ job'[p] \in Jobs
  /\ job'[p].items = j.items /\ job'[p].now = j.now /\ job'[p].sending = j.sending
  /\ j.now # {} => job'[p].left = j.left
  /\ job'[p].op = "daily" <=> j.op = "daily"
  /\ j.op # "server" => job'[p] = j
  /\ job'[p].timer => j.timer
  /\ job'[p].rows \subseteq j.rows /\ job'[p].who \in {j.who, <<>>}

LEMMA RestForm ==
  ASSUME NEW j \in Jobs, j.now = {} => j.sending = {}, NEW p \in Procs, TypeOK,
         job' = [job EXCEPT ![p] = Rest(j)]
  PROVE  GoesOnAs(p, j)
<1>1. Others(p) /\ job'[p] = Rest(j)
  BY JobFacts DEF Others
<1>2. CASE Rest(j) = j
  BY <1>1, <1>2 DEF GoesOnAs
<1>3. CASE Rest(j) = Idle /\ j.op = "server" /\ j.items = {} /\ j.now = {}
  <2>1. /\ Idle \in Jobs /\ Idle.items = {} /\ Idle.now = {} /\ Idle.sending = {}
        /\ Idle.op = "idle" /\ Idle.timer = FALSE /\ Idle.rows = {} /\ Idle.who = <<>>
    BY IdleType DEF Idle
  <2> QED
    BY <1>1, <1>3, <2>1 DEF GoesOnAs
<1> QED
  BY <1>2, <1>3 DEF Rest

LEMMA OnwardForm ==
  ASSUME TypeOK, CapInv, NEW p \in Procs, Onward(p), job[p].now # {}
  PROVE  LET c == First(job[p].left)
             left == job[p].left \ {c}
         IN  /\ Others(p) /\ SameRun(p) /\ job'[p].sending = {} /\ job'[p].items = job[p].items
             /\ job[p].sending \subseteq {c} /\ c \in job[p].left
             /\ \/ left = {} /\ job'[p].now = {}
                \/ left # {} /\ job'[p].now = job[p].now /\ job'[p].left = left
<1> DEFINE c == First(job[p].left)
           left == job[p].left \ {c}
           next == [job[p] EXCEPT !.left = left, !.sending = {},
                      !.now = IF left = {} THEN {} ELSE @]
<1>1. job[p] \in Jobs /\ HandSane(job[p])
  BY JobFacts DEF CapInv
<1>2. job[p].sending \subseteq {c} /\ c \in job[p].left
  <2>1. job[p].left # {} /\ job[p].left \subseteq Channels
    BY <1>1 DEF HandSane, Jobs
  <2> QED
    BY <1>1, <2>1 DEF HandSane, First, Channels
<1>3. /\ next \in Jobs /\ next.sending = {} /\ next.items = job[p].items /\ next.left = left
      /\ next.now = (IF left = {} THEN {} ELSE job[p].now)
      /\ next.op = job[p].op /\ next.timer = job[p].timer /\ next.rows = job[p].rows
      /\ next.who = job[p].who
  BY <1>1 DEF Jobs
<1>4. job' = [job EXCEPT ![p] = Rest(next)]
  BY DEF Onward
<1> HIDE DEF next
<1>5. /\ Others(p) /\ job'[p].items = job[p].items /\ job'[p].sending = {}
      /\ job'[p].now = next.now /\ (next.now # {} => job'[p].left = left) /\ SameRun(p)
  <2>1. next.now = {} => next.sending = {}
    BY <1>3
  <2>2. GoesOnAs(p, next)
    BY <1>3, <1>4, <2>1, RestForm
  <2>3. SameRun(p)
    BY <1>3, <2>2 DEF SameRun, GoesOnAs
  <2> QED
    BY <1>3, <2>2, <2>3 DEF GoesOnAs
<1> HIDE DEF c
<1> QED
  BY <1>2, <1>3, <1>5 DEF c

LEMMA DeliverForm ==
  ASSUME TypeOK, CapInv, NEW p \in Procs, Deliver(p)
  PROVE  \E i \in job[p].items :
           /\ job[p].now = {} /\ Others(p) /\ SameRun(p)
           /\ job'[p].items = job[p].items \ {i} /\ job'[p].sending = {}
           /\ \/ i.by = {} /\ job'[p].now = {} /\ UNCHANGED history
              \/ i.by # {} /\ job'[p].now = {i} /\ job'[p].left = i.by /\ UNCHANGED history
              \/ job'[p].now = {} /\ Excuse(Dropped(p, i))
<1>1. job[p] \in Jobs /\ HandSane(job[p])
  BY JobFacts DEF CapInv
<1>2. PICK i \in job[p].items :
        /\ job[p].now = {}
        /\ \/ /\ job' = [job EXCEPT ![p] = Rest(
                   [job[p] EXCEPT !.items = @ \ {i}, !.left = i.by,
                                  !.now = IF i.by = {} THEN {} ELSE {i}])]
              /\ UNCHANGED history
           \/ /\ job' = [job EXCEPT ![p] = Rest([job[p] EXCEPT !.items = @ \ {i}])]
              /\ Excuse(Dropped(p, i))
  BY DEF Deliver
<1> DEFINE tried == [job[p] EXCEPT !.items = @ \ {i}, !.left = i.by,
                       !.now = IF i.by = {} THEN {} ELSE {i}]
           dropped == [job[p] EXCEPT !.items = @ \ {i}]
<1>3. i \in Items /\ i.by \in SUBSET Channels /\ job[p].sending = {}
  BY <1>1, <1>2 DEF Jobs, Items, HandSane
<1>4. /\ tried \in Jobs /\ tried.sending = {} /\ tried.items = job[p].items \ {i}
      /\ tried.left = i.by /\ tried.now = (IF i.by = {} THEN {} ELSE {i})
      /\ tried.op = job[p].op /\ tried.timer = job[p].timer /\ tried.rows = job[p].rows
      /\ tried.who = job[p].who
  BY <1>1, <1>3 DEF Jobs
<1>5. /\ dropped \in Jobs /\ dropped.sending = {} /\ dropped.items = job[p].items \ {i}
      /\ dropped.now = {}
      /\ dropped.op = job[p].op /\ dropped.timer = job[p].timer /\ dropped.rows = job[p].rows
      /\ dropped.who = job[p].who
  BY <1>1, <1>2, <1>3 DEF Jobs
<1>6. \/ job' = [job EXCEPT ![p] = Rest(tried)] /\ UNCHANGED history
      \/ job' = [job EXCEPT ![p] = Rest(dropped)] /\ Excuse(Dropped(p, i))
  BY <1>2, Zenon
<1> HIDE DEF tried, dropped
<1>7. CASE job' = [job EXCEPT ![p] = Rest(tried)] /\ UNCHANGED history
  <2>1. /\ Others(p) /\ job'[p].items = tried.items /\ job'[p].sending = {}
        /\ job'[p].now = tried.now /\ (tried.now # {} => job'[p].left = tried.left) /\ SameRun(p)
    <3>1. GoesOnAs(p, tried)
      BY <1>4, <1>7, RestForm
    <3>2. SameRun(p)
      BY <1>4, <3>1 DEF SameRun, GoesOnAs
    <3> QED
      BY <1>4, <3>1, <3>2 DEF GoesOnAs
  <2>2. CASE i.by = {}
    BY <1>2, <1>4, <1>7, <2>1, <2>2
  <2>3. CASE i.by # {}
    BY <1>2, <1>4, <1>7, <2>1, <2>3
  <2> QED
    BY <2>2, <2>3
<1>8. CASE job' = [job EXCEPT ![p] = Rest(dropped)] /\ Excuse(Dropped(p, i))
  <2>1. /\ Others(p) /\ job'[p].items = dropped.items /\ job'[p].sending = {}
        /\ job'[p].now = {} /\ SameRun(p)
    <3>1. GoesOnAs(p, dropped)
      BY <1>5, <1>8, RestForm
    <3>2. SameRun(p)
      BY <1>5, <3>1 DEF SameRun, GoesOnAs
    <3> QED
      BY <1>5, <3>1, <3>2 DEF GoesOnAs
  <2> QED
    BY <1>2, <1>5, <1>8, <2>1
<1> QED
  BY <1>6, <1>7, <1>8

LEMMA ItemsOfForm ==
  ASSUME NEW M, NEW kind, NEW T
  PROVE  /\ \A i \in ItemsOf(M, kind, T) :
              /\ i.to \in M /\ KindOf(i) = kind /\ i.by \in Alerts[i.to]
              /\ i.subject[2] \in T /\ i.about = {i.subject[2]}
         /\ \A m \in M, t \in T : \A a \in Alerts[m] :
              \E i \in ItemsOf(M, kind, T) :
                i.to = m /\ KindOf(i) = kind /\ t \in i.about /\ i.by = a
<1> DEFINE Item(a) == [to |-> a[1][1], subject |-> <<kind, a[2]>>, about |-> {a[2]}, by |-> a[1][2]]
<1>1. ASSUME NEW i \in ItemsOf(M, kind, T)
      PROVE  /\ i.to \in M /\ KindOf(i) = kind /\ i.by \in Alerts[i.to]
             /\ i.subject[2] \in T /\ i.about = {i.subject[2]}
  <2>1. PICK a \in AlertsOf(M) \X T : i = Item(a)
    BY DEF ItemsOf
  <2>2. PICK m \in M : a[1] \in {m} \X Alerts[m]
    BY <2>1 DEF AlertsOf
  <2>3. a[1][1] = m /\ a[1][2] \in Alerts[m] /\ a[2] \in T
    BY <2>1, <2>2
  <2> QED
    BY <2>1, <2>3 DEF KindOf
<1>2. ASSUME NEW m \in M, NEW t \in T, NEW a \in Alerts[m]
      PROVE  \E i \in ItemsOf(M, kind, T) :
               i.to = m /\ KindOf(i) = kind /\ t \in i.about /\ i.by = a
  <2> DEFINE b == <<<<m, a>>, t>>
  <2>1. <<m, a>> \in AlertsOf(M)
    BY DEF AlertsOf
  <2>2. b \in AlertsOf(M) \X T
    BY <2>1
  <2>3. Item(b) \in ItemsOf(M, kind, T)
    BY <2>2 DEF ItemsOf
  <2>4. Item(b).to = m /\ Item(b).subject = <<kind, t>> /\ Item(b).about = {t} /\ Item(b).by = a
    OBVIOUS
  <2> QED
    BY <2>3, <2>4 DEF KindOf
<1> QED
  BY <1>1, <1>2

LEMMA DigestForm ==
  ASSUME NEW m
  PROVE  \A i \in DigestItems(m) :
           i.to = m /\ KindOf(i) = "digest" /\ i.by = UNION Alerts[m]
<1> SUFFICES ASSUME NEW i \in DigestItems(m)
             PROVE  i.to = m /\ KindOf(i) = "digest" /\ i.by = UNION Alerts[m]
  OBVIOUS
<1>1. PICK found : i = [to |-> m, subject |-> <<"digest", time.day>>, about |-> found,
                        by |-> UNION Alerts[m]]
  BY DEF DigestItems
<1> QED
  BY <1>1 DEF KindOf

\* A daily run before its first member.
LEMMA DailyRunForm ==
  ASSUME NEW timer
  PROVE  LET r == DailyRun(timer)
         IN  /\ r.op = "daily" /\ r.timer = timer /\ r.who = <<>>
             /\ r.items = {} /\ r.now = {} /\ r.sending = {}
             /\ r.rows = {<<m, EffectiveFreq(m \in digest)>> : m \in Members \ paused}
<1> DEFINE rows == {<<m, EffectiveFreq(m \in digest)>> : m \in Members \ paused}
<1> HIDE DEF rows
<1>1. DailyRun(timer) = [Idle EXCEPT !.op = "daily", !.timer = timer, !.rows = rows]
  BY DEF DailyRun, rows
<1> QED
  BY <1>1 DEF Idle, rows

LEMMA BeginForm ==
  ASSUME TypeOK, NEW p \in Procs, NEW j, Begin(p, j)
  PROVE  job[p] = Idle /\ job'[p] = j /\ Others(p)
BY JobFacts DEF Begin, Others

LEMMA PublishedForm ==
  ASSUME TypeOK, NEW p \in Procs, NEW t \in Tenders, Published(p, t)
  PROVE  /\ job[p] = Idle /\ Others(p)
         /\ job'[p].op = "server" /\ job'[p].timer = FALSE
         /\ job'[p].rows = {} /\ job'[p].who = <<>>
         /\ job'[p].now = {} /\ job'[p].sending = {}
         /\ job'[p].items = ItemsOf(Members \ (digest \cup paused), "new", {t})
<1> DEFINE items == ItemsOf(Members \ (digest \cup paused), "new", {t})
<1>1. Begin(p, [Idle EXCEPT !.op = "server", !.items = items])
  BY DEF Published
<1> HIDE DEF items
<1>2. job[p] = Idle /\ Others(p) /\ job'[p] = [Idle EXCEPT !.op = "server", !.items = items]
  BY <1>1, BeginForm
<1> QED
  BY <1>2 DEF Idle, items

LEMMA VisitForm ==
  ASSUME TypeOK, NEW p \in Procs, Visit(p)
  PROVE  \E r \in job[p].rows :
           /\ Others(p) /\ job[p].items = {} /\ job[p].now = {}
           /\ job[p].op = "daily" /\ job[p].who = <<>>
           /\ job'[p].op = "daily" /\ job'[p].timer = job[p].timer
           /\ job'[p].rows = job[p].rows \ {r} /\ job'[p].who = r
           /\ job'[p].now = {} /\ job'[p].sending = job[p].sending
           /\ job'[p].items = ItemsOf({r[1]}, "reminder", {t \in Closing : date[t] # 0})
<1>1. job[p] \in Jobs
  BY JobFacts
<1>2. PICK r \in job[p].rows :
        job' = [job EXCEPT ![p].rows = @ \ {r}, ![p].who = r,
                  ![p].items = ItemsOf({r[1]}, "reminder", {t \in Closing : date[t] # 0})]
  BY DEF Visit
<1> DEFINE items == ItemsOf({r[1]}, "reminder", {t \in Closing : date[t] # 0})
<1> HIDE DEF items
<1>3. job'[p] = [job[p] EXCEPT !.rows = @ \ {r}, !.who = r, !.items = items] /\ Others(p)
  BY <1>2, JobFacts DEF Others, items
<1> QED
  BY <1>1, <1>3 DEF Visit, Jobs, items

LEMMA MatchForm ==
  ASSUME TypeOK, NEW p \in Procs, Match(p)
  PROVE  /\ Others(p) /\ job[p].items = {} /\ job[p].now = {}
         /\ job[p].op = "daily" /\ job[p].who # <<>>
         /\ job'[p].op = "daily" /\ job'[p].timer = job[p].timer
         /\ job'[p].rows = job[p].rows /\ job'[p].who = <<>>
         /\ job'[p].now = {} /\ job'[p].sending = job[p].sending
         /\ job'[p].items = IF job[p].who[2] = "daily" THEN DigestItems(job[p].who[1])
                            ELSE CatchUpItems(job[p].who[1])
<1>1. job[p] \in Jobs
  BY JobFacts
<1> DEFINE found == IF job[p].who[2] = "daily" THEN DigestItems(job[p].who[1])
                    ELSE CatchUpItems(job[p].who[1])
<1>2. job' = [job EXCEPT ![p].who = <<>>, ![p].items = found]
  BY DEF Match
<1> HIDE DEF found
<1>3. job'[p] = [job[p] EXCEPT !.who = <<>>, !.items = found] /\ Others(p)
  BY <1>2, JobFacts DEF Others
<1>4. /\ job'[p].op = job[p].op /\ job'[p].timer = job[p].timer
      /\ job'[p].rows = job[p].rows /\ job'[p].who = <<>>
      /\ job'[p].items = found /\ job'[p].now = job[p].now /\ job'[p].sending = job[p].sending
  BY <1>1, <1>3 DEF Jobs
<1> QED
  BY <1>3, <1>4 DEF Match, found

LEMMA LeaveForm ==
  ASSUME TypeOK, NEW p \in Procs, Ends(p) \/ Dies(p)
  PROVE  job'[p] = Idle /\ Others(p)
BY JobFacts DEF Ends, Dies, Others

\* markSent hands over on the next channel, or passes over it.
LEMMA MarkForm ==
  ASSUME TypeOK, CapInv, NEW p \in Procs, Mark(p)
  PROVE  \E i : LET c == First(job[p].left)
                    k == KeyOf(i, c)
                IN /\ job[p].now = {i} /\ job[p].sending = {} /\ c \in job[p].left
                   /\ Others(p) /\ SameRun(p)
                   /\ job'[p].items = job[p].items
                   /\ \/ /\ ~Logged(k) /\ UNCHANGED history
                         /\ log' = log \cup {[key |-> k, day |-> time.day, at |-> time.now]}
                         /\ job'[p].now = job[p].now /\ job'[p].left = job[p].left
                         /\ job'[p].sending = {c}
                      \/ /\ Logged(k) /\ UNCHANGED log /\ Onward(p)
                         /\ Excuse(IF KindOf(i) = "digest" THEN {i.to} \X i.about ELSE {})
<1> DEFINE c == First(job[p].left)
<1>1. job[p] \in Jobs /\ HandSane(job[p]) /\ \A i, k \in job[p].now : i = k
  BY JobFacts DEF CapInv
<1>2. PICK i \in job[p].now :
        /\ job[p].sending = {}
        /\ \/ /\ ~Logged(KeyOf(i, c))
              /\ log' = log \cup {[key |-> KeyOf(i, c), day |-> time.day, at |-> time.now]}
              /\ job' = [job EXCEPT ![p].sending = {c}]
              /\ UNCHANGED history
           \/ /\ Logged(KeyOf(i, c))
              /\ Onward(p)
              /\ Excuse(IF KindOf(i) = "digest" THEN {i.to} \X i.about ELSE {})
              /\ UNCHANGED log
  BY DEF Mark
<1>3. c \in job[p].left
  BY <1>1 DEF HandSane, First, Jobs, Channels
<1>4. job[p].now = {i}
  BY <1>1
<1> HIDE DEF c
<1>5. CASE /\ job' = [job EXCEPT ![p].sending = {c}] /\ ~Logged(KeyOf(i, c))
           /\ log' = log \cup {[key |-> KeyOf(i, c), day |-> time.day, at |-> time.now]}
           /\ UNCHANGED history
  <2>1. job'[p] = [job[p] EXCEPT !.sending = {c}] /\ Others(p)
    BY <1>5, JobFacts DEF Others
  <2>2. /\ job'[p].op = job[p].op /\ job'[p].timer = job[p].timer /\ job'[p].rows = job[p].rows
        /\ job'[p].who = job[p].who /\ job'[p].items = job[p].items /\ job'[p].now = job[p].now
        /\ job'[p].left = job[p].left /\ job'[p].sending = {c}
    BY <1>1, <2>1 DEF Jobs
  <2>3. SameRun(p)
    BY <2>2 DEF SameRun
  <2> QED
    BY <1>2, <1>3, <1>4, <1>5, <2>1, <2>2, <2>3 DEF c
<1>6. CASE Onward(p) /\ Logged(KeyOf(i, c)) /\ UNCHANGED log
           /\ Excuse(IF KindOf(i) = "digest" THEN {i.to} \X i.about ELSE {})
  <2>1. Others(p) /\ SameRun(p) /\ job'[p].items = job[p].items
    BY <1>4, <1>6, OnwardForm
  <2> QED
    BY <1>2, <1>3, <1>4, <1>6, <2>1 DEF c
<1> QED
  BY <1>2, <1>5, <1>6

-----------------------------------------------------------------------------
(* One way of being told.                                                  *)

ItsWay(m, kind) == (kind = "new" => m \notin digest) /\ (kind = "digest" => m \in digest)

\* A request or run serves m in that way.
ServesAs(j, m) ==
  /\ \A f : <<m, f>> \in j.rows \/ <<m, f>> = j.who => (f = "daily" <=> m \in digest)
  /\ \A i \in j.items \cup j.now : i.to = m => ItsWay(m, KindOf(i))

\* Who has kept to one way was heard, is queued and is served in that way.
Ways ==
  \A m \in Members \ history.switched :
    /\ \A t \in Tenders, kind \in {"new", "digest"}, c \in Channels :
         <<m, t, kind, c>> \in heard => ItsWay(m, kind)
    /\ \A p \in Procs : ServesAs(job[p], m)

\* p sends nothing but what it held, to nobody it had not to come to.
Narrows(p) ==
  /\ Others(p) /\ job'[p].rows \subseteq job[p].rows /\ job'[p].who \in {job[p].who, <<>>}
  /\ Held(p)' \subseteq Held(p)
  /\ \A m, t, kind, c : <<m, t, kind, c>> \in heard' =>
       <<m, t, kind, c>> \in heard \/ \E i \in Held(p) : i.to = m /\ KindOf(i) = kind

LEMMA NarrowKeepsWays ==
  ASSUME Ways, NEW p \in Procs, Narrows(p), digest' = digest,
         history'.switched = history.switched
  PROVE  Ways'
<1> SUFFICES ASSUME NEW m \in Members \ history.switched
             PROVE  /\ \A t \in Tenders, kind \in {"new", "digest"}, c \in Channels :
                         <<m, t, kind, c>> \in heard' => ItsWay(m, kind)'
                    /\ \A q \in Procs : ServesAs(job[q], m)'
  BY DEF Ways
<1>1. \A kind : ItsWay(m, kind)' <=> ItsWay(m, kind)
  BY DEF ItsWay
<1>2. ASSUME NEW t \in Tenders, NEW kind \in {"new", "digest"}, NEW c \in Channels,
             <<m, t, kind, c>> \in heard'
      PROVE  ItsWay(m, kind)
  BY <1>2 DEF Narrows, Ways, ServesAs, Held
<1>3. ASSUME NEW q \in Procs PROVE ServesAs(job[q], m)'
  <2>1. ServesAs(job[q], m)
    BY DEF Ways
  <2>2. /\ job'[q].rows \subseteq job[q].rows /\ job'[q].who \in {job[q].who, <<>>}
        /\ job'[q].items \cup job'[q].now \subseteq job[q].items \cup job[q].now
    BY DEF Narrows, Others, Held
  <2> QED
    BY <1>1, <2>1, <2>2 DEF ServesAs
<1> QED
  BY <1>1, <1>2, <1>3

\* p begins, or turns to other messages.
LEMMA TurnKeepsWays ==
  ASSUME Ways, NEW p \in Procs, Others(p), heard' = heard, digest' = digest,
         history'.switched = history.switched,
         \A m \in Members \ history.switched : ServesAs(job[p], m)'
  PROVE  Ways'
<1>1. \A m, kind : ItsWay(m, kind)' <=> ItsWay(m, kind)
  BY DEF ItsWay
<1>2. ASSUME NEW m \in Members \ history.switched, NEW q \in Procs
      PROVE  ServesAs(job[q], m)'
  <2>1. CASE q # p
    BY <1>1, <2>1 DEF Ways, ServesAs, Others
  <2> QED
    BY <2>1
<1> QED
  BY <1>1, <1>2 DEF Ways

LEMMA NothingMore ==
  ASSUME TypeOK, NEW p \in Procs, Others(p), heard' = heard, job'[p] = Idle
  PROVE  Narrows(p)
BY DEF Narrows, Held, Idle

\* What was handed over arrived, failed, or both.
LEMMA LandForm ==
  ASSUME TypeOK, CapInv, NEW p \in Procs, Sent(p) \/ Fails(p) \/ AnswerLost(p)
  PROVE  \E i : LET c == First(job[p].left)
                    left == job[p].left \ {c}
                IN  /\ i \in Items /\ c \in Channels
                    /\ job[p].now = {i} /\ job[p].sending = {c} /\ c \in job[p].left
                    /\ Others(p) /\ SameRun(p)
                    /\ job'[p].items = job[p].items /\ job'[p].sending = {}
                    /\ \/ left = {} /\ job'[p].now = {}
                       \/ left # {} /\ job'[p].now = {i} /\ job'[p].left = left
                    /\ \/ Reached(i, c) /\ UNCHANGED <<log, history>>
                       \/ /\ log' = Unmarked(KeyOf(i, c)) /\ heard' = heard
                          /\ Excuse({i.to} \X (IF KindOf(i) = "digest" THEN i.about
                                               ELSE i.about \cap PublishedBy(time.last)))
                       \/ Reached(i, c) /\ log' = Unmarked(KeyOf(i, c)) /\ history' = history
<1> DEFINE c == First(job[p].left)
           left == job[p].left \ {c}
<1>1. /\ job[p] \in Jobs /\ HandSane(job[p]) /\ \A i, k \in job[p].now : i = k
      /\ \A i \in job[p].now : i \in Items
  BY JobFacts DEF CapInv, Held
<1>2. PICK i \in job[p].now, d \in job[p].sending :
        /\ Onward(p)
        /\ \/ Reached(i, d) /\ UNCHANGED <<log, history>>
           \/ /\ log' = Unmarked(KeyOf(i, d)) /\ heard' = heard
              /\ Excuse({i.to} \X (IF KindOf(i) = "digest" THEN i.about
                                   ELSE i.about \cap PublishedBy(time.last)))
           \/ Reached(i, d) /\ log' = Unmarked(KeyOf(i, d)) /\ history' = history
  BY DEF Sent, Fails, AnswerLost
<1>3. /\ Others(p) /\ SameRun(p) /\ job'[p].sending = {} /\ job'[p].items = job[p].items
      /\ job[p].sending \subseteq {c} /\ c \in job[p].left
      /\ \/ left = {} /\ job'[p].now = {}
         \/ left # {} /\ job'[p].now = job[p].now /\ job'[p].left = left
  BY <1>2, OnwardForm
<1>4. job[p].now = {i} /\ job[p].sending = {c} /\ d = c /\ c \in Channels
  BY <1>1, <1>2, <1>3 DEF Jobs
<1> HIDE DEF c
<1> QED
  BY <1>1, <1>2, <1>3, <1>4 DEF c

LEMMA ReachedForm ==
  ASSUME NEW i, NEW c, Reached(i, c)
  PROVE  /\ \A m, t, kind, d : <<m, t, kind, d>> \in heard' =>
              <<m, t, kind, d>> \in heard \/ (m = i.to /\ kind = KindOf(i))
         /\ \A x \in heard : x \in heard'
         /\ KindOf(i) # "reminder" => \A t \in i.about : <<i.to, t, KindOf(i), c>> \in heard'
BY DEF Reached

LEMMA InitWays == Init => Ways
<1> SUFFICES ASSUME Init PROVE Ways
  OBVIOUS
<1>1. heard = {} /\ \A p \in Procs : job[p] = Idle
  BY DEF Init
<1>2. \A m \in Members : ServesAs(Idle, m)
  BY DEF ServesAs, Idle
<1> QED
  BY <1>1, <1>2 DEF Ways

LEMMA StepWays == TypeOK /\ CapInv /\ Ways /\ [Next]_vars => Ways'
<1> SUFFICES ASSUME TypeOK, CapInv, Ways, [Next]_vars PROVE Ways'
  OBVIOUS
<1>1. CASE UNCHANGED vars \/ NextDay \/ (\E t \in Tenders : Publish(t)) \/ (\E m \in Members : Pause(m))
  <2>1. digest' = digest /\ job' = job /\ heard' = heard /\ history'.switched = history.switched
    BY <1>1 DEF vars, NextDay, Publish, Pause, TypeOK
  <2> QED
    BY <2>1 DEF Ways, ServesAs, ItsWay
<1>2. ASSUME NEW n \in Members, Switch(n) PROVE Ways'
  <2>1. /\ job' = job /\ heard' = heard /\ history'.switched = history.switched \cup {n}
        /\ \A m \in Members : m # n => (m \in digest' <=> m \in digest)
    BY <1>2 DEF Switch, TypeOK
  <2> QED
    BY <2>1 DEF Ways, ServesAs, ItsWay
<1>3. ASSUME NEW p \in Procs, Work(p) PROVE Ways'
  <2>1. digest' = digest /\ history'.switched = history.switched
    BY <1>3 DEF Work, TimerFires, RunAgain, Visit, Match, Ends, Deliver, Mark, Sent, Fails,
                AnswerLost, Dies, Published, Excuse, TypeOK
  <2>2. CASE Deliver(p)
    <3>1. PICK i \in job[p].items :
            /\ Others(p) /\ SameRun(p) /\ job'[p].items = job[p].items \ {i}
            /\ job'[p].now = {} \/ job'[p].now = {i}
      BY <2>2, DeliverForm
    <3>2. heard' = heard
      BY <2>2 DEF Deliver
    <3>3. Held(p)' \subseteq Held(p)
      BY <3>1 DEF Held
    <3>4. Narrows(p)
      BY <3>1, <3>2, <3>3 DEF Narrows, SameRun
    <3> QED
      BY <2>1, <3>4, NarrowKeepsWays
  <2>3. CASE Mark(p)
    <3>1. Narrows(p)
      <4>1. heard' = heard
        BY <2>3 DEF Mark
      <4>2. Others(p) /\ SameRun(p) /\ job'[p].items = job[p].items
        BY <2>3, MarkForm
      <4>3. job'[p].now \subseteq job[p].now
        BY <2>3, MarkForm, OnwardForm
      <4> QED
        BY <4>1, <4>2, <4>3 DEF Narrows, Held, SameRun
    <3> QED
      BY <2>1, <3>1, NarrowKeepsWays
  <2>4. CASE Sent(p) \/ Fails(p) \/ AnswerLost(p)
    <3>1. PICK i \in Items, c \in Channels :
            /\ job[p].now = {i} /\ Others(p) /\ SameRun(p) /\ job'[p].items = job[p].items
            /\ job'[p].now = {} \/ job'[p].now = {i}
            /\ heard' = heard \/ Reached(i, c)
      BY <2>4, LandForm
    <3>2. Held(p)' \subseteq Held(p) /\ i \in Held(p)
      BY <3>1 DEF Held
    <3>3. \A m, t, kind, d : <<m, t, kind, d>> \in heard' =>
            <<m, t, kind, d>> \in heard \/ (i.to = m /\ KindOf(i) = kind)
      BY <3>1, ReachedForm
    <3>4. Narrows(p)
      BY <3>1, <3>2, <3>3 DEF Narrows, SameRun
    <3> QED
      BY <2>1, <3>4, NarrowKeepsWays
  <2>5. CASE Ends(p) \/ Dies(p)
    <3>1. Narrows(p)
      BY <2>5, LeaveForm, NothingMore DEF Ends, Dies
    <3> QED
      BY <2>1, <3>1, NarrowKeepsWays
  <2>6. CASE TimerFires(p) \/ RunAgain(p)
    <3>1. PICK timer \in BOOLEAN : Begin(p, DailyRun(timer)) /\ heard' = heard
      BY <2>6 DEF TimerFires, RunAgain
    <3>2. /\ Others(p) /\ job'[p].items = {} /\ job'[p].now = {} /\ job'[p].who = <<>>
          /\ job'[p].rows = {<<m, EffectiveFreq(m \in digest)>> : m \in Members \ paused}
      BY <3>1, BeginForm, DailyRunForm
    <3>3. \A m, f : <<m, f>> \in job'[p].rows => (f = "daily" <=> m \in digest)
      BY <3>2 DEF EffectiveFreq
    <3> QED
      BY <2>1, <3>1, <3>2, <3>3, TurnKeepsWays DEF ServesAs
  <2>7. CASE Visit(p)
    <3>1. PICK r \in job[p].rows :
            /\ Others(p) /\ job'[p].rows = job[p].rows \ {r} /\ job'[p].who = r
            /\ job'[p].now = {}
            /\ job'[p].items = ItemsOf({r[1]}, "reminder", {t \in Closing : date[t] # 0})
      BY <2>7, VisitForm
    <3>2. \A i \in job'[p].items : KindOf(i) = "reminder"
      BY <3>1, ItemsOfForm
    <3>3. heard' = heard
      BY <2>7 DEF Visit
    <3>4. \A m \in Members \ history.switched : ServesAs(job[p], m)'
      BY <2>1, <3>1, <3>2 DEF Ways, ServesAs, ItsWay
    <3> QED
      BY <2>1, <3>1, <3>3, <3>4, TurnKeepsWays
  <2>8. CASE Match(p)
    <3> DEFINE who == job[p].who
    <3>1. /\ Others(p) /\ who # <<>>
          /\ job'[p].rows = job[p].rows /\ job'[p].who = <<>> /\ job'[p].now = {}
          /\ job'[p].items = IF who[2] = "daily" THEN DigestItems(who[1]) ELSE CatchUpItems(who[1])
      BY <2>8, MatchForm
    <3>2. who \in Members \X {"instant", "daily"} /\ who = <<who[1], who[2]>>
      BY <3>1, JobFacts DEF Jobs
    <3>3. \A i \in job'[p].items :
            /\ i.to = who[1]
            /\ who[2] = "daily" => KindOf(i) = "digest"
            /\ who[2] # "daily" => KindOf(i) = "new"
      <4>1. CASE who[2] = "daily"
        <5>1. job'[p].items = DigestItems(who[1])
          BY <3>1, <4>1
        <5>2. \A i \in DigestItems(who[1]) : i.to = who[1] /\ KindOf(i) = "digest"
          BY DigestForm
        <5> QED
          BY <4>1, <5>1, <5>2
      <4>2. CASE who[2] # "daily"
        <5>1. job'[p].items = ItemsOf({who[1]}, "new", PublishedSince(time.window))
          BY <3>1, <4>2 DEF CatchUpItems
        <5>2. \A i \in ItemsOf({who[1]}, "new", PublishedSince(time.window)) :
                i.to \in {who[1]} /\ KindOf(i) = "new"
          BY ItemsOfForm
        <5> QED
          BY <4>2, <5>1, <5>2
      <4> QED
        BY <4>1, <4>2
    <3>4. heard' = heard
      BY <2>8 DEF Match
    <3>5. \A m \in Members \ history.switched : ServesAs(job[p], m)'
      BY <2>1, <3>1, <3>2, <3>3 DEF Ways, ServesAs, ItsWay
    <3> QED
      BY <2>1, <3>1, <3>4, <3>5, TurnKeepsWays
  <2>9. ASSUME NEW t \in Tenders, Published(p, t) PROVE Ways'
    <3>1. /\ Others(p) /\ job'[p].rows = {} /\ job'[p].who = <<>> /\ job'[p].now = {}
          /\ job'[p].items = ItemsOf(Members \ (digest \cup paused), "new", {t})
      BY <2>9, PublishedForm
    <3>2. \A i \in job'[p].items : KindOf(i) = "new" /\ i.to \notin digest
      BY <3>1, ItemsOfForm
    <3>3. heard' = heard
      BY <2>9 DEF Published
    <3>4. ASSUME NEW m \in Members PROVE ServesAs(job[p], m)'
      <4>1. \A f : <<m, f>> # <<>>
        OBVIOUS
      <4>2. \A i \in job'[p].items : i.to = m => ItsWay(m, KindOf(i))'
        BY <2>1, <3>2 DEF ItsWay
      <4> QED
        BY <3>1, <4>1, <4>2 DEF ServesAs
    <3> QED
      BY <2>1, <3>1, <3>3, <3>4, TurnKeepsWays
  <2> QED
    BY <1>3, <2>2, <2>3, <2>4, <2>5, <2>6, <2>7, <2>8, <2>9 DEF Work
<1> QED
  BY <1>1, <1>2, <1>3 DEF Next

\* A member who does not change the way of being told hears of each tender in
\* one way only (effectiveFreq keeps the instant alerts from digest members).
THEOREM OneWayOrTheOther == Spec => []ToldOneWay
<1>1. Init => TypeOK /\ CapInv /\ Ways
  BY InitTypes, InitCap, InitWays
<1>2. TypeOK /\ CapInv /\ Ways /\ [Next]_vars => (TypeOK /\ CapInv /\ Ways)'
  BY StepTypes, StepCap, StepWays
<1>3. Ways => ToldOneWay
  BY DEF Ways, ToldOneWay, ItsWay
<1> QED
  BY <1>1, <1>2, <1>3, PTL DEF Spec

-----------------------------------------------------------------------------
(* Time, and what is told, only ever grow.                                 *)

Excuses == history.excused
Late == history.late

Ages ==
  /\ heard \subseteq heard' /\ Excuses \subseteq Excuses' /\ Late \subseteq Late'
  /\ time.now <= time'.now /\ time.last <= time'.last
  /\ \A t \in Tenders :
       \/ date'[t] = date[t]
       \/ date[t] = 0 /\ t \in Late'
       \/ /\ date[t] = 0 /\ date'[t] = time'.now /\ time'.now = time.now + 1
          /\ Digesting \X {t} \subseteq Excuses'

LEMMA TimeFacts ==
  ASSUME TypeOK
  PROVE  /\ time.now \in Nat /\ time.last \in Nat /\ time.window \in Nat /\ time.day \in Nat
         /\ history.settled \in Nat
         /\ \A t \in Tenders : date[t] \in Nat
         /\ \A e \in log : e.at \in Nat
BY DEF TypeOK, Dates, Days, Entries

LEMMA StepAges ==
  ASSUME TypeOK, Clocks, [Next]_vars
  PROVE  Ages
<1>0. /\ time \in Times /\ history \in Histories /\ date \in [Tenders -> Nat]
      /\ time.last <= time.now /\ time.now \in Nat /\ time.last \in Nat
  BY TimeFacts DEF TypeOK, Clocks, Dates, Times, Histories
<1>1. CASE UNCHANGED vars
  BY <1>0, <1>1 DEF vars, Ages, Excuses, Late
<1>2. ASSUME NEW t \in Tenders, Publish(t) PROVE Ages
  <2>1. date[t] = 0 /\ heard' = heard
    BY <1>2 DEF Publish
  <2>2. CASE /\ date' = [date EXCEPT ![t] = time.now + 1]
             /\ time' = [time EXCEPT !.now = @ + 1]
             /\ history' = [history EXCEPT !.excused = @ \cup (Digesting \X {t})]
    <3>1. time'.now = time.now + 1 /\ time'.last = time.last
      BY <1>0, <2>2 DEF Times
    <3>2. Excuses' = Excuses \cup (Digesting \X {t}) /\ Late' = Late
      BY <1>0, <2>2 DEF Histories, Excuses, Late
    <3> QED
      BY <1>0, <2>1, <2>2, <3>1, <3>2 DEF Ages
  <2>3. CASE /\ \E d \in 1..time.now : date' = [date EXCEPT ![t] = d]
             /\ time' = time
             /\ history' = [history EXCEPT !.late = @ \cup {t}]
    <3>1. Excuses' = Excuses /\ Late' = Late \cup {t}
      BY <1>0, <2>3 DEF Histories, Excuses, Late
    <3> QED
      BY <1>0, <2>1, <2>3, <3>1 DEF Ages
  <2> QED
    BY <1>2, <2>2, <2>3 DEF Publish
<1>3. ASSUME date' = date, time'.now = time.now, time.last <= time'.last,
             heard \subseteq heard', Excuses \subseteq Excuses', Late \subseteq Late'
      PROVE  Ages
  BY <1>0, <1>3 DEF Ages
<1>4. CASE \/ NextDay \/ \E m \in Members : Switch(m) \/ Pause(m)
  <2>1. date' = date /\ time'.now = time.now /\ time'.last = time.last /\ heard' = heard
    BY <1>0, <1>4 DEF NextDay, Switch, Pause, Times
  <2>2. Excuses' = Excuses /\ Late' = Late
    BY <1>0, <1>4 DEF NextDay, Switch, Pause, Histories, Excuses, Late
  <2> QED
    BY <1>0, <1>3, <2>1, <2>2
<1>5. ASSUME NEW p \in Procs, Work(p) PROVE Ages
  <2>1. date' = date /\ time'.now = time.now /\ time.last <= time'.last
    <3>1. CASE TimerFires(p)
      BY <1>0, <3>1 DEF TimerFires, Times
    <3>2. CASE ~TimerFires(p)
      <4>1. date' = date /\ time' = time
        BY <1>5, <3>2 DEF Work, RunAgain, Visit, Match, Ends, Deliver, Mark, Sent, Fails,
                         AnswerLost, Dies, Published
      <4> QED
        BY <1>0, <4>1 DEF Times
    <3> QED
      BY <3>1, <3>2
  <2>2. heard \subseteq heard'
    BY <1>5 DEF Work, TimerFires, RunAgain, Visit, Match, Ends, Deliver, Mark, Sent, Fails,
                AnswerLost, Dies, Published, Reached
  <2>3. Excuses \subseteq Excuses' /\ Late \subseteq Late'
    <3>1. CASE \/ RunAgain(p) \/ Visit(p) \/ Match(p) \/ Sent(p) \/ AnswerLost(p)
               \/ \E t \in Tenders : Published(p, t)
      BY <3>1 DEF RunAgain, Visit, Match, Sent, AnswerLost, Published, Excuses, Late
    <3>2. CASE TimerFires(p) \/ Deliver(p) \/ Mark(p) \/ Fails(p)
      <4>1. history' = history \/ \E pairs : Excuse(pairs)
        BY <3>2 DEF TimerFires, Deliver, Mark, Fails
      <4> QED
        BY <1>0, <4>1 DEF Excuse, Histories, Excuses, Late
    <3>3. CASE Ends(p)
      BY <1>0, <3>3 DEF Ends, Histories, Excuses, Late
    <3>4. CASE Dies(p)
      <4>1. PICK a, b : history' = [history EXCEPT !.orphans = a, !.excused = @ \cup b]
        BY <3>4 DEF Dies
      <4> QED
        BY <1>0, <4>1 DEF Histories, Excuses, Late
    <3> QED
      BY <1>5, <3>1, <3>2, <3>3, <3>4 DEF Work
  <2> QED
    BY <1>3, <2>1, <2>2, <2>3
<1> QED
  BY <1>1, <1>2, <1>4, <1>5 DEF Next

\* The timer of the daily job, and only it, moves the window.
LEMMA StepWindow ==
  ASSUME TypeOK, [Next]_vars, \A p \in Procs : ~TimerFires(p)
  PROVE  time'.window = time.window /\ time'.last = time.last
<1>0. time \in Times
  BY DEF TypeOK, Times
<1> QED
  BY <1>0 DEF Next, vars, Work, RunAgain, Visit, Match, Ends, Deliver, Mark, Sent, Fails,
         AnswerLost, Dies, Published, NextDay, Publish, Switch, Pause, Times

LEMMA FireForm ==
  ASSUME TypeOK, NEW p \in Procs, TimerFires(p)
  PROVE  /\ ~time.fired /\ time'.fired /\ time'.now = time.now
         /\ time'.window = time.last /\ time'.last = time.now
         /\ date' = date /\ heard' = heard /\ log' = log
         /\ job[p] = Idle /\ job'[p] = DailyRun(TRUE) /\ Others(p)
         /\ Excuses' = Excuses \cup (paused \X PublishedBy(time.now)) /\ Late' = Late
         /\ history'.settled = history.settled
<1>1. time \in Times /\ history \in Histories
  BY DEF TypeOK, Times, Histories
<1>2. job[p] = Idle /\ job'[p] = DailyRun(TRUE) /\ Others(p)
  BY BeginForm DEF TimerFires
<1>3. time' = [time EXCEPT !.fired = TRUE, !.window = time.last, !.last = time.now]
  BY DEF TimerFires
<1>4. /\ time'.fired /\ time'.now = time.now
      /\ time'.window = time.last /\ time'.last = time.now
  BY <1>1, <1>3 DEF Times
<1>5. history' = [history EXCEPT !.excused = @ \cup (paused \X PublishedBy(time.now))]
  BY DEF TimerFires, Excuse
<1>6. /\ Excuses' = Excuses \cup (paused \X PublishedBy(time.now)) /\ Late' = Late
      /\ history'.settled = history.settled
  BY <1>1, <1>5 DEF Histories, Excuses, Late
<1> QED
  BY <1>2, <1>4, <1>6 DEF TimerFires

LEMMA DiesForm ==
  ASSUME TypeOK, NEW p \in Procs, Dies(p)
  PROVE  /\ job[p].op = "daily" => Members \X PublishedBy(time.last) \subseteq Excuses'
         /\ \A i \in job[p].now : job[p].sending # {} \/ KindOf(i) = "digest" =>
              {i.to} \X i.about \subseteq Excuses'
<1>1. history \in Histories
  BY DEF TypeOK, Histories
<1> DEFINE all == IF job[p].op = "daily" THEN Members \X PublishedBy(time.last) ELSE {}
           cut == {j \in job[p].now : job[p].sending # {} \/ KindOf(j) = "digest"}
           each == {{i.to} \X i.about : i \in cut}
<1>2. history' = [history EXCEPT !.orphans = @ \cup Sending(p),
                                 !.excused = @ \cup all \cup UNION each]
  BY DEF Dies
<1> HIDE DEF all, each
<1>3. Excuses' = Excuses \cup all \cup UNION each
  BY <1>1, <1>2 DEF Histories, Excuses
<1>4. job[p].op = "daily" => Members \X PublishedBy(time.last) \subseteq Excuses'
  BY <1>3 DEF all
<1>5. ASSUME NEW i \in job[p].now, job[p].sending # {} \/ KindOf(i) = "digest"
      PROVE  {i.to} \X i.about \subseteq Excuses'
  <2>1. {i.to} \X i.about \in each
    BY <1>5 DEF each
  <2> QED
    BY <1>3, <2>1
<1> QED
  BY <1>4, <1>5

LEMMA ExcuseForm ==
  ASSUME TypeOK, NEW pairs, Excuse(pairs)
  PROVE  Excuses' = Excuses \cup pairs
BY DEF Excuse, TypeOK, Excuses

\* What is asked is asked for ever, at its date.
LEMMA AskedStays ==
  ASSUME TypeOK, Clocks, Ages, NEW t \in Asked(time.now)
  PROVE  t \in Tenders /\ date[t] # 0 /\ date'[t] = date[t]
BY DEF Asked, PublishedBy, Ages, Dates

LEMMA AskedBefore ==
  ASSUME TypeOK, Clocks, Ages, NEW d \in Nat, NEW t, t \in Asked(d)'
  PROVE  \/ t \in Asked(d)
         \/ date'[t] = time.now + 1 /\ time'.now = time.now + 1 /\ Digesting \X {t} \subseteq Excuses'
<1>1. t \in Tenders /\ t \notin Late' /\ date'[t] \in 1..d
  BY DEF Asked, PublishedBy, Late
<1>2. CASE date'[t] = date[t]
  BY <1>1, <1>2 DEF Asked, PublishedBy, Ages, Late
<1> QED
  BY <1>1, <1>2 DEF Ages

LEMMA AskedLess ==
  ASSUME TypeOK, Clocks
  PROVE  /\ Asked(time.window) \subseteq Asked(time.last)
         /\ Asked(time.last) \subseteq Asked(time.now)
         /\ \A t \in Asked(time.now) : t \in Asked(time.last) <=> date[t] <= time.last
         /\ \A t \in Asked(time.now) : t \in Asked(time.window) <=> date[t] <= time.window
BY TimeFacts DEF Asked, PublishedBy, Clocks

LEMMA WorkAlone ==
  ASSUME TypeOK, NEW p \in Procs, Work(p)
  PROVE  Others(p)
<1>1. \A j : job' = [job EXCEPT ![p] = j] => Others(p)
  BY JobFacts DEF Others
<1>2. CASE Visit(p)
  BY <1>2, VisitForm
<1>3. CASE Match(p)
  BY <1>3, MatchForm
<1>4. CASE Mark(p)
  <2>1. \/ Onward(p)
        \/ \E c : job' = [job EXCEPT ![p].sending = {c}]
    BY <1>4 DEF Mark
  <2> QED
    BY <1>1, <2>1, JobFacts DEF Onward, Others
<1>5. CASE ~(Visit(p) \/ Match(p) \/ Mark(p))
  BY <1>1, <1>5 DEF Work, TimerFires, RunAgain, Begin, Ends, Deliver, Sent, Fails,
        AnswerLost, Dies, Published, Onward
<1> QED
  BY <1>2, <1>3, <1>4, <1>5

\* Who acts when something changes in a job.
LEMMA Actors ==
  ASSUME TypeOK, [Next]_vars
  PROVE  \/ job' = job /\ log' = log /\ heard' = heard /\ time'.last = time.last
         \/ \E p \in Procs : Work(p) /\ Others(p)
<1>1. \A p \in Procs : Work(p) => Others(p)
  BY WorkAlone
<1>2. CASE UNCHANGED vars \/ NextDay \/ (\E t \in Tenders : Publish(t))
           \/ (\E m \in Members : Switch(m) \/ Pause(m))
  BY <1>2 DEF vars, NextDay, Publish, Switch, Pause, TypeOK
<1> QED
  BY <1>1, <1>2 DEF Next

\* What is in hand for a single tender goes on, is heard, or is excused.
LEMMA InHandStays ==
  ASSUME TypeOK, CapInv, ItemsSane, Clocks, Ages, [Next]_vars,
         NEW m \in Members, NEW t \in Tenders, NEW c \in Channels, InHandNew(m, t, c)
  PROVE  \/ InHandNew(m, t, c)' \/ HeardOn(m, t, c)'
         \/ Excused(m, t)'
         \/ /\ date[t] = 0 \/ date[t] > time.last
            /\ log' = Unmarked(<<m, <<"new", t>>, c>>)
<1>0. PICK p \in Procs :
        \E i \in job[p].now : i.to = m /\ i.subject = <<"new", t>> /\ c \in job[p].sending
  BY DEF InHandNew
<1>1. PICK i \in job[p].now : i.to = m /\ i.subject = <<"new", t>> /\ c \in job[p].sending
  BY <1>0
<1>2. KindOf(i) = "new" /\ i.about = {t} /\ KeyOf(i, c) = <<m, <<"new", t>>, c>>
  <2>1. KindOf(i) = "new" /\ i.subject[2] = t /\ KeyOf(i, c) = <<m, <<"new", t>>, c>>
    BY <1>1 DEF KindOf, KeyOf
  <2> QED
    BY <2>1 DEF ItemsSane, Held
<1>3. CASE job'[p] = job[p]
  BY <1>1, <1>3 DEF InHandNew
<1>4. CASE Sent(p) \/ Fails(p) \/ AnswerLost(p)
  <2>1. PICK k \in Items, d \in Channels :
          /\ job[p].now = {k} /\ job[p].sending = {d}
          /\ \/ Reached(k, d)
             \/ /\ log' = Unmarked(KeyOf(k, d))
                /\ Excuse({k.to} \X (IF KindOf(k) = "digest" THEN k.about
                                     ELSE k.about \cap PublishedBy(time.last)))
    BY <1>4, LandForm
  <2>2. k = i /\ d = c
    BY <1>1, <2>1
  <2>3. CASE Reached(i, c)
    BY <1>1, <1>2, <2>3, ReachedForm DEF HeardOn
  <2>4. CASE /\ log' = Unmarked(KeyOf(i, c))
             /\ Excuse({i.to} \X (i.about \cap PublishedBy(time.last)))
    <3>1. CASE t \in PublishedBy(time.last)
      BY <1>1, <1>2, <2>4, <3>1, ExcuseForm DEF Excused, Excuses
    <3>2. CASE t \notin PublishedBy(time.last)
      BY <1>2, <2>4, <3>2, TimeFacts DEF PublishedBy
    <3> QED
      BY <3>1, <3>2
  <2> QED
    BY <1>2, <2>1, <2>2, <2>3, <2>4
<1>5. CASE Dies(p)
  BY <1>1, <1>2, <1>5, DiesForm DEF Excused, Excuses
<1>6. ASSUME Work(p), ~(Sent(p) \/ Fails(p) \/ AnswerLost(p)), ~Dies(p) PROVE FALSE
  <2>1. job[p] # Idle /\ job[p].now # {} /\ job[p].sending # {}
    BY <1>1 DEF Idle
  <2> QED
    BY <1>6, <2>1 DEF Work, TimerFires, RunAgain, Begin, Visit, Match, Ends, Deliver, Mark, Published
<1> QED
  BY <1>3, <1>4, <1>5, <1>6, Actors DEF Others

LEMMA KnownStays ==
  ASSUME TypeOK, CapInv, ItemsSane, Clocks, Ages, [Next]_vars,
         NEW m \in Members, NEW t \in Asked(time.now), NEW c \in Channels, Known(m, t, c)
  PROVE  Known(m, t, c)' \/ Excused(m, t)'
<1>1. t \in Tenders /\ date[t] # 0 /\ date'[t] = date[t]
  BY AskedStays
<1>2. CASE HeardOn(m, t, c)
  BY <1>2 DEF Known, HeardOn, Ages
<1>3. CASE date[t] <= time.last /\ InHandNew(m, t, c)
  <2>1. date'[t] <= time'.last
    BY <1>1, <1>3, TimeFacts, StepTypes DEF Ages, TypeOK, Dates
  <2>2. ~(date[t] = 0 \/ date[t] > time.last)
    BY <1>1, <1>3, TimeFacts
  <2>3. InHandNew(m, t, c)' \/ HeardOn(m, t, c)' \/ Excused(m, t)'
    BY <1>1, <1>3, <2>2, InHandStays
  <2> QED
    BY <2>1, <2>3 DEF Known
<1> QED
  BY <1>2, <1>3 DEF Known

LEMMA ToldStays ==
  ASSUME TypeOK, CapInv, ItemsSane, Clocks, Ages, [Next]_vars,
         NEW m \in Members, NEW t \in Asked(time.now), Told(m, t)
  PROVE  Told(m, t)'
<1>1. CASE Excused(m, t)
  BY <1>1 DEF Told, Excused, Ages, Excuses
<1>2. ASSUME NEW c \in UNION Alerts[m], Known(m, t, c) PROVE Known(m, t, c)' \/ Excused(m, t)'
  <2>1. c \in Channels
    BY TenderAssumption
  <2> QED
    BY <1>2, <2>1, KnownStays
<1> QED
  BY <1>1, <1>2 DEF Told

\* Whose run it is after a step.
LEMMA KindForm ==
  ASSUME TypeOK, CapInv, NEW p \in Procs, Work(p)
  PROVE  /\ job'[p].op = "daily" => job[p].op = "daily" \/ TimerFires(p) \/ RunAgain(p)
         /\ job'[p].timer => job[p].timer \/ TimerFires(p)
         /\ Ends(p) \/ Dies(p) => ~job'[p].timer
         /\ job[p].op = "daily" /\ ~Ends(p) /\ ~Dies(p) =>
              job'[p].op = "daily" /\ job'[p].timer = job[p].timer
<1>0. Idle.op = "idle" /\ Idle.timer = FALSE
  BY DEF Idle
<1>1. CASE TimerFires(p)
  BY <1>0, <1>1, FireForm, LeaveForm
<1>2. CASE RunAgain(p)
  <2>1. job[p] = Idle /\ job'[p] = DailyRun(FALSE)
    BY <1>2, BeginForm DEF RunAgain
  <2>2. DailyRun(FALSE).timer = FALSE
    BY DailyRunForm
  <2> QED
    BY <1>0, <1>2, <2>1, <2>2, LeaveForm
<1>3. CASE \E t \in Tenders : Published(p, t)
  BY <1>0, <1>3, PublishedForm, LeaveForm
<1>4. CASE Visit(p)
  BY <1>0, <1>4, VisitForm, LeaveForm
<1>5. CASE Match(p)
  BY <1>0, <1>5, MatchForm, LeaveForm
<1>6. CASE Ends(p) \/ Dies(p)
  BY <1>0, <1>6, LeaveForm
<1>7. CASE Deliver(p)
  <2>1. SameRun(p)
    BY <1>7, DeliverForm
  <2> QED
    BY <1>0, <2>1, LeaveForm DEF SameRun
<1>8. CASE Mark(p)
  <2>1. SameRun(p)
    BY <1>8, MarkForm
  <2> QED
    BY <1>0, <2>1, LeaveForm DEF SameRun
<1>9. CASE Sent(p) \/ Fails(p) \/ AnswerLost(p)
  <2>1. SameRun(p)
    BY <1>9, LandForm
  <2> QED
    BY <1>0, <2>1, LeaveForm DEF SameRun
<1> QED
  BY <1>1, <1>2, <1>3, <1>4, <1>5, <1>6, <1>7, <1>8, <1>9 DEF Work

LEMMA StepOneDaily ==
  ASSUME TypeOK, CapInv, OneDaily, [Next]_vars
  PROVE  OneDaily'
<1>1. CASE UNCHANGED vars \/ (\E t \in Tenders : Publish(t))
           \/ (\E m \in Members : Switch(m) \/ Pause(m))
  <2>1. job' = job /\ time'.fired = time.fired
    BY <1>1 DEF vars, Publish, Switch, Pause, TypeOK
  <2> QED
    BY <2>1 DEF OneDaily
<1>2. CASE NextDay
  <2>1. job' = job /\ \A p \in Procs : job[p].op = "idle"
    BY <1>2 DEF NextDay, Idle
  <2> QED
    BY <2>1 DEF OneDaily
<1>3. ASSUME NEW p \in Procs, Work(p), Others(p) PROVE OneDaily'
  <2>1. CASE TimerFires(p)
    <3>1. time'.fired /\ \A q \in Procs : job[q].op # "daily" /\ ~job[q].timer
      BY <2>1, FireForm DEF OneDaily
    <3>2. job'[p].op = "daily"
      BY <2>1, FireForm, DailyRunForm
    <3> QED
      BY <1>3, <3>1, <3>2 DEF OneDaily, Others
  <2>2. CASE RunAgain(p)
    <3>1. time'.fired /\ \A q \in Procs : job[q].op # "daily" /\ ~job[q].timer
      BY <2>2 DEF RunAgain, OneDaily
    <3>2. job'[p].op = "daily"
      BY <2>2, BeginForm, DailyRunForm DEF RunAgain
    <3> QED
      BY <1>3, <3>1, <3>2 DEF OneDaily, Others
  <2>3. CASE ~TimerFires(p) /\ ~RunAgain(p)
    <3>1. time' = time
      BY <1>3, <2>3 DEF Work, Visit, Match, Ends, Deliver, Mark, Sent, Fails, AnswerLost, Dies,
                        Published
    <3>2. /\ job'[p].op = "daily" => job[p].op = "daily"
          /\ job'[p].timer => job[p].timer
          /\ Ends(p) \/ Dies(p) => ~job'[p].timer
          /\ job[p].op = "daily" /\ ~Ends(p) /\ ~Dies(p) => job'[p].op = "daily"
      BY <1>3, <2>3, KindForm
    <3>3. job'[p].timer => job'[p].op = "daily"
      BY <3>2 DEF OneDaily
    <3> QED
      BY <1>3, <3>1, <3>2, <3>3 DEF OneDaily, Others
  <2> QED
    BY <2>1, <2>2, <2>3
<1>4. \A p \in Procs : Work(p) => Others(p)
  BY WorkAlone
<1> QED
  BY <1>1, <1>2, <1>3, <1>4 DEF Next

\* A new row of the log is that of a message in hand.
LEMMA LogForm ==
  ASSUME TypeOK, CapInv, [Next]_vars, NEW e \in log' \ log
  PROVE  \E p \in Procs : \E i \in job'[p].now :
           Mark(p) /\ \E c : e.key = KeyOf(i, c) /\ job'[p].sending = {c} /\ e.at = time.now
<1>1. ASSUME NEW p \in Procs, Mark(p)
      PROVE  \E i \in job'[p].now :
               \E c : e.key = KeyOf(i, c) /\ job'[p].sending = {c} /\ e.at = time.now
  <2>1. PICK i : LET c == First(job[p].left)
                     k == KeyOf(i, c)
                 IN  /\ job[p].now = {i}
                     /\ \/ /\ log' = log \cup {[key |-> k, day |-> time.day, at |-> time.now]}
                           /\ job'[p].now = job[p].now
                           /\ job'[p].sending = {c}
                        \/ log' = log
    BY <1>1, MarkForm
  <2> QED
    BY <2>1
<1>2. ASSUME NEW p \in Procs, Work(p), ~Mark(p) PROVE log' \subseteq log
  BY <1>2 DEF Work, TimerFires, RunAgain, Visit, Match, Ends, Deliver, Sent, Fails, AnswerLost,
              Dies, Published, Unmarked
<1>3. CASE UNCHANGED vars \/ NextDay \/ (\E t \in Tenders : Publish(t))
           \/ (\E m \in Members : Switch(m) \/ Pause(m))
  BY <1>3 DEF vars, NextDay, Publish, Switch, Pause
<1> QED
  BY <1>1, <1>2, <1>3 DEF Next

LEMMA StepClocks ==
  ASSUME TypeOK, TypeOK', CapInv, OneDaily, OneDaily', Clocks, [Next]_vars
  PROVE  Clocks'
<1>0. /\ time.now \in Nat /\ time.last \in Nat /\ time.window \in Nat /\ history.settled \in Nat
      /\ time'.now \in Nat /\ time'.last \in Nat /\ time'.window \in Nat
      /\ \A t \in Tenders : date[t] \in Nat
      /\ \A e \in log : e.at \in Nat
      /\ \A e \in log' : e.at \in Nat
  BY TimeFacts DEF TypeOK, Dates, Entries
<1>1. Ages
  BY StepAges
<1>2. time'.window <= time'.last /\ time'.last <= time'.now
  <2>1. ASSUME NEW p \in Procs, TimerFires(p)
        PROVE  time'.window <= time'.last /\ time'.last <= time'.now
    <3>1. time'.window = time.last /\ time'.last = time.now /\ time'.now = time.now
      BY <2>1, FireForm
    <3>2. time.last <= time.now
      BY DEF Clocks
    <3> QED
      BY <1>0, <3>1, <3>2
  <2>2. CASE \A p \in Procs : ~TimerFires(p)
    BY <1>0, <1>1, <2>2, StepWindow DEF Clocks, Ages
  <2> QED
    BY <2>1, <2>2
<1>3. ASSUME NEW t \in Tenders PROVE date'[t] <= time'.now
  <2>1. CASE date'[t] = date[t]
    BY <1>0, <1>1, <2>1 DEF Clocks, Ages
  <2>2. CASE date[t] = 0 /\ date'[t] # 0
    <3>1. PICK n \in Tenders : Publish(n)
      BY <2>2 DEF Next, vars, Work, TimerFires, RunAgain, Visit, Match, Ends, Deliver, Mark, Sent,
           Fails, AnswerLost, Dies, Published, NextDay, Switch, Pause
    <3>2. CASE date' = [date EXCEPT ![n] = time.now + 1] /\ time' = [time EXCEPT !.now = @ + 1]
      <4>1. time'.now = time.now + 1
        BY <3>2 DEF TypeOK
      <4> QED
        BY <1>0, <2>2, <3>2, <4>1 DEF TypeOK
    <3>3. CASE (\E d \in 1..time.now : date' = [date EXCEPT ![n] = d]) /\ time' = time
      BY <1>0, <2>2, <3>3 DEF TypeOK
    <3> QED
      BY <3>1, <3>2, <3>3 DEF Publish
  <2> QED
    BY <1>0, <1>1, <2>1, <2>2 DEF Ages
<1>4. ASSUME NEW e \in log' PROVE e.at <= time'.now
  <2>1. CASE e \in log
    BY <1>0, <1>1, <2>1 DEF Clocks, Ages
  <2>2. CASE e \notin log
    BY <1>0, <1>1, <2>2, LogForm DEF Ages
  <2> QED
    BY <2>1, <2>2
<1>5. history'.settled <= time'.window \/ (history'.settled = time'.last /\ NoTimer')
  <2>1. ASSUME NEW p \in Procs, TimerFires(p)
        PROVE  history'.settled <= time'.window
    <3>1. time'.window = time.last /\ history'.settled = history.settled
      BY <2>1, FireForm
    <3> QED
      BY <1>0, <3>1 DEF Clocks
  <2>2. ASSUME \A p \in Procs : ~TimerFires(p), ~ \E p \in Procs : Ends(p)
        PROVE  history'.settled <= time'.window \/ (history'.settled = time'.last /\ NoTimer')
    <3>1. time'.window = time.window /\ time'.last = time.last
      BY <2>2, StepWindow
    <3>2. history'.settled = history.settled
      <4>1. \/ history' = history
            \/ \E pairs : Excuse(pairs)
            \/ \E a, b : history' = [history EXCEPT !.orphans = a, !.excused = b]
            \/ \E a : history' = [history EXCEPT !.excused = a]
            \/ \E a : history' = [history EXCEPT !.late = a]
            \/ \E a : history' = [history EXCEPT !.switched = a]
        BY <2>2 DEF Next, vars, Work, RunAgain, Visit, Match, Deliver, Mark, Sent,
             Fails, AnswerLost, Dies, Published, NextDay, Publish, Switch, Pause
      <4> QED
        BY <4>1 DEF Excuse, TypeOK
    <3>3. NoTimer => NoTimer'
      <4>1. CASE job' = job
        BY <4>1 DEF NoTimer
      <4>2. ASSUME NEW p \in Procs, Work(p), Others(p), NoTimer PROVE NoTimer'
        BY <2>2, <4>2, KindForm DEF NoTimer, Others
      <4> QED
        BY <4>1, <4>2, Actors
    <3> QED
      BY <3>1, <3>2, <3>3 DEF Clocks
  <2>3. ASSUME NEW p \in Procs, Ends(p)
        PROVE  history'.settled <= time'.window \/ (history'.settled = time'.last /\ NoTimer')
    <3>1. time' = time /\ job'[p] = Idle /\ Others(p) /\ job[p].op = "daily" /\ job[p].timer \in BOOLEAN
      BY <2>3, LeaveForm, JobFacts DEF Ends, Jobs
    <3>2. NoTimer'
      <4>1. \A q \in Procs : q # p => job[q].op # "daily" /\ ~job[q].timer
        BY <3>1 DEF OneDaily
      <4> QED
        BY <3>1, <4>1 DEF NoTimer, Others, Idle
    <3>3. CASE job[p].timer
      <4>1. history' = [history EXCEPT !.settled = time.last]
        BY <2>3, <3>3 DEF Ends
      <4> QED
        BY <3>1, <3>2, <4>1 DEF TypeOK
    <3>4. CASE ~job[p].timer
      BY <2>3, <3>1, <3>2, <3>4 DEF Ends, Clocks
    <3> QED
      BY <3>3, <3>4
  <2> QED
    BY <2>1, <2>2, <2>3
<1> QED
  BY <1>2, <1>3, <1>4, <1>5 DEF Clocks

LEMMA StepItemsSane ==
  ASSUME TypeOK, CapInv, ItemsSane, [Next]_vars
  PROVE  ItemsSane'
<1> DEFINE Sane(p) ==
      /\ job'[p].items \cap job'[p].now = {}
      /\ \A i \in Held(p)' :
           /\ KindOf(i) = "new" => i.about = {i.subject[2]}
           /\ KindOf(i) = "digest" => job'[p].op = "daily" /\ i.by = UNION Alerts[i.to]
<1>1. ASSUME NEW p \in Procs, job'[p] = job[p] PROVE Sane(p)
  BY <1>1 DEF ItemsSane, Held
<1>2. ASSUME NEW p \in Procs, job'[p].items \cap job'[p].now = {}, Held(p)' \subseteq Held(p),
             job[p].op = "daily" => job'[p].op = "daily"
      PROVE  Sane(p)
  BY <1>2 DEF ItemsSane
<1>3. ASSUME NEW p \in Procs, Work(p) PROVE Sane(p)
  <2>1. CASE Deliver(p)
    <3>1. PICK i \in job[p].items :
            /\ job[p].now = {} /\ SameRun(p) /\ job'[p].items = job[p].items \ {i}
            /\ job'[p].now = {} \/ job'[p].now = {i}
      BY <2>1, DeliverForm
    <3>2. Held(p)' \subseteq Held(p)
      BY <3>1 DEF Held
    <3> QED
      BY <1>2, <3>1, <3>2 DEF SameRun
  <2>2. CASE Mark(p)
    <3>1. SameRun(p) /\ job'[p].items = job[p].items
      BY <2>2, MarkForm
    <3>2. job'[p].now \subseteq job[p].now
      BY <2>2, MarkForm, OnwardForm
    <3> QED
      BY <1>2, <3>1, <3>2 DEF SameRun, Held, ItemsSane
  <2>3. CASE Sent(p) \/ Fails(p) \/ AnswerLost(p)
    <3>1. PICK i \in Items :
            /\ job[p].now = {i} /\ SameRun(p) /\ job'[p].items = job[p].items
            /\ job'[p].now = {} \/ job'[p].now = {i}
      BY <2>3, LandForm
    <3> QED
      BY <1>2, <3>1 DEF SameRun, Held, ItemsSane
  <2>4. CASE TimerFires(p) \/ RunAgain(p) \/ Ends(p) \/ Dies(p)
    <3>1. job'[p].items = {} /\ job'[p].now = {}
      <4>1. CASE \E timer : Begin(p, DailyRun(timer))
        BY <4>1, BeginForm, DailyRunForm
      <4>2. CASE Ends(p) \/ Dies(p)
        BY <4>2, LeaveForm DEF Idle
      <4> QED
        BY <2>4, <4>1, <4>2 DEF TimerFires, RunAgain
    <3> QED
      BY <3>1 DEF Held
  <2>5. CASE Visit(p)
    <3>1. PICK r, T : job'[p].now = {} /\ job'[p].items = ItemsOf({r[1]}, "reminder", T)
      BY <2>5, VisitForm
    <3>2. \A i \in job'[p].items : KindOf(i) = "reminder"
      BY <3>1, ItemsOfForm
    <3> QED
      BY <3>1, <3>2 DEF Held
  <2>6. CASE Match(p)
    <3> DEFINE m == job[p].who[1]
    <3>1. /\ job'[p].now = {} /\ job'[p].op = "daily"
          /\ job'[p].items = DigestItems(m) \/ job'[p].items = CatchUpItems(m)
      BY <2>6, MatchForm
    <3>2. \A i \in DigestItems(m) : i.to = m /\ KindOf(i) = "digest" /\ i.by = UNION Alerts[m]
      BY DigestForm
    <3>3. \A i \in CatchUpItems(m) : KindOf(i) = "new" /\ i.about = {i.subject[2]}
      BY ItemsOfForm DEF CatchUpItems
    <3> HIDE DEF m
    <3> QED
      BY <3>1, <3>2, <3>3 DEF Held
  <2>7. ASSUME NEW t \in Tenders, Published(p, t) PROVE Sane(p)
    <3>1. PICK M : job'[p].now = {} /\ job'[p].items = ItemsOf(M, "new", {t})
      BY <2>7, PublishedForm
    <3>2. \A i \in job'[p].items : KindOf(i) = "new" /\ i.about = {i.subject[2]}
      BY <3>1, ItemsOfForm
    <3> QED
      BY <3>1, <3>2 DEF Held
  <2> QED
    BY <1>3, <2>1, <2>2, <2>3, <2>4, <2>5, <2>6, <2>7 DEF Work
<1>4. \A p \in Procs : Sane(p)
  BY <1>1, <1>3, Actors DEF Others
<1> QED
  BY <1>4 DEF ItemsSane

LEMMA StepLoggedIsKnown ==
  ASSUME TypeOK, CapInv, Clocks, ItemsSane, LoggedIsKnown, [Next]_vars
  PROVE  LoggedIsKnown'
<1> SUFFICES ASSUME NEW m \in Members, NEW t \in Tenders, NEW c \in Channels,
                    Logged(<<m, <<"new", t>>, c>>)'
             PROVE  HeardOn(m, t, c)' \/ InHandNew(m, t, c)' \/ Excused(m, t)'
  BY DEF LoggedIsKnown
<1>0. Ages
  BY StepAges
<1>1. PICK e \in log' : e.key = <<m, <<"new", t>>, c>>
  BY DEF Logged
<1>2. CASE e \notin log
  <2>1. PICK p \in Procs : \E i \in job'[p].now :
          \E d : e.key = KeyOf(i, d) /\ job'[p].sending = {d}
    BY <1>2, LogForm
  <2>2. PICK i \in job'[p].now : \E d : e.key = KeyOf(i, d) /\ job'[p].sending = {d}
    BY <2>1
  <2>3. i.to = m /\ i.subject = <<"new", t>> /\ job'[p].sending = {c}
    BY <1>1, <2>2 DEF KeyOf
  <2> QED
    BY <2>3 DEF InHandNew
<1>3. CASE e \in log
  <2>1. HeardOn(m, t, c) \/ InHandNew(m, t, c) \/ Excused(m, t)
    BY <1>1, <1>3 DEF LoggedIsKnown, Logged
  <2>2. CASE HeardOn(m, t, c)
    BY <1>0, <2>2 DEF HeardOn, Ages
  <2>3. CASE Excused(m, t)
    BY <1>0, <2>3 DEF Excused, Ages, Excuses
  <2>4. CASE InHandNew(m, t, c)
    <3>1. log' # Unmarked(<<m, <<"new", t>>, c>>)
      BY <1>1 DEF Unmarked
    <3> QED
      BY <1>0, <2>4, <3>1, InHandStays
  <2> QED
    BY <2>1, <2>2, <2>3, <2>4
<1> QED
  BY <1>2, <1>3

\* What a daily run holds is pursued until it is heard or excused; only a
\* digest of what came after the timer may be dropped.
LEMMA PendingStays ==
  ASSUME TypeOK, CapInv, Clocks, ItemsSane, LoggedIsKnown, Ages, [Next]_vars,
         NEW p \in Procs, job[p].op = "daily", NEW i \in Held(p), KindOf(i) # "reminder",
         NEW t \in i.about, t \in Asked(time.now), KindOf(i) = "digest" \/ date[t] <= time.last,
         NEW c \in Channels, Pending(p, i, c)
  PROVE  \/ i \in Held(p)' /\ Pending(p, i, c)'
         \/ Known(i.to, t, c)' \/ Excused(i.to, t)'
         \/ date[t] > time.last /\ i \in job[p].items /\ i \notin Held(p)'
<1>0. /\ i.to \in Members /\ t \in Tenders /\ i \in Items
      /\ date[t] # 0 /\ date[t] \in Nat /\ time.last \in Nat
      /\ \A q \in Procs : \A a, b \in job[q].now : a = b
  BY JobFacts, TimeFacts, AskedStays
<1>1. date[t] <= time.last => t \in PublishedBy(time.last)
  BY <1>0 DEF PublishedBy
<1>2. CASE job'[p] = job[p]
  BY <1>2 DEF Held, Pending
<1>3. CASE Deliver(p)
  <2>1. PICK k \in job[p].items :
          /\ job[p].now = {} /\ job'[p].items = job[p].items \ {k}
          /\ \/ k.by = {} /\ job'[p].now = {}
             \/ k.by # {} /\ job'[p].now = {k} /\ job'[p].left = k.by
             \/ job'[p].now = {} /\ Excuse(Dropped(p, k))
    BY <1>3, DeliverForm
  <2>2. CASE k # i
    BY <2>1, <2>2 DEF Held, Pending
  <2>3. CASE k = i
    <3>1. i \in job[p].items /\ c \in i.by
      BY <2>1 DEF Pending
    <3>2. CASE job'[p].now = {k} /\ job'[p].left = k.by
      BY <2>3, <3>1, <3>2 DEF Held, Pending
    <3>3. CASE job'[p].now = {} /\ Excuse(Dropped(p, k))
      <4>1. CASE date[t] <= time.last
        <5>1. <<i.to, t>> \in Dropped(p, k)
          BY <1>1, <2>3, <4>1 DEF Dropped
        <5> QED
          BY <3>3, <5>1, ExcuseForm DEF Excused, Excuses
      <4>2. CASE date[t] > time.last
        BY <2>1, <2>3, <3>1, <3>3, <4>2 DEF Held
      <4> QED
        BY <1>0, <4>1, <4>2
    <3> QED
      BY <2>1, <2>3, <3>1, <3>2, <3>3
  <2> QED
    BY <2>2, <2>3
<1>4. CASE Mark(p)
  <2> DEFINE d == First(job[p].left)
  <2>1. PICK k : /\ job[p].now = {k} /\ job'[p].items = job[p].items
                 /\ \/ job'[p].now = job[p].now /\ job'[p].left = job[p].left
                    \/ /\ Logged(KeyOf(k, d)) /\ Onward(p)
                       /\ Excuse(IF KindOf(k) = "digest" THEN {k.to} \X k.about ELSE {})
    BY <1>4, MarkForm
  <2>2. CASE i \in job[p].items
    BY <2>1, <2>2 DEF Held, Pending, ItemsSane
  <2>3. CASE job'[p].now = job[p].now /\ job'[p].left = job[p].left
    BY <2>1, <2>3 DEF Held, Pending
  <2>4. CASE /\ i \in job[p].now /\ i \notin job[p].items
             /\ Logged(KeyOf(k, d)) /\ Onward(p)
             /\ Excuse(IF KindOf(k) = "digest" THEN {k.to} \X k.about ELSE {})
    <3>1. i = k /\ c \in job[p].left
      BY <2>1, <2>4 DEF Pending
    <3>2. CASE c # d
      <4>1. job'[p].now = job[p].now /\ job'[p].left = job[p].left \ {d}
        BY <2>4, <3>1, <3>2, OnwardForm
      <4> QED
        BY <2>4, <3>1, <3>2, <4>1 DEF Held, Pending
    <3>3. CASE c = d /\ KindOf(i) = "digest"
      BY <2>4, <3>1, <3>3, ExcuseForm DEF Excused, Excuses
    <3>4. CASE c = d /\ KindOf(i) # "digest" /\ date[t] <= time.last
      <4>1. i.subject = <<"new", t>>
        <5>1. i.subject \in {"new", "reminder"} \X Tenders /\ i.subject[1] = "new"
          BY <1>0, <3>4 DEF Items, Subjects, KindOf
        <5>2. i.subject[2] = t
          BY <5>1 DEF ItemsSane, KindOf
        <5> QED
          BY <5>1, <5>2
      <4>2. Logged(<<i.to, <<"new", t>>, c>>)
        BY <2>4, <3>1, <3>4, <4>1 DEF KeyOf
      <4>3. Known(i.to, t, c) \/ Excused(i.to, t)
        BY <1>0, <3>4, <4>2 DEF LoggedIsKnown, Known
      <4>4. CASE Known(i.to, t, c)
        BY <1>0, <4>4, KnownStays
      <4>5. CASE Excused(i.to, t)
        BY <4>5 DEF Excused, Excuses, Ages
      <4> QED
        BY <4>3, <4>4, <4>5
    <3> QED
      BY <3>2, <3>3, <3>4
  <2> QED
    BY <2>1, <2>2, <2>3, <2>4 DEF Held
<1>5. CASE Sent(p) \/ Fails(p) \/ AnswerLost(p)
  <2> DEFINE d == First(job[p].left)
             left == job[p].left \ {d}
  <2>1. PICK k \in Items :
          /\ job[p].now = {k} /\ job'[p].items = job[p].items
          /\ \/ left = {} /\ job'[p].now = {}
             \/ left # {} /\ job'[p].now = {k} /\ job'[p].left = left
          /\ \/ Reached(k, d)
             \/ Excuse({k.to} \X (IF KindOf(k) = "digest" THEN k.about
                                  ELSE k.about \cap PublishedBy(time.last)))
    BY <1>5, LandForm
  <2> HIDE DEF d
  <2>2. CASE i \in job[p].items
    BY <2>1, <2>2 DEF Held, Pending, ItemsSane
  <2>3. CASE i \in job[p].now /\ i \notin job[p].items
    <3>1. i = k /\ c \in job[p].left
      BY <2>1, <2>3 DEF Pending
    <3>2. CASE c # d
      BY <2>1, <3>1, <3>2 DEF Held, Pending
    <3>3. CASE c = d /\ Reached(k, d)
      <4>1. <<i.to, t, KindOf(i), c>> \in heard'
        BY <3>1, <3>3, ReachedForm
      <4>2. KindOf(i) \in {"new", "digest"}
        BY <1>0 DEF Items, Subjects, KindOf
      <4> QED
        BY <4>1, <4>2 DEF Known, HeardOn
    <3>4. CASE /\ c = d
               /\ Excuse({k.to} \X (IF KindOf(k) = "digest" THEN k.about
                                    ELSE k.about \cap PublishedBy(time.last)))
      BY <1>1, <3>1, <3>4, ExcuseForm DEF Excused, Excuses
    <3> QED
      BY <2>1, <3>2, <3>3, <3>4
  <2> QED
    BY <2>2, <2>3 DEF Held
<1>6. CASE Dies(p)
  <2>1. /\ Members \X PublishedBy(time.last) \subseteq Excuses'
        /\ i \in job[p].now /\ KindOf(i) = "digest" => {i.to} \X i.about \subseteq Excuses'
    BY <1>6, DiesForm
  <2>2. CASE date[t] <= time.last
    BY <1>0, <1>1, <2>1, <2>2 DEF Excused, Excuses
  <2>3. CASE date[t] > time.last /\ i \in job[p].now
    BY <1>0, <2>1, <2>3 DEF Excused, Excuses
  <2>4. CASE date[t] > time.last /\ i \in job[p].items
    <3>1. job'[p].items = {} /\ job'[p].now = {}
      BY <1>6, LeaveForm DEF Idle
    <3> QED
      BY <2>4, <3>1 DEF Held
  <2> QED
    BY <1>0, <2>2, <2>3, <2>4 DEF Held
<1>7. ASSUME Work(p), ~(Deliver(p) \/ Mark(p) \/ Sent(p) \/ Fails(p) \/ AnswerLost(p) \/ Dies(p))
      PROVE  FALSE
  <2>1. job[p] # Idle /\ ~(job[p].items = {} /\ job[p].now = {})
    BY DEF Idle, Held
  <2> QED
    BY <1>7, <2>1 DEF Work, TimerFires, RunAgain, Begin, Visit, Match, Ends, Published
<1> QED
  BY <1>2, <1>3, <1>4, <1>5, <1>6, <1>7, Actors DEF Others

\* A set of dates has a soonest one.
LEMMA SoonestDate ==
  ASSUME NEW S \in SUBSET Nat, S # {}
  PROVE  \E d \in S : \A e \in S : d <= e
<1> DEFINE R == {ss \in Nat \X Nat : ss[1] < ss[2]}
<1>1. IsWellFoundedOn(R, Nat)
  BY NatLessThanWellFounded, Zenon DEF OpToRel
<1>2. \A e, d \in Nat : e < d => <<e, d>> \in R
  OBVIOUS
<1> HIDE DEF R
<1>3. PICK d \in S : \A e \in S : ~ (<<e, d>> \in R)
  BY <1>1, WFMin
<1>4. ASSUME NEW e \in S PROVE d <= e
  <2>1. ~ (e < d) /\ e \in Nat /\ d \in Nat
    BY <1>2, <1>3
  <2> QED
    BY <2>1
<1> QED
  BY <1>4

\* lastDigestAt is the date of a digest.
LEMMA LastDigestForm ==
  ASSUME TypeOK, Clocks, NEW m, Digests(m) # {}
  PROVE  \E e \in Digests(m) : LastDigest(m) = e.at
<1> DEFINE S == {e.at : e \in Digests(m)}
           B == {n \in Nat : \E s \in S : n = time.now - s}
<1>1. S \subseteq Nat /\ S # {} /\ (\A s \in S : s <= time.now) /\ time.now \in Nat
  BY TimeFacts DEF Digests, Clocks
<1>2. LastDigest(m) = CHOOSE d \in S : \A e \in Digests(m) : e.at <= d
  BY DEF LastDigest
<1>3. (\A e \in Digests(m) : e.at \in S) /\ \A s \in S : \E e \in Digests(m) : s = e.at
  OBVIOUS
<1> HIDE DEF S
<1>4. B # {} /\ B \in SUBSET Nat
  <2>1. PICK s \in S : TRUE
    BY <1>1
  <2>2. time.now - s \in Nat
    BY <1>1
  <2>3. time.now - s \in B
    BY <2>2
  <2> QED
    BY <2>3
<1>5. PICK b \in B : \A a \in B : b <= a
  BY <1>4, SoonestDate
<1>6. PICK d \in S : b = time.now - d
  BY <1>5
<1>7. ASSUME NEW s \in S PROVE s <= d
  <2>1. time.now - s \in B
    BY <1>1
  <2>2. b <= time.now - s
    BY <1>5, <2>1
  <2> QED
    BY <1>1, <1>6, <2>2
<1>8. \E x \in S : \A e \in Digests(m) : e.at <= x
  BY <1>3, <1>7
<1>9. LastDigest(m) \in S
  BY <1>2, <1>8
<1> QED
  BY <1>3, <1>9

\* A digest is about all that its member was not told of.
LEMMA DigestFinds ==
  ASSUME TypeOK, Clocks, SinceWindow, DigestsKnown, OneDaily, ItemsSane,
         NEW p \in Procs, job[p].op = "daily", job[p].now = {},
         NEW m \in Members, NEW t \in Asked(time.now), ~Told(m, t)
  PROVE  /\ \A i \in DigestItems(m) : t \in i.about
         /\ Alerts[m] # {} => DigestItems(m) # {}
<1> DEFINE since == IF Digests(m) = {} THEN time.window ELSE LastDigest(m)
<1>0. /\ t \in Tenders /\ date[t] \in Nat /\ time.window \in Nat
      /\ \A e \in log : e.at \in Nat
  BY TimeFacts DEF Asked, PublishedBy
<1>1. since \in Nat /\ ~(date[t] <= since)
  <2>1. CASE Digests(m) = {}
    <3>1. t \notin Asked(time.window)
      BY DEF SinceWindow
    <3> QED
      BY <1>0, <2>1, <3>1, AskedLess
  <2>2. CASE Digests(m) # {}
    <3>1. PICK e \in Digests(m) : LastDigest(m) = e.at
      BY <2>2, LastDigestForm
    <3>2. \A q \in Procs : \A i \in job[q].now : KindOf(i) # "digest"
      BY DEF ItemsSane, Held, OneDaily
    <3>3. ~(date[t] <= e.at)
      BY <3>2 DEF DigestsKnown
    <3> QED
      BY <1>0, <2>2, <3>1, <3>3 DEF Digests
  <2> QED
    BY <2>1, <2>2
<1> HIDE DEF since
<1>2. t \in PublishedSince(since)
  BY <1>0, <1>1 DEF PublishedSince
<1>3. Alerts[m] # {} =>
        DigestItems(m) = {[to |-> m, subject |-> <<"digest", time.day>>,
                           about |-> PublishedSince(since), by |-> UNION Alerts[m]]}
  BY <1>2 DEF DigestItems, since
<1>4. Alerts[m] = {} => DigestItems(m) = {}
  BY DEF DigestItems
<1>5. CASE Alerts[m] # {}
  <2> DEFINE item == [to |-> m, subject |-> <<"digest", time.day>>,
                      about |-> PublishedSince(since), by |-> UNION Alerts[m]]
  <2>1. DigestItems(m) = {item} /\ item.about = PublishedSince(since)
    BY <1>3, <1>5
  <2> HIDE DEF item
  <2> QED
    BY <1>2, <2>1
<1> QED
  BY <1>4, <1>5

LEMMA StepSinceWindow ==
  ASSUME TypeOK, TypeOK', CapInv, Clocks, OneDaily, ItemsSane, SinceWindow, SinceLast,
         Ages, [Next]_vars
  PROVE  SinceWindow'
<1> SUFFICES ASSUME NEW m \in Members, NEW t \in Asked(time.window)' PROVE Told(m, t)'
  BY DEF SinceWindow
<1>0. time.now \in Nat /\ time.last \in Nat /\ time.window \in Nat
      /\ time.window <= time.last /\ time.last <= time.now
  BY TimeFacts DEF Clocks
<1>1. ASSUME NEW p \in Procs, TimerFires(p) PROVE Told(m, t)'
  <2>1. time'.window = time.last /\ ~time.fired /\ date' = date
    BY <1>1, FireForm
  <2>2. t \in Tenders /\ t \notin Late' /\ date'[t] \in 1..time.last
    BY <2>1 DEF Asked, PublishedBy, Late
  <2>3. t \in Asked(time.last)
    BY <2>1, <2>2 DEF Asked, PublishedBy, Ages, Late
  <2>4. Told(m, t)
    BY <2>1, <2>3 DEF SinceLast, OneDaily
  <2> QED
    BY <2>3, <2>4, AskedLess, ToldStays
<1>2. CASE \A p \in Procs : ~TimerFires(p)
  <2>1. time'.window = time.window
    BY <1>2, StepWindow
  <2>2. t \in Tenders /\ t \notin Late' /\ date'[t] \in 1..time.window
    BY <2>1 DEF Asked, PublishedBy, Late
  <2>3. t \in Asked(time.window)
    <3>1. date'[t] # time.now + 1
      BY <1>0, <2>2
    <3>2. date'[t] = date[t]
      <4>1. \/ date'[t] = date[t] \/ t \in Late'
            \/ date'[t] = time'.now /\ time'.now = time.now + 1
        BY <2>2 DEF Ages
      <4> QED
        BY <2>2, <3>1, <4>1
    <3> QED
      BY <2>2, <3>2 DEF Asked, PublishedBy, Ages, Late
  <2>4. Told(m, t)
    BY <2>3 DEF SinceWindow
  <2> QED
    BY <2>3, <2>4, AskedLess, ToldStays
<1> QED
  BY <1>1, <1>2

\* What a member with alerts lacks is known, or still to be tried.
LEMMA StepDigestsComplete ==
  ASSUME TypeOK, CapInv, Clocks, OneDaily, ItemsSane, ItemsSane', LoggedIsKnown, SinceWindow,
         DigestsComplete, DigestsKnown, Ages, [Next]_vars
  PROVE  DigestsComplete'
<1> SUFFICES ASSUME NEW p \in Procs, NEW i \in Held(p)', KindOf(i) = "digest",
                    NEW t \in Asked(time.now)', ~Excused(i.to, t)',
                    NEW c \in UNION Alerts[i.to]
             PROVE  Known(i.to, t, c)' \/ (t \in i.about /\ Pending(p, i, c)')
  BY DEF DigestsComplete
<1>0. /\ time.now \in Nat /\ t \in Tenders /\ t \notin Late'
      /\ date'[t] \in 1..time'.now
  BY TimeFacts DEF Asked, PublishedBy, Late
<1>1. CASE i \in Held(p)
  <2>1. i.to \in Members /\ c \in Channels /\ job[p].op = "daily"
    <3>1. i.to \in Members
      BY <1>1, JobFacts
    <3>2. Alerts[i.to] \subseteq SUBSET Channels
      BY <3>1, TenderAssumption
    <3>3. job[p].op = "daily"
      BY <1>1 DEF ItemsSane
    <3> QED
      BY <3>1, <3>2, <3>3
  <2>2. CASE t \in Asked(time.now)
    <3>1. ~Excused(i.to, t)
      BY DEF Excused, Excuses, Ages
    <3>2. Known(i.to, t, c) \/ (t \in i.about /\ Pending(p, i, c))
      BY <1>1, <2>2, <3>1 DEF DigestsComplete
    <3>3. CASE Known(i.to, t, c)
      BY <2>1, <2>2, <3>3, KnownStays
    <3>4. CASE t \in i.about /\ Pending(p, i, c)
      BY <1>1, <2>1, <2>2, <3>4, PendingStays
    <3> QED
      BY <3>2, <3>3, <3>4
  <2>3. CASE t \notin Asked(time.now)
    <3>1. Digesting \X {t} \subseteq Excuses'
      <4>1. \/ date'[t] = date[t]
            \/ Digesting \X {t} \subseteq Excuses'
        BY <1>0 DEF Ages
      <4>2. CASE date'[t] = date[t]
        <5>1. date[t] <= time.now /\ date[t] \in Nat
          BY <1>0, TimeFacts DEF Clocks
        <5>2. date[t] \in 1..time.now /\ t \notin Late
          BY <1>0, <4>2, <5>1 DEF Ages
        <5> QED
          BY <1>0, <2>3, <5>2 DEF Asked, PublishedBy, Late
      <4> QED
        BY <4>1, <4>2
    <3>2. i.to \in Digesting
      BY <1>1, <2>1 DEF Digesting, Held
    <3> QED
      BY <3>1, <3>2 DEF Excused, Excuses
  <2> QED
    BY <2>2, <2>3
<1>2. CASE i \notin Held(p)
  <2>1. Match(p)
    <3>1. Work(p)
      BY <1>2, Actors DEF Held, Others
    <3>2. CASE Deliver(p)
      BY <1>2, <3>2, DeliverForm DEF Held
    <3>3. CASE Mark(p)
      BY <1>2, <3>3, MarkForm, OnwardForm DEF Held
    <3>4. CASE Sent(p) \/ Fails(p) \/ AnswerLost(p)
      BY <1>2, <3>4, LandForm DEF Held
    <3>5. CASE TimerFires(p) \/ RunAgain(p)
      <4>0. PICK timer : Begin(p, DailyRun(timer))
        BY <3>5 DEF TimerFires, RunAgain
      <4>1. job'[p].items = {} /\ job'[p].now = {}
        BY <4>0, BeginForm, DailyRunForm
      <4> QED
        BY <4>1 DEF Held
    <3>6. CASE Ends(p) \/ Dies(p)
      BY <3>6, LeaveForm DEF Held, Idle
    <3>7. CASE Visit(p)
      <4>1. PICK r \in job[p].rows :
              /\ job'[p].now = {}
              /\ job'[p].items = ItemsOf({r[1]}, "reminder", {n \in Closing : date[n] # 0})
        BY <3>7, VisitForm
      <4>2. KindOf(i) = "reminder"
        BY <4>1, ItemsOfForm DEF Held
      <4> QED
        BY <4>2
    <3>8. CASE \E n \in Tenders : Published(p, n)
      <4>1. PICK M, T : job'[p].now = {} /\ job'[p].items = ItemsOf(M, "new", T)
        BY <3>8, PublishedForm
      <4>2. KindOf(i) = "new"
        BY <4>1, ItemsOfForm DEF Held
      <4> QED
        BY <4>2
    <3> QED
      BY <3>1, <3>2, <3>3, <3>4, <3>5, <3>6, <3>7, <3>8 DEF Work
  <2> DEFINE m == job[p].who[1]
  <2>2. /\ job[p].op = "daily" /\ job[p].now = {} /\ job[p].who # <<>>
        /\ job'[p].now = {} /\ (job'[p].items = DigestItems(m) \/ job'[p].items = CatchUpItems(m))
    BY <2>1, MatchForm
  <2>3. m \in Members
    BY <2>2, JobFacts DEF Jobs
  <2> HIDE DEF m
  <2>4. \A k \in CatchUpItems(m) : KindOf(k) = "new"
    BY ItemsOfForm DEF CatchUpItems
  <2>5. i \in job'[p].items /\ i \in DigestItems(m)
    BY <2>2, <2>4 DEF Held
  <2>6. i.to = m /\ i.by = UNION Alerts[m]
    BY <2>5, DigestForm
  <2>7. Pending(p, i, c)'
    BY <2>5, <2>6 DEF Pending
  <2>8. t \in Asked(time.now)
    <3>1. date' = date /\ time' = time /\ history' = history
      BY <2>1 DEF Match
    <3> QED
      BY <3>1 DEF Asked, PublishedBy
  <2>9. CASE Told(m, t)
    <3>1. ~Excused(m, t)
      BY <2>6 DEF Excused, Excuses, Ages
    <3>2. Known(m, t, c)
      BY <2>6, <2>9, <3>1 DEF Told
    <3>3. c \in Channels
      BY <2>3, <2>6, TenderAssumption
    <3> QED
      BY <2>3, <2>6, <2>8, <3>2, <3>3, KnownStays
  <2>10. CASE ~Told(m, t)
    <3>1. t \in i.about
      BY <2>2, <2>3, <2>5, <2>8, <2>10, DigestFinds
    <3> QED
      BY <2>7, <3>1
  <2> QED
    BY <2>9, <2>10
<1> QED
  BY <1>1, <1>2

\* A digest that is over has told all it was about, or excused it.
LEMMA StepDigestsKnown ==
  ASSUME TypeOK, TypeOK', CapInv, Clocks, ItemsSane, LoggedIsKnown, DigestsComplete, DigestsKnown,
         Ages, [Next]_vars
  PROVE  DigestsKnown'
<1> SUFFICES ASSUME NEW m \in Members, NEW e \in Digests(m)', NEW t \in Asked(time.now)',
                    date'[t] <= e.at
             PROVE  \/ Told(m, t)'
                    \/ \E p \in Procs : \E i \in job'[p].now : i.to = m /\ KindOf(i) = "digest"
  BY DEF DigestsKnown
<1>0. e \in log' /\ e.key[1] = m /\ e.key[2][1] = "digest"
  BY DEF Digests
<1>1. CASE e \notin log
  <2>1. PICK p \in Procs : \E i \in job'[p].now : \E c : e.key = KeyOf(i, c)
    BY <1>0, <1>1, LogForm
  <2>2. PICK i \in job'[p].now : \E c : e.key = KeyOf(i, c)
    BY <2>1
  <2>3. i.to = m /\ KindOf(i) = "digest"
    BY <1>0, <2>2 DEF KeyOf, KindOf
  <2> QED
    BY <2>3
<1>2. CASE e \in log
  <2>1. e \in Digests(m)
    BY <1>0, <1>2 DEF Digests
  <2>2. t \in Asked(time.now) /\ date'[t] = date[t]
    <3>1. t \in Tenders /\ t \notin Late' /\ date'[t] \in Nat \ {0} /\ time.now \in Nat
          /\ e.at <= time.now /\ e.at \in Nat
      BY <1>2, TimeFacts DEF Asked, PublishedBy, Late, Clocks
    <3>2. date'[t] # time.now + 1
      BY <3>1
    <3>3. \/ date'[t] = date[t] \/ t \in Late'
          \/ date'[t] = time'.now /\ time'.now = time.now + 1
      BY <3>1 DEF Ages
    <3>4. date'[t] = date[t]
      BY <3>1, <3>2, <3>3
    <3>5. date[t] \in 1..time.now
      BY <3>1, <3>4
    <3> QED
      BY <3>1, <3>4, <3>5 DEF Asked, PublishedBy, Ages, Late
  <2>3. CASE Told(m, t)
    BY <2>2, <2>3, ToldStays
  <2>4. ASSUME NEW p \in Procs, NEW i \in job[p].now, i.to = m, KindOf(i) = "digest",
               i \notin job'[p].now
        PROVE  Told(m, t)'
    <3>1. i \in Held(p) /\ i \notin job[p].items /\ job[p].op = "daily" /\ i.by = UNION Alerts[m]
      BY <2>4 DEF Held, ItemsSane
    <3>2. i \notin job'[p].items
      <4>1. CASE job'[p] = job[p]
        BY <3>1, <4>1
      <4>2. CASE Mark(p) \/ Sent(p) \/ Fails(p) \/ AnswerLost(p)
        <5>1. job'[p].items = job[p].items
          BY <4>2, MarkForm, LandForm
        <5> QED
          BY <3>1, <5>1
      <4>3. CASE Dies(p)
        BY <4>3, LeaveForm DEF Idle
      <4>4. ASSUME Work(p), ~(Mark(p) \/ Sent(p) \/ Fails(p) \/ AnswerLost(p) \/ Dies(p))
            PROVE  FALSE
        <5>1. job[p] # Idle /\ job[p].now # {}
          BY DEF Idle
        <5> QED
          BY <4>4, <5>1 DEF Work, TimerFires, RunAgain, Begin, Visit, Match, Ends, Deliver, Published
      <4> QED
        BY <4>1, <4>2, <4>3, <4>4, Actors DEF Others
    <3>3. i \notin Held(p)'
      BY <2>4, <3>2 DEF Held
    <3>4. CASE Excused(m, t)
      BY <3>4 DEF Told, Excused, Excuses, Ages
    <3>5. ASSUME NEW c \in UNION Alerts[m], ~Excused(m, t)
          PROVE  Known(m, t, c)' \/ Excused(m, t)'
      <4>1. c \in Channels
        BY TenderAssumption
      <4>2. Known(m, t, c) \/ (t \in i.about /\ Pending(p, i, c))
        BY <2>2, <2>4, <3>1, <3>5 DEF DigestsComplete
      <4>3. CASE Known(m, t, c)
        BY <2>2, <4>1, <4>3, KnownStays
      <4>4. CASE t \in i.about /\ Pending(p, i, c)
        BY <2>2, <2>4, <3>1, <3>3, <4>1, <4>4, PendingStays
      <4> QED
        BY <4>2, <4>3, <4>4
    <3> QED
      BY <3>4, <3>5 DEF Told
  <2> QED
    BY <2>1, <2>2, <2>3, <2>4 DEF DigestsKnown
<1> QED
  BY <1>1, <1>2

\* Who is pursued by a run that goes on is pursued, or told.
LEMMA PursuitGoesOn ==
  ASSUME TypeOK, CapInv, Clocks, OneDaily, ItemsSane, LoggedIsKnown, Ages, [Next]_vars,
         NEW p \in Procs, job[p].timer, job'[p].timer,
         job'[p].rows = job[p].rows, job'[p].who = job[p].who,
         NEW m \in Members, NEW t \in Asked(time.last), Pursued(p, m, t)
  PROVE  Told(m, t)' \/ Pursued(p, m, t)'
<1>0. t \in Asked(time.now) /\ date[t] <= time.last /\ job[p].op = "daily"
  BY AskedLess DEF OneDaily
<1>1. CASE \E f \in {"instant", "daily"} : <<m, f>> \in job[p].rows \/ <<m, f>> = job[p].who
  BY <1>1 DEF Pursued
<1>2. CASE \A c \in UNION Alerts[m] : Known(m, t, c) \/ Covers(p, m, t, c)
  <2>1. ASSUME NEW c \in UNION Alerts[m]
        PROVE  Known(m, t, c)' \/ Covers(p, m, t, c)' \/ Excused(m, t)'
    <3>1. c \in Channels
      BY TenderAssumption
    <3>2. CASE Known(m, t, c)
      BY <1>0, <3>1, <3>2, KnownStays
    <3>3. CASE Covers(p, m, t, c)
      <4>1. PICK i \in Held(p) :
              i.to = m /\ t \in i.about /\ KindOf(i) # "reminder" /\ Pending(p, i, c)
        BY <3>3 DEF Covers
      <4>2. \/ i \in Held(p)' /\ Pending(p, i, c)'
            \/ Known(i.to, t, c)' \/ Excused(i.to, t)'
            \/ date[t] > time.last
        BY <1>0, <3>1, <4>1, PendingStays
      <4>3. ~(date[t] > time.last)
        BY <1>0, TimeFacts DEF Asked, PublishedBy
      <4>4. CASE i \in Held(p)' /\ Pending(p, i, c)'
        BY <4>1, <4>4 DEF Covers
      <4> QED
        BY <4>1, <4>2, <4>3, <4>4
    <3> QED
      BY <1>2, <3>2, <3>3
  <2> QED
    BY <2>1 DEF Told, Pursued
<1> QED
  BY <1>1, <1>2 DEF Pursued

\* Who has no rows to come, and nothing in the hands of the run, was told.
LEMMA PursuitIsOver ==
  ASSUME NEW p \in Procs, Held(p) = {}, NEW m \in Members, NEW t, Pursued(p, m, t),
         \A f : <<m, f>> \notin job[p].rows /\ <<m, f>> # job[p].who
  PROVE  Told(m, t)
BY DEF Pursued, Covers, Told

LEMMA CatchUpForm ==
  ASSUME NEW m, NEW t \in PublishedSince(time.window), NEW a \in Alerts[m]
  PROVE  \E i \in CatchUpItems(m) :
           i.to = m /\ KindOf(i) = "new" /\ t \in i.about /\ i.by = a
<1> DEFINE M == {m}
           T == PublishedSince(time.window)
<1>1. m \in M /\ t \in T /\ CatchUpItems(m) = ItemsOf(M, "new", T)
  BY DEF CatchUpItems
<1> HIDE DEF M, T
<1> QED
  BY <1>1, ItemsOfForm

\* The catch-up or the digest takes up what a member lacks.
LEMMA MatchTakesUp ==
  ASSUME TypeOK, CapInv, Clocks, OneDaily, ItemsSane, SinceWindow, DigestsKnown,
         NEW p \in Procs, Match(p), NEW m \in Members, m = job[p].who[1],
         NEW t \in Asked(time.last), ~Told(m, t), NEW c \in UNION Alerts[m]
  PROVE  Covers(p, m, t, c)'
<1> DEFINE f == job[p].who[2]
<1>0. /\ job[p].op = "daily" /\ job[p].now = {} /\ job'[p].now = {}
      /\ job'[p].items = IF f = "daily" THEN DigestItems(m) ELSE CatchUpItems(m)
  BY MatchForm
<1>1. t \in Asked(time.now) /\ t \in Tenders /\ date[t] \in Nat /\ time.window \in Nat
  BY AskedLess, TimeFacts DEF Asked, PublishedBy
<1> HIDE DEF f
<1>2. CASE f = "daily"
  <2>1. Alerts[m] # {}
    OBVIOUS
  <2>2. PICK i \in DigestItems(m) : t \in i.about
    BY <1>0, <1>1, <2>1, DigestFinds
  <2>3. i.to = m /\ KindOf(i) = "digest" /\ i.by = UNION Alerts[m]
    BY <2>2, DigestForm
  <2>4. i \in job'[p].items
    BY <1>0, <1>2, <2>2
  <2> QED
    BY <2>2, <2>3, <2>4 DEF Covers, Held, Pending
<1>3. CASE f # "daily"
  <2>1. t \notin Asked(time.window)
    BY DEF SinceWindow
  <2>2. t \in PublishedSince(time.window)
    BY <1>1, <2>1, AskedLess DEF PublishedSince
  <2>3. PICK a \in Alerts[m] : c \in a
    OBVIOUS
  <2>4. PICK i \in CatchUpItems(m) :
          i.to = m /\ KindOf(i) = "new" /\ t \in i.about /\ i.by = a
    BY <2>2, <2>3, CatchUpForm
  <2>5. i \in job'[p].items
    BY <1>0, <1>3, <2>4
  <2> QED
    BY <2>3, <2>4, <2>5 DEF Covers, Held, Pending
<1> QED
  BY <1>2, <1>3

LEMMA StepSinceLast ==
  ASSUME TypeOK, TypeOK', CapInv, Clocks, OneDaily, OneDaily', ItemsSane, LoggedIsKnown,
         SinceWindow, SinceLast, DigestsKnown, Ages, [Next]_vars
  PROVE  SinceLast'
<1> SUFFICES ASSUME NEW m \in Members, NEW t \in Asked(time.last)'
             PROVE  Told(m, t)' \/ \E p \in Procs : job'[p].timer /\ Pursued(p, m, t)'
  BY DEF SinceLast
<1>0. /\ time.now \in Nat /\ time.last \in Nat /\ time.last <= time.now
      /\ t \in Tenders /\ t \notin Late' /\ date'[t] \in 1..time'.last
  BY TimeFacts DEF Clocks, Asked, PublishedBy, Late
<1>1. ASSUME NEW p \in Procs, TimerFires(p)
      PROVE  Told(m, t)' \/ (job'[p].timer /\ Pursued(p, m, t)')
  <2>1. /\ date' = date /\ job'[p] = DailyRun(TRUE) /\ time'.last = time.now
        /\ Excuses' = Excuses \cup (paused \X PublishedBy(time.now))
    BY <1>1, FireForm
  <2>2. CASE m \in paused
    <3>1. t \in PublishedBy(time.now)
      BY <1>0, <2>1 DEF PublishedBy
    <3> QED
      BY <2>1, <2>2, <3>1 DEF Told, Excused, Excuses
  <2>3. CASE m \notin paused
    <3>1. job'[p].timer /\ <<m, EffectiveFreq(m \in digest)>> \in job'[p].rows
      BY <2>1, <2>3, DailyRunForm
    <3>2. EffectiveFreq(m \in digest) \in {"instant", "daily"}
      BY DEF EffectiveFreq
    <3> QED
      BY <3>1, <3>2 DEF Pursued
  <2> QED
    BY <2>2, <2>3
<1>2. ASSUME \A p \in Procs : ~TimerFires(p)
      PROVE  Told(m, t)' \/ \E p \in Procs : job'[p].timer /\ Pursued(p, m, t)'
  <2>1. time'.last = time.last
    BY <1>2, StepWindow
  <2>2. t \in Asked(time.last)
    <3>1. date'[t] # time.now + 1
      BY <1>0, <2>1
    <3>2. date'[t] = date[t]
      <4>1. \/ date'[t] = date[t] \/ t \in Late'
            \/ date'[t] = time'.now /\ time'.now = time.now + 1
        BY <1>0 DEF Ages
      <4> QED
        BY <1>0, <3>1, <4>1
    <3> QED
      BY <1>0, <2>1, <3>2 DEF Asked, PublishedBy, Ages, Late
  <2>3. t \in Asked(time.now)
    BY <2>2, AskedLess
  <2>4. CASE Told(m, t)
    BY <2>3, <2>4, ToldStays
  <2>5. ASSUME NEW p \in Procs, job[p].timer, Pursued(p, m, t), ~Told(m, t)
        PROVE  Told(m, t)' \/ (job'[p].timer /\ Pursued(p, m, t)')
    <3>0. job[p].op = "daily"
      BY <2>5 DEF OneDaily
    <3>1. CASE job'[p] = job[p]
      BY <2>2, <2>5, <3>1, PursuitGoesOn
    <3>2. CASE Deliver(p) \/ Mark(p) \/ Sent(p) \/ Fails(p) \/ AnswerLost(p)
      <4>1. SameRun(p)
        BY <3>2, DeliverForm, MarkForm, LandForm
      <4>2. job'[p].timer /\ job'[p].rows = job[p].rows /\ job'[p].who = job[p].who
        BY <2>5, <3>0, <4>1 DEF SameRun
      <4> QED
        BY <2>2, <2>5, <4>2, PursuitGoesOn
    <3>3. CASE Visit(p)
      <4>1. PICK r \in job[p].rows :
              /\ job[p].items = {} /\ job[p].now = {} /\ job[p].who = <<>>
              /\ job'[p].timer = job[p].timer
              /\ job'[p].rows = job[p].rows \ {r} /\ job'[p].who = r
        BY <3>3, VisitForm
      <4>2. Held(p) = {}
        BY <4>1 DEF Held
      <4>3. PICK f : <<m, f>> \in job[p].rows \/ <<m, f>> = job[p].who
        BY <2>5, <4>2, PursuitIsOver
      <4>4. <<m, f>> \in job[p].rows /\ f \in {"instant", "daily"}
        BY <4>1, <4>3, JobFacts DEF Jobs
      <4> QED
        BY <2>5, <4>1, <4>4 DEF Pursued
    <3>4. CASE Match(p)
      <4>1. /\ job[p].items = {} /\ job[p].now = {} /\ job[p].who # <<>>
            /\ job'[p].timer = job[p].timer /\ job'[p].rows = job[p].rows
        BY <3>4, MatchForm
      <4>2. Held(p) = {}
        BY <4>1 DEF Held
      <4>3. PICK f : <<m, f>> \in job[p].rows \/ <<m, f>> = job[p].who
        BY <2>5, <4>2, PursuitIsOver
      <4>4. CASE <<m, f>> \in job[p].rows
        <5>1. f \in {"instant", "daily"}
          BY <4>4, JobFacts DEF Jobs
        <5> QED
          BY <2>5, <4>1, <4>4, <5>1 DEF Pursued
      <4>5. CASE <<m, f>> = job[p].who
        <5>1. m = job[p].who[1]
          BY <4>5
        <5>2. \A c \in UNION Alerts[m] : Covers(p, m, t, c)'
          BY <2>2, <2>5, <3>4, <5>1, MatchTakesUp
        <5> QED
          BY <2>5, <4>1, <5>2 DEF Pursued
      <4> QED
        BY <4>3, <4>4, <4>5
    <3>5. CASE Ends(p)
      <4>1. Held(p) = {} /\ job[p].rows = {} /\ job[p].who = <<>>
        BY <3>5 DEF Ends, Held
      <4>2. \A f : <<m, f>> \notin job[p].rows /\ <<m, f>> # job[p].who
        BY <4>1
      <4> QED
        BY <2>5, <4>1, <4>2, PursuitIsOver
    <3>6. CASE Dies(p)
      <4>1. <<m, t>> \in Excuses'
        BY <2>2, <3>0, <3>6, DiesForm DEF Asked
      <4> QED
        BY <4>1 DEF Told, Excused, Excuses
    <3>7. ASSUME Work(p), RunAgain(p) \/ TimerFires(p) \/ \E n \in Tenders : Published(p, n)
          PROVE  FALSE
      <4>1. job[p] # Idle
        BY <3>0 DEF Idle
      <4> QED
        BY <3>7, <4>1 DEF RunAgain, TimerFires, Published, Begin
    <3> QED
      BY <3>1, <3>2, <3>3, <3>4, <3>5, <3>6, <3>7, Actors DEF Others, Work
  <2> QED
    BY <2>2, <2>4, <2>5 DEF SinceLast
<1> QED
  BY <1>1, <1>2

LEMMA InitForgotten == Init => FInv
<1> SUFFICES ASSUME Init PROVE FInv
  OBVIOUS
<1>1. TypeOK /\ CapInv
  BY InitTypes, InitCap
<1>2. /\ \A t \in Tenders : date[t] = 0
      /\ time = [now |-> 0, day |-> 0, fired |-> TRUE, window |-> 0, last |-> 0]
      /\ log = {} /\ history.settled = 0 /\ \A p \in Procs : job[p] = Idle
  BY DEF Init
<1>3. \A d : Asked(d) = {}
  BY <1>2 DEF Asked, PublishedBy
<1>4. \A p \in Procs : Held(p) = {} /\ job[p].op = "idle" /\ job[p].timer = FALSE
                       /\ job[p].items = {} /\ job[p].now = {}
  BY <1>2 DEF Held, Idle
<1>5. Clocks
  BY <1>2 DEF Clocks
<1>6. OneDaily /\ ItemsSane
  BY <1>4 DEF OneDaily, ItemsSane
<1>7. LoggedIsKnown
  BY <1>2 DEF LoggedIsKnown, Logged
<1>8. SinceWindow /\ SinceLast /\ DigestsComplete /\ DigestsKnown
  BY <1>3 DEF SinceWindow, SinceLast, DigestsComplete, DigestsKnown
<1> QED
  BY <1>1, <1>5, <1>6, <1>7, <1>8 DEF FInv

LEMMA StepForgotten == FInv /\ [Next]_vars => FInv'
<1> SUFFICES ASSUME FInv, [Next]_vars PROVE FInv'
  OBVIOUS
<1>0. /\ TypeOK /\ CapInv /\ Clocks /\ OneDaily /\ ItemsSane /\ LoggedIsKnown
      /\ SinceWindow /\ SinceLast /\ DigestsComplete /\ DigestsKnown
  BY DEF FInv
<1>1. TypeOK' /\ CapInv'
  BY <1>0, StepTypes, StepCap
<1>2. OneDaily' /\ ItemsSane' /\ LoggedIsKnown' /\ Ages
  BY <1>0, StepOneDaily, StepItemsSane, StepLoggedIsKnown, StepAges
<1>3. Clocks'
  BY <1>0, <1>1, <1>2, StepClocks
<1>4. SinceWindow' /\ DigestsComplete' /\ DigestsKnown'
  BY <1>0, <1>1, <1>2, StepSinceWindow, StepDigestsComplete, StepDigestsKnown
<1>5. SinceLast'
  BY <1>0, <1>1, <1>2, StepSinceLast
<1> QED
  BY <1>1, <1>2, <1>3, <1>4, <1>5 DEF FInv

\* When the daily run is over each member knows of each tender that was
\* published before it, whatever the server dropped (matchDigest, the catch-up
\* of runDaily, and the log they share with handleGhostPublished).
THEOREM NobodyIsForgotten == Spec => []NothingForgotten
<1>1. FInv => NothingForgotten
  <2> SUFFICES ASSUME FInv, NEW m \in Members, NEW t \in PublishedBy(history.settled) \ history.late,
                      <<m, t>> \notin history.excused, NEW c \in UNION Alerts[m]
               PROVE  HeardOn(m, t, c) \/ InHandNew(m, t, c)
    BY DEF NothingForgotten, HeardOn, InHandNew
  <2>1. /\ time.window \in Nat /\ time.last \in Nat /\ history.settled \in Nat
        /\ t \in Asked(history.settled) /\ date[t] \in Nat /\ t \in Tenders
    BY TimeFacts DEF FInv, Asked, PublishedBy
  <2>2. CASE history.settled <= time.window
    <3>1. t \in Asked(time.window)
      BY <2>1, <2>2 DEF Asked, PublishedBy
    <3> QED
      BY <3>1 DEF FInv, SinceWindow, Told, Excused, Known
  <2>3. CASE history.settled = time.last /\ NoTimer
    BY <2>1, <2>3 DEF FInv, SinceLast, NoTimer, Told, Excused, Known
  <2> QED
    BY <2>2, <2>3 DEF FInv, Clocks
<1> QED
  BY <1>1, InitForgotten, StepForgotten, PTL DEF Spec

=============================================================================
