----------------------------- MODULE TenderNotify -----------------------------
(***************************************************************************)
(* Alerts about tenders, as tender-scraper/src/notify sends them.  The     *)
(* server tells members of a tender as soon as Ghost publishes it; a daily *)
(* job sends reminders, a digest to who wants one, and to the others what  *)
(* the server has not got through.  Both work from rows they have read at  *)
(* their beginning, on one SQLite file, and know of each other only by the *)
(* log of what was sent: a row is inserted before the message is handed    *)
(* to Telegram or the mail server, and deleted when that fails.            *)
(*                                                                         *)
(* The clock counts the tenders published in time: a date is the number of *)
(* those published up to it.                                               *)
(***************************************************************************)
EXTENDS Naturals, FiniteSets

CONSTANTS
  Procs,      \* requests of the server and daily runs under way at once
  Members,
  Tenders,
  Alerts,     \* of each member: the channels of each alert
  Closing,    \* tenders whose deadline calls for a reminder
  DailyCap,
  MaxDays,    \* bound: days
  MaxChanges, \* bound: changes of mind of members
  MaxFaults   \* bound: failed sendings, lost answers and crashes

Channels == {"telegram", "email"}

ASSUME TenderAssumption ==
  /\ Alerts \in [Members -> SUBSET SUBSET Channels]
  /\ Closing \subseteq Tenders
  /\ IsFiniteSet(Procs) /\ DailyCap \in Nat \ {0}
  /\ MaxDays \in Nat /\ MaxChanges \in Nat /\ MaxFaults \in Nat

VARIABLES
  digest,   \* members with digest_mode
  paused,   \* members with paused_until in the future
  date,     \* published_ts of each tender that can be found
  time,     \* the clock, the day, and when the timer of the daily job fired
  log,      \* table sent_log
  job,      \* what each request or daily run is doing
  mails,    \* history: messages sent, and those whose sender heard of an error
  heard,    \* history: who was told of which tender, how and where
  history,  \* history: what the properties except
  bounds    \* changes and faults so far

vars == <<digest, paused, date, time, log, job, mails, heard, history, bounds>>

-----------------------------------------------------------------------------
Days == 0..MaxDays
Dates == Nat
\* A digest is known by its day.
Subjects == ({"new", "reminder"} \X Tenders) \cup ({"digest"} \X Days)
Keys == Members \X Subjects \X Channels

Items == [to : Members, subject : Subjects, about : SUBSET Tenders,
          by : SUBSET Channels]

Idle == [op |-> "idle", timer |-> FALSE, rows |-> {}, who |-> <<>>,
         items |-> {}, now |-> {}, left |-> {}, sending |-> {}]

Jobs == [op : {"idle", "server", "daily"}, timer : BOOLEAN,
         rows : SUBSET (Members \X {"instant", "daily"}),
         who : (Members \X {"instant", "daily"}) \cup {<<>>},
         items : SUBSET Items,       \* messages to deliver next
         now : SUBSET Items,         \* the one being delivered
         left : SUBSET Channels,     \* where it has not been tried
         sending : SUBSET Channels]  \* where it is handed over

Entries == [key : Keys, day : Days, at : Dates]

TypeOK ==
  /\ digest \subseteq Members /\ paused \subseteq Members
  /\ date \in [Tenders -> Dates]
  /\ time \in [now : Dates, day : Days, fired : BOOLEAN, window : Dates, last : Dates]
  /\ log \subseteq Entries
  /\ \A e, f \in log : e.key = f.key => e = f
  /\ job \in [Procs -> Jobs]
  /\ \A p \in Procs : \A i, k \in job[p].now : i = k
  /\ mails \in [Keys -> [sent : Nat, lost : Nat]]
  /\ heard \subseteq Members \X Tenders \X {"new", "digest"} \X Channels
  /\ history \in [switched : SUBSET Members, late : SUBSET Tenders, settled : Dates,
                  excused : SUBSET (Members \X Tenders), orphans : SUBSET Keys]
  /\ bounds \in [changes : 0..MaxChanges, faults : 0..MaxFaults]

\* The timer has fired for today, before there was anything to tell.
Init ==
  /\ digest \in SUBSET Members
  /\ paused = {}
  /\ date = [t \in Tenders |-> 0]
  /\ time = [now |-> 0, day |-> 0, fired |-> TRUE, window |-> 0, last |-> 0]
  /\ log = {}
  /\ job = [p \in Procs |-> Idle]
  /\ mails = [k \in Keys |-> [sent |-> 0, lost |-> 0]]
  /\ heard = {}
  /\ history = [switched |-> {}, late |-> {}, settled |-> 0, excused |-> {}, orphans |-> {}]
  /\ bounds = [changes |-> 0, faults |-> 0]

-----------------------------------------------------------------------------
(* The store.                                                              *)

\* Mutant of Logged: rows of earlier days do not count.
LoggedToday(k) == \E e \in log : e.key = k /\ e.day = time.day

Logged(k) == \E e \in log : e.key = k
SentToday(m) == {e \in log : e.key[1] = m /\ e.day = time.day}

\* lastDigestAt: the latest of any channel.
Digests(m) == {e \in log : e.key[1] = m /\ e.key[2][1] = "digest"}
LastDigest(m) ==
  CHOOSE d \in {e.at : e \in Digests(m)} : \A e \in Digests(m) : e.at <= d

\* Mutant of UnderCap: only digests are counted.
UnderCapOfDigests(m) == Cardinality(SentToday(m) \cap Digests(m)) < DailyCap

UnderCap(m) == Cardinality(SentToday(m)) < DailyCap

\* Mutant of EffectiveFreq: the default of the column it does not read.
EffectiveFreqDefault(digestMode) == "daily"

\* Of a row of allAlerts, in which digest_freq is missing.
EffectiveFreq(digestMode) == IF digestMode THEN "daily" ELSE "instant"

PublishedSince(d) == {t \in Tenders : date[t] > d}
PublishedBy(d) == {t \in Tenders : date[t] \in 1..d}

-----------------------------------------------------------------------------
(* Messages.                                                               *)

AlertsOf(M) == UNION {{m} \X Alerts[m] : m \in M}
ItemsOf(M, kind, T) ==
  {[to |-> a[1][1], subject |-> <<kind, a[2]>>, about |-> {a[2]}, by |-> a[1][2]] :
     a \in AlertsOf(M) \X T}

DigestItems(m) ==
  LET since == IF Digests(m) = {} THEN time.window ELSE LastDigest(m)
      found == IF Alerts[m] = {} THEN {} ELSE PublishedSince(since)
  IN  IF found = {} THEN {}
      ELSE {[to |-> m, subject |-> <<"digest", time.day>>, about |-> found,
             by |-> UNION Alerts[m]]}

\* Mutant of CatchUpItems: the window begins with the run.
CatchUpItemsOfToday(m) == ItemsOf({m}, "new", PublishedSince(time.last))

\* The catch-up, of the last 26 hours.
CatchUpItems(m) == ItemsOf({m}, "new", PublishedSince(time.window))

KindOf(item) == item.subject[1]
KeyOf(item, c) == <<item.to, item.subject, c>>
First(channels) == IF "telegram" \in channels THEN "telegram" ELSE "email"

\* What p tries to send at the moment, if anything.
Sending(p) == {KeyOf(i, c) : i \in job[p].now, c \in job[p].sending}
InFlight == UNION {Sending(p) : p \in Procs}

\* Members a digest is collected for but not recorded everywhere.
Digesting == {m \in Members : \E p \in Procs : \E i \in job[p].items \cup job[p].now :
                i.to = m /\ KindOf(i) = "digest"}

Changes ==
  /\ bounds.changes < MaxChanges
  /\ bounds' = [bounds EXCEPT !.changes = @ + 1]
Faults ==
  /\ bounds.faults < MaxFaults
  /\ bounds' = [bounds EXCEPT !.faults = @ + 1]
\* A request of the server is over with its last message.
Rest(j) == IF j.op = "server" /\ j.items = {} /\ j.now = {} THEN Idle ELSE j

Excuse(pairs) == history' = [history EXCEPT !.excused = @ \cup pairs]

-----------------------------------------------------------------------------
(* Tenders, members and time.                                              *)

\* The date of a post is the one of its source: a tender found late by the
\* scraper, or indexed late, is as old as others that were found before.
Publish(t) ==
  /\ date[t] = 0
  /\ \/ /\ date' = [date EXCEPT ![t] = time.now + 1]
        /\ time' = [time EXCEPT !.now = @ + 1]
        /\ history' = [history EXCEPT !.excused = @ \cup (Digesting \X {t})]
     \/ /\ \E d \in 1..time.now : date' = [date EXCEPT ![t] = d]
        /\ time' = time
        /\ history' = [history EXCEPT !.late = @ \cup {t}]
  /\ UNCHANGED <<digest, paused, log, job, mails, heard, bounds>>

\* setPrefs, by the bot, the Mini App or the page of alerts.
Switch(m) ==
  /\ Changes
  /\ digest' = IF m \in digest THEN digest \ {m} ELSE digest \cup {m}
  /\ history' = [history EXCEPT !.switched = @ \cup {m}]
  /\ UNCHANGED <<paused, date, time, log, job, mails, heard>>

\* Paused, or resumed by the member or by time.
Pause(m) ==
  /\ Changes
  /\ paused' = IF m \in paused THEN paused \ {m} ELSE paused \cup {m}
  /\ UNCHANGED <<digest, date, time, log, job, mails, heard, history>>

\* The daily run is over long before midnight; so is what the server does.
NextDay ==
  /\ time.fired /\ time.day < MaxDays
  /\ \A p \in Procs : job[p] = Idle
  /\ time' = [time EXCEPT !.day = @ + 1, !.fired = FALSE]
  /\ UNCHANGED <<digest, paused, date, log, job, mails, heard, history, bounds>>

-----------------------------------------------------------------------------
(* Who sends.                                                              *)

Begin(p, what) == job[p] = Idle /\ job' = [job EXCEPT ![p] = what]

\* handleGhostPublished, for a webhook that may be lost or repeated.  One that
\* finds all of it sent does nothing and is left out.
Published(p, t) ==
  LET items == ItemsOf(Members \ (digest \cup paused), "new", {t})
  IN  /\ date[t] # 0
      /\ \E i \in items : \E c \in i.by : ~Logged(KeyOf(i, c))
      /\ Begin(p, [Idle EXCEPT !.op = "server", !.items = items])
      /\ UNCHANGED <<digest, paused, date, time, log, mails, heard, history, bounds>>

DailyRun(timer) ==
  [Idle EXCEPT !.op = "daily", !.timer = timer,
     !.rows = {<<m, EffectiveFreq(m \in digest)>> : m \in Members \ paused}]

\* Once a day; what is not found then is not found later: see NothingForgotten.
TimerFires(p) ==
  /\ ~time.fired
  /\ Begin(p, DailyRun(TRUE))
  /\ time' = [time EXCEPT !.fired = TRUE, !.window = time.last, !.last = time.now]
  /\ Excuse(paused \X PublishedBy(time.now))
  /\ UNCHANGED <<digest, paused, date, log, mails, heard, bounds>>

\* npm run notify:daily, by hand, after the run of the timer.
RunAgain(p) ==
  /\ time.fired
  /\ \A q \in Procs : job[q].op # "daily"
  /\ Begin(p, DailyRun(FALSE))
  /\ UNCHANGED <<digest, paused, date, time, log, mails, heard, history, bounds>>

\* The next member: first the reminders,
Visit(p) ==
  /\ job[p].op = "daily" /\ job[p].who = <<>>
  /\ job[p].items = {} /\ job[p].now = {}
  /\ \E r \in job[p].rows :
       job' = [job EXCEPT ![p].rows = @ \ {r}, ![p].who = r,
                 ![p].items = ItemsOf({r[1]}, "reminder", {t \in Closing : date[t] # 0})]
  /\ UNCHANGED <<digest, paused, date, time, log, mails, heard, history, bounds>>

\* then the digest or the catch-up.
Match(p) ==
  LET m == job[p].who[1]
      found == IF job[p].who[2] = "daily" THEN DigestItems(m)
               ELSE CatchUpItems(m)
  IN  /\ job[p].op = "daily" /\ job[p].who # <<>>
      /\ job[p].items = {} /\ job[p].now = {}
      /\ job' = [job EXCEPT ![p].who = <<>>, ![p].items = found]
      /\ UNCHANGED <<digest, paused, date, time, log, mails, heard, history, bounds>>

Ends(p) ==
  /\ job[p].op = "daily"
  /\ job[p].rows = {} /\ job[p].who = <<>> /\ job[p].items = {} /\ job[p].now = {}
  /\ job' = [job EXCEPT ![p] = Idle]
  /\ history' = IF job[p].timer THEN [history EXCEPT !.settled = time.last] ELSE history
  /\ UNCHANGED <<digest, paused, date, time, log, mails, heard, bounds>>

-----------------------------------------------------------------------------
(* deliver                                                                 *)

\* What the daily run drops will not be found again, if it was published
\* before the timer.
Dropped(p, i) ==
  IF job[p].op = "daily" THEN {i.to} \X (i.about \cap PublishedBy(time.last)) ELSE {}

\* Quiet hours hold back the server only.
Deliver(p) ==
  \E i \in job[p].items :
    /\ job[p].now = {}
    /\ \/ /\ UnderCap(i.to)
          /\ job' = [job EXCEPT ![p] = Rest(
               [job[p] EXCEPT !.items = @ \ {i}, !.left = i.by,
                              !.now = IF i.by = {} THEN {} ELSE {i}])]
          /\ UNCHANGED history
       \/ /\ ~UnderCap(i.to) \/ job[p].op = "server"
          /\ job' = [job EXCEPT ![p] = Rest([job[p] EXCEPT !.items = @ \ {i}])]
          /\ Excuse(Dropped(p, i))
    /\ UNCHANGED <<digest, paused, date, time, log, mails, heard, bounds>>

\* The next channel, or the end of this message.
Onward(p) ==
  LET left == job[p].left \ {First(job[p].left)}
      next == [job[p] EXCEPT !.left = left, !.sending = {},
                 !.now = IF left = {} THEN {} ELSE @]
  IN  job' = [job EXCEPT ![p] = Rest(next)]

\* markSent
Mark(p) ==
  \E i \in job[p].now :
    LET c == First(job[p].left)
        k == KeyOf(i, c)
    IN  /\ job[p].sending = {}
        /\ \/ /\ ~Logged(k)
              /\ log' = log \cup {[key |-> k, day |-> time.day, at |-> time.now]}
              /\ job' = [job EXCEPT ![p].sending = {c}]
              /\ UNCHANGED history
           \/ /\ Logged(k)
              /\ Onward(p)
              /\ Excuse(IF KindOf(i) = "digest" THEN {i.to} \X i.about ELSE {})
              /\ UNCHANGED log
        /\ UNCHANGED <<digest, paused, date, time, mails, heard, bounds>>

\* Mutant of Unmarked: the row of the other channel goes too.
UnmarkedEverywhere(k) == {e \in log : <<e.key[1], e.key[2]>> # <<k[1], k[2]>>}

\* unmarkSent
Unmarked(k) == {e \in log : e.key # k}
Reached(i, c) ==
  heard' = IF KindOf(i) = "reminder" THEN heard
           ELSE heard \cup {<<i.to, t, KindOf(i), c>> : t \in i.about}

Sent(p) ==
  \E i \in job[p].now, c \in job[p].sending :
    /\ mails' = [mails EXCEPT ![KeyOf(i, c)].sent = @ + 1]
    /\ Reached(i, c)
    /\ Onward(p)
    /\ UNCHANGED <<digest, paused, date, time, log, history, bounds>>

\* A failed message is due again, if somebody still looks for its tender.
Fails(p) ==
  \E i \in job[p].now, c \in job[p].sending :
    /\ Faults
    /\ log' = Unmarked(KeyOf(i, c))
    /\ Excuse({i.to} \X (IF KindOf(i) = "digest" THEN i.about
                         ELSE i.about \cap PublishedBy(time.last)))
    /\ Onward(p)
    /\ UNCHANGED <<digest, paused, date, time, mails, heard>>

\* The message is taken, but its sender hears of an error.
AnswerLost(p) ==
  \E i \in job[p].now, c \in job[p].sending :
    /\ Faults
    /\ mails' = [mails EXCEPT ![KeyOf(i, c)] = [sent |-> @.sent + 1, lost |-> @.lost + 1]]
    /\ Reached(i, c)
    /\ log' = Unmarked(KeyOf(i, c))
    /\ Onward(p)
    /\ UNCHANGED <<digest, paused, date, time, history>>

\* A crash, or an error of the database, ends a request or a run.
Dies(p) ==
  /\ job[p] # Idle
  /\ Faults
  /\ job' = [job EXCEPT ![p] = Idle]
  /\ history' = [history EXCEPT
       !.orphans = @ \cup Sending(p),
       !.excused = @ \cup
         (IF job[p].op = "daily" THEN Members \X PublishedBy(time.last) ELSE {})
         \cup UNION {{i.to} \X i.about :
                i \in {j \in job[p].now : job[p].sending # {} \/ KindOf(j) = "digest"}}]
  /\ UNCHANGED <<digest, paused, date, time, log, mails, heard>>

-----------------------------------------------------------------------------
Work(p) ==
  \/ TimerFires(p) \/ RunAgain(p) \/ Visit(p) \/ Match(p) \/ Ends(p)
  \/ Deliver(p) \/ Mark(p) \/ Sent(p) \/ Fails(p) \/ AnswerLost(p) \/ Dies(p)
  \/ \E t \in Tenders : Published(p, t)

Next ==
  \/ \E p \in Procs : Work(p)
  \/ \E t \in Tenders : Publish(t)
  \/ \E m \in Members : Switch(m) \/ Pause(m)
  \/ NextDay

Spec == Init /\ [][Next]_vars

-----------------------------------------------------------------------------
(* Properties.                                                             *)

\* The log tells the truth: a message is sent once for each row, and again
\* only when a failure was reported after it was taken; a row without its
\* message is in the hands of exactly one sender, or was left by one that
\* died (markSent, unmarkSent and the order of the two around the sending).
LogTellsSends ==
  LET done == {e.key : e \in log} \ (InFlight \cup history.orphans)
  IN  /\ \A p, q \in Procs : p # q => Sending(p) \cap Sending(q) = {}
      /\ \A k \in InFlight : Logged(k)
      /\ \A k \in Keys : mails[k].sent = mails[k].lost + IF k \in done THEN 1 ELSE 0

\* The daily cap is read before two channels are tried and not again: with
\* several senders at work a member may get more than the cap, but never more
\* than two messages for each of them on top of what was left of it.
CapNearlyKept ==
  \A m \in Members :
    Cardinality(SentToday(m)) <= DailyCap - 1 + 2 * Cardinality(Procs)

\* Who keeps to one way of being told hears of a tender in that way only,
\* never at once and in a digest (effectiveFreq, "avoiding double delivery").
ToldOneWay ==
  \A m \in Members \ history.switched, t \in Tenders :
    ~ \E c, d \in Channels : <<m, t, "new", c>> \in heard /\ <<m, t, "digest", d>> \in heard

\* When the daily run is over, each member knows of each tender published
\* before it, on every channel of theirs, at once, caught up or in a digest,
\* whatever the server dropped and whenever the member changed their mind.
\* Excepted is what nobody looks for again: a tender dated back, a member
\* paused when the timer fires, a message that fails, meets the cap or dies
\* in or after that run, a tender published while a digest is on its way.
NothingForgotten ==
  \A m \in Members, t \in PublishedBy(history.settled) \ history.late :
    <<m, t>> \notin history.excused =>
      \A c \in UNION Alerts[m] :
        \/ \E way \in {"new", "digest"} : <<m, t, way, c>> \in heard
        \/ \E p \in Procs : \E i \in job[p].now :
             i.to = m /\ i.subject = <<"new", t>> /\ c \in job[p].sending

=============================================================================
