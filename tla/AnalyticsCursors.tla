-------------------------- MODULE AnalyticsCursors --------------------------
(***************************************************************************)
(* How email-analytics/ learns what became of the emails it has sent.      *)
(* Mailgun keeps events (delivered, opened, failed) and shows some of them *)
(* late.  Every few minutes startFetch runs three jobs, one after the      *)
(* other: the latest opens, the latest of the other events, and "missing", *)
(* which goes over everything again once Mailgun is sure to show it.  Each *)
(* job has a cursor in memory and a row in the table jobs, from which it   *)
(* goes on after a restart.                                                *)
(***************************************************************************)
EXTENDS AnalyticsPages

CONSTANTS
  Events,     \* a set of numbers
  Opens,      \* the events of type opened
  Late,       \* the events Mailgun may show late
  Domains,    \* number of domains, of the account and for the warm-up
  DomainOf,   \* of each event
  Batched,    \* emailAnalytics:batchProcessing
  MaxEvents,  \* events after which a run of the jobs ends
  Trust,      \* TRUST_THRESHOLD_MS
  EndMargin,  \* FETCH_LATEST_END_MARGIN_MS
  KnownJobs,  \* jobs that have run before, up to time 0
  FirstSeen,  \* the latest time in the rows of recipients, or None
  MaxOccur,   \* bound: time of the last event
  MaxTime,    \* bound: the clock
  MaxFaults   \* bound: failures and crashes

Jobs == {"opened", "others", "missing"}
Times == 0..MaxTime

ASSUME CursorsAssumption ==
  /\ Events \subseteq Nat /\ IsFiniteSet(Events)
  /\ Opens \subseteq Events /\ Late \subseteq Events
  /\ Domains \in Nat \ {0} /\ DomainOf \in [Events -> 1..Domains] /\ Batched \in BOOLEAN
  /\ MaxEvents \in Nat \ {0} /\ EndMargin \in Nat \ {0} /\ Trust \in Nat /\ Trust > EndMargin
  /\ KnownJobs \subseteq Jobs /\ FirstSeen \in Times \cup {None}
  /\ MaxTime \in Nat /\ MaxOccur \in Times /\ MaxFaults \in Nat

VARIABLES
  now,
  at,      \* when each event occurred, or None
  shown,   \* the events Mailgun lists
  mem,     \* per job: lastEventTimestamp and lastBegin, or None
  row,     \* per job: started_at and finished_at of its row, or None
  pending, \* events in #pendingUpdates
  stored,  \* events written to the rows of recipients
  run,     \* where startFetch is
  faults

vars == <<now, at, shown, mem, row, pending, stored, run, faults>>
clock == <<now, at, shown>>

Moments == Times \cup {None}
Cursors == -Second..(MaxTime + Second)
Idle == [job |-> "idle", step |-> "read", begin |-> 0, end |-> 0, limit |-> 0,
         domain |-> 1, count |-> 0, ofDomain |-> 0, given |-> {}, used |-> 0,
         failed |-> FALSE]

TypeOK ==
  /\ now \in Times /\ at \in [Events -> Moments]
  /\ shown \subseteq {e \in Events : at[e] # None}
  /\ mem \in [Jobs -> [last : Cursors, begin : Cursors]]
  /\ row \in [Jobs -> [started : Cursors, finished : Cursors]]
  \* Every event comes from Mailgun, and nothing waits that is not batched.
  /\ pending \cup stored \subseteq shown /\ (~Batched => pending = {})
  /\ run.job \in Jobs \cup {"idle"} /\ run.step \in {"lag", "read", "pages"}
  /\ run.given \subseteq shown /\ run.ofDomain <= run.count
  \* A fetch moves the cursor of its job forward only.
  /\ run.step = "pages" =>
       /\ run.begin < run.end /\ mem[run.job].last \in {None} \cup run.begin..run.end
       /\ run.begin = mem[run.job].begin
  /\ faults \in 0..MaxFaults

Init ==
  /\ now = 0
  /\ at = [e \in Events |-> None]
  /\ shown = {} /\ pending = {} /\ stored = {}
  /\ mem = [j \in Jobs |-> [last |-> None, begin |-> None]]
  /\ row = [j \in Jobs |-> LET t == IF j \in KnownJobs THEN 0 ELSE None
                           IN  [started |-> t, finished |-> t]]
  /\ run = Idle
  /\ faults = 0

-----------------------------------------------------------------------------
(* Mailgun and the clock.                                                  *)

Occur(e) ==
  /\ at[e] = None /\ now <= MaxOccur
  /\ at' = [at EXCEPT ![e] = now]
  /\ shown' = IF e \in Late THEN shown ELSE shown \cup {e}
  /\ UNCHANGED <<now, mem, row, pending, stored, run, faults>>

Show(e) ==
  /\ at[e] # None /\ e \notin shown
  /\ shown' = shown \cup {e}
  /\ UNCHANGED <<now, at, mem, row, pending, stored, run, faults>>

\* Mailgun shows an event before it is older than the threshold.
Tick ==
  /\ now < MaxTime
  /\ \A e \in Events \ shown : at[e] # None => now + 1 - at[e] < Trust
  /\ now' = now + 1
  /\ UNCHANGED <<at, shown, mem, row, pending, stored, run, faults>>

-----------------------------------------------------------------------------
(* Cursors.                                                                *)

OfJob(j) == CASE j = "opened"  -> Opens
              [] j = "others"  -> Events \ Opens
              [] j = "missing" -> Events

HasRow(j) == row[j].started # None \/ row[j].finished # None
LastJobRun(j) == IF row[j].finished # None THEN row[j].finished ELSE row[j].started

\* Mutant of Resumed: only the table is asked.
ResumedFromRow(j) == IF HasRow(j) THEN LastJobRun(j) ELSE 0

\* getLastOpenedEventTimestamp and its like.  Time begins at 0.
Resumed(j) ==
  LET found == IF HasRow(j) \/ j = "missing" THEN LastJobRun(j) ELSE FirstSeen
      back == now - (IF j = "missing" THEN 4 * Trust ELSE Trust)
  IN  IF mem[j].last # None THEN mem[j].last
      ELSE IF found # None THEN found
      ELSE IF back > 0 THEN back ELSE 0

\* Asking for the cursor of a job without a row creates one, started now.
RowAsked(j) ==
  IF mem[j].last # None \/ HasRow(j) \/ j = "missing" THEN row[j]
  ELSE [started |-> now, finished |-> None]

EndOf(j) ==
  IF j # "missing" THEN now - EndMargin
  ELSE IF mem["others"].begin = None THEN now - Trust
  ELSE Min({now - Trust, mem["others"].begin})

-----------------------------------------------------------------------------
(* EmailAnalyticsServiceWrapper.startFetch.                                *)

First == [Idle EXCEPT !.job = "opened", !.step = "lag"]

\* What follows a job that saw `count` events.
After(count) ==
  LET used == run.used + count
  IN  CASE run.job = "opened" /\ count >= MaxEvents -> First
        [] run.job = "opened" /\ count < MaxEvents ->
             [Idle EXCEPT !.job = "others", !.used = used]
        [] run.job = "others" -> [Idle EXCEPT !.job = "missing", !.used = used]
        [] run.job = "missing" -> IF used > MaxEvents THEN First ELSE Idle

\* The timer; a run under way is not joined by another.
Start ==
  /\ run.job = "idle"
  /\ run' = First
  /\ UNCHANGED <<clock, mem, row, pending, stored, faults>>

\* fetchLatestOpenedEvents of the wrapper asks for the cursor to log the lag.
LogLag ==
  /\ run.step = "lag"
  /\ row' = [row EXCEPT !["opened"] = RowAsked("opened")]
  /\ run' = [run EXCEPT !.step = "read"]
  /\ UNCHANGED <<clock, mem, pending, stored, faults>>

\* The window; an update of the row that fails is only logged.
Begin(updated) ==
  LET j == run.job
      begin == Resumed(j)
  IN  /\ j # "idle" /\ run.step = "read"
      /\ faults + (IF updated THEN 0 ELSE 1) <= MaxFaults
      /\ IF EndOf(j) <= begin
           THEN /\ updated
                /\ row' = [row EXCEPT ![j] = RowAsked(j)]
                /\ run' = After(0)
                /\ UNCHANGED <<mem, faults>>
           ELSE /\ mem' = [mem EXCEPT ![j].begin = begin]
                /\ row' = [row EXCEPT ![j] =
                     IF updated THEN [RowAsked(j) EXCEPT !.started = begin] ELSE RowAsked(j)]
                /\ run' = [run EXCEPT !.step = "pages", !.begin = begin, !.end = EndOf(j),
                                      !.limit = MaxEvents - run.used]
                /\ faults' = faults + (IF updated THEN 0 ELSE 1)
      /\ UNCHANGED <<clock, pending, stored>>

-----------------------------------------------------------------------------
(* EmailAnalyticsService.#fetchEvents.                                     *)

Found == {e \in shown \cap OfJob(run.job) :
            at[e] \in run.begin..run.end /\ DomainOf[e] = run.domain}
Page == NextPage(at, Found, run.given)

Fetching == run.step = "pages" /\ run.domain <= Domains /\ ~run.failed

\* Mutant of Flushed: the buffer is emptied before it is written.
FlushedLast(page) == page

\* All that waits is written, not only the events of this page.
Flushed(page) == pending \cup page

Moved(page) == [mem EXCEPT ![run.job].last = Later(@, {at[e] : e \in page})]

NextDomain == [run EXCEPT !.domain = @ + 1, !.ofDomain = 0, !.given = {}]

DomainDone ==
  /\ Fetching /\ Page = {}
  /\ run' = NextDomain
  /\ UNCHANGED <<clock, mem, row, pending, stored, faults>>

TakePage ==
  LET seen == [run EXCEPT !.count = @ + Cardinality(Page),
                          !.ofDomain = @ + Cardinality(Page),
                          !.given = @ \cup Page]
  IN  /\ Fetching /\ Page # {}
      /\ stored' = stored \cup Flushed(Page)
      /\ pending' = {}
      /\ mem' = Moved(Page)
      /\ run' = IF EnoughOf(seen.ofDomain, run.limit, Latest(at, Page), run.begin)
                  THEN [NextDomain EXCEPT !.count = seen.count]
                  ELSE seen
      /\ UNCHANGED <<clock, row, faults>>

\* Mailgun or the database fails.  In a batch, events wait in the buffer for
\* the next flush; what a flush writes before its error waits there too.
PageFails(done) ==
  /\ Fetching /\ faults < MaxFaults
  /\ done \in FirstFew(at, Page)
  /\ IF Batched THEN pending' = pending \cup done /\ UNCHANGED stored
                ELSE stored' = stored \cup done /\ UNCHANGED pending
  /\ mem' = Moved(done)
  /\ run' = [run EXCEPT !.failed = TRUE]
  /\ faults' = faults + 1
  /\ UNCHANGED <<clock, row>>

Succeeded(ok) == ok /\ run.count > 0 /\ mem[run.job].last < now

\* The final aggregation may fail, and the update of the row.
Finish(ok, updated) ==
  LET j == run.job
      good == Succeeded(ok /\ ~run.failed)
      bad == (IF ok THEN 0 ELSE 1) + (IF updated THEN 0 ELSE 1)
  IN  /\ run.step = "pages" /\ (run.domain > Domains \/ run.failed)
      /\ ~run.failed \/ (ok /\ updated)
      /\ faults + bad <= MaxFaults
      /\ faults' = faults + bad
      /\ row' = IF good /\ updated THEN [row EXCEPT ![j].finished = mem[j].last] ELSE row
      /\ mem' = IF good THEN [mem EXCEPT ![j].last = Advanced(@, run.count, run.limit)]
                        ELSE mem
      /\ run' = IF ok /\ ~run.failed THEN After(run.count) ELSE Idle
      /\ UNCHANGED <<clock, pending, stored>>

\* Memory is lost.
Crash ==
  /\ faults < MaxFaults
  /\ mem' = [j \in Jobs |-> [last |-> None, begin |-> None]]
  /\ pending' = {}
  /\ run' = Idle
  /\ faults' = faults + 1
  /\ UNCHANGED <<clock, row, stored>>

-----------------------------------------------------------------------------
Step ==
  \/ Start
  \/ LogLag
  \/ Begin(TRUE)
  \/ DomainDone
  \/ TakePage
  \/ Finish(TRUE, TRUE)

Fault ==
  \/ Begin(FALSE)
  \/ \E done \in SUBSET Events : PageFails(done)
  \/ Finish(FALSE, TRUE)
  \/ Finish(TRUE, FALSE)
  \/ Crash

Next ==
  \/ \E e \in Events : Occur(e) \/ Show(e)
  \/ Tick
  \/ Step
  \/ Fault

Spec == Init /\ [][Next]_vars

\* The timer of the jobs and the clock go on, Mailgun answers, and shows
\* what occurred in the end.
Fairness ==
  /\ WF_vars(Step)
  /\ WF_vars(Tick)
  /\ \A e \in Late : WF_vars(Show(e))

FairSpec == Spec /\ Fairness

-----------------------------------------------------------------------------
(* Properties.                                                             *)

\* What a job may not pass over: "missing" sees everything, for it comes
\* late enough, the others what Mailgun shows at once.
Owed(j) == {e \in OfJob(j) : at[e] # None /\ (j = "missing" \/ e \notin Late)}

Cursor(j) == IF mem[j].last # None THEN mem[j].last ELSE LastJobRun(j)

\* The cursor of a job is past an event only when the event was written or
\* waits to be, whatever pages, limits, errors and restarts did in between;
\* and the cursor in the table only when it was written, so that a restart
\* at any point, with a buffer full of updates, loses none (processBatch,
\* which moves the cursor before it flushes, and #fetchEvents).
CursorsPassNothing ==
  \A j \in Jobs : \A e \in Owed(j) :
    /\ Cursor(j) > at[e] => e \in stored \cup pending
    /\ row[j].finished > at[e] => e \in stored

\* What Mailgun shows is written to the row of its recipient in the end,
\* late as it may be shown and however often a fetch stops at its maximum
\* (fetchMissing: "we are sure we don't miss any events").
EveryEventStored == \A e \in Events : (e \in shown) ~> (e \in stored)

=============================================================================
