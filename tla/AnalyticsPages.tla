--------------------------- MODULE AnalyticsPages ---------------------------
(***************************************************************************)
(* What the jobs of the email analytics have in common: Mailgun lists the  *)
(* events of a window in order of time, a page at a time, and a job keeps  *)
(* a cursor, the time of the last event it has seen.                       *)
(***************************************************************************)
EXTENDS Integers, FiniteSets, FiniteSetsExt

CONSTANTS
  PageLimit, \* events on a page
  Second     \* units of time to a second

ASSUME PagesAssumption == PageLimit \in Nat \ {0} /\ Second \in Nat \ {0}

None == -1

\* Events are numbers: Mailgun lists those of one moment in that order.
Before(at, e, f) == at[e] < at[f] \/ (at[e] = at[f] /\ e < f)
Latest(at, E) == Max({at[e] : e \in E})

\* The page that follows those returned so far, `given`, of the events found.
NextPage(at, found, given) ==
  LET rest == {e \in found \ given : \A g \in given : Before(at, g, e)}
  IN  {e \in rest : Cardinality({f \in rest : Before(at, f, e)}) < PageLimit}

\* Events are handled one after the other: an error leaves the first few.
FirstFew(at, page) ==
  {F \in SUBSET page : \A e \in F, f \in page \ F : Before(at, e, f)}

\* Mutant of EnoughOf: the maximum is strict.
EnoughOfStrict(count, maxEvents, last, begin) == count >= maxEvents

\* Not before something later than the beginning was seen, or the next
\* fetch would begin where this one did.
EnoughOf(count, maxEvents, last, begin) == count >= maxEvents /\ last > begin

Later(last, moments) == Max({last} \cup moments)

\* Mutant of Advanced: the cursor moves on however many events there were.
AdvancedAlways(last, count, maxEvents) == last + Second

\* The cursor after a fetch without error that found something.
Advanced(last, count, maxEvents) ==
  IF count < maxEvents THEN last + Second ELSE last

=============================================================================
