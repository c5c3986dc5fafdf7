----------------------- MODULE AnalyticsCursors_proofs -----------------------
(***************************************************************************)
(* Theorems about AnalyticsCursors, for every set of events, every size of *)
(* pages and maximum, and every number of faults.                          *)
(***************************************************************************)
EXTENDS AnalyticsCursors, FiniteSetTheorems, WellFoundedInduction, TLAPS

-----------------------------------------------------------------------------
(* Least and greatest, of sets of numbers within bounds.                   *)

LEMMA LeastNatural ==
  ASSUME NEW S \in SUBSET Nat, S # {}
  PROVE  \E x \in S : \A y \in S : x <= y
<1>1. \E x \in S : \A y \in S : ~(<<y, x>> \in OpToRel(<, Nat))
  BY NatLessThanWellFounded, WFMin
<1>2. PICK x \in S : \A y \in S : ~(<<y, x>> \in OpToRel(<, Nat))
  BY <1>1
<1>3. \A y \in S : ~(y < x)
  BY <1>2 DEF OpToRel
<1> QED
  BY <1>3

LEMMA GreatestInteger ==
  ASSUME NEW S \in SUBSET Int, S # {}, NEW n \in Int, \A x \in S : x <= n
  PROVE  Max(S) \in S /\ \A x \in S : x <= Max(S)
<1> DEFINE T == {n - x : x \in S}
<1>1. T \in SUBSET Nat /\ T # {}
  <2>1. \A x \in S : n - x \in Nat
    OBVIOUS
  <2> QED
    BY <2>1
<1>2. PICK t \in T : \A y \in T : t <= y
  BY <1>1, LeastNatural
<1>3. PICK x \in S : t = n - x
  OBVIOUS
<1>4. \A y \in S : n - y \in T
  OBVIOUS
<1>5. \A y \in S : x >= y
  BY <1>2, <1>3, <1>4
<1> QED
  BY <1>5 DEF Max

LEMMA SmallerOfTwo ==
  ASSUME NEW a \in Int, NEW b \in Int
  PROVE  Min({a, b}) \in {a, b} /\ Min({a, b}) <= a /\ Min({a, b}) <= b
<1>1. \E x \in {a, b} : \A y \in {a, b} : x =< y
  OBVIOUS
<1> QED
  BY <1>1 DEF Min

-----------------------------------------------------------------------------
(* Pages.  Events have occurred where they are listed, so their moments    *)
(* are numbers.                                                            *)

\* Before is a strict order of the events that have occurred.
LEMMA BeforeIsAnOrder ==
  ASSUME NEW E \in SUBSET Nat, NEW t, \A e \in E : t[e] \in Int
  PROVE  /\ \A e, f \in E : e = f \/ Before(t, e, f) \/ Before(t, f, e)
         /\ \A e, f \in E : ~(Before(t, e, f) /\ Before(t, f, e))
         /\ \A e, f, g \in E : Before(t, e, f) /\ Before(t, f, g) => Before(t, e, g)
BY DEF Before

\* Some event of a set is before all others.
LEMMA FirstEvent ==
  ASSUME NEW E \in SUBSET Nat, E # {}, NEW t, \A e \in E : t[e] \in Nat
  PROVE  \E e \in E : \A f \in E : ~Before(t, f, e)
<1> DEFINE M == {t[e] : e \in E}
<1>1. PICK m \in M : \A x \in M : m <= x
  <2>1. M \in SUBSET Nat /\ M # {}
    OBVIOUS
  <2> QED
    BY <2>1, LeastNatural
<1> DEFINE F == {e \in E : t[e] = m}
<1>2. PICK e \in F : \A f \in F : e <= f
  <2>1. F \in SUBSET Nat /\ F # {}
    OBVIOUS
  <2> QED
    BY <2>1, LeastNatural
<1>3. ASSUME NEW f \in E, Before(t, f, e) PROVE FALSE
  <2>1. m <= t[f] /\ t[e] = m /\ t[f] \in Nat /\ m \in Nat
    BY <1>1, <1>2
  <2>2. t[f] = m /\ f < e
    BY <1>3, <2>1 DEF Before
  <2>3. f \in F /\ f \in Nat /\ e \in Nat
    BY <2>2
  <2>4. e <= f
    BY <1>2, <2>3
  <2> QED
    BY <2>2, <2>3, <2>4
<1> QED
  BY <1>2, <1>3

\* A page belongs to what was found and was not given before.
LEMMA PageIsNew ==
  ASSUME NEW t, NEW found, NEW given
  PROVE  NextPage(t, found, given) \subseteq found \ given
BY DEF NextPage

\* Nothing that follows what was given is left out before a page.
LEMMA PageSkipsNothing ==
  ASSUME NEW found \in SUBSET Nat, IsFiniteSet(found), NEW t, \A e \in found : t[e] \in Nat,
         NEW given, given \subseteq found,
         NEW e \in found \ given, \A g \in given : ~Before(t, e, g),
         NEW f \in NextPage(t, found, given), Before(t, e, f)
  PROVE  e \in NextPage(t, found, given)
<1> DEFINE rest == {x \in found \ given : \A g \in given : Before(t, g, x)}
           ahead(x) == {y \in rest : Before(t, y, x)}
<1>1. e \in rest /\ f \in rest /\ Cardinality(ahead(f)) < PageLimit
  <2>1. \A g \in given : Before(t, g, e)
    BY DEF Before
  <2> QED
    BY <2>1 DEF NextPage
<1>2. ahead(e) \subseteq ahead(f)
  <2>1. \A y \in rest : Before(t, y, e) => Before(t, y, f)
    BY <1>1, BeforeIsAnOrder
  <2> QED
    BY <2>1
<1>3. IsFiniteSet(ahead(f)) /\ IsFiniteSet(ahead(e))
  BY FS_Subset
<1>4. Cardinality(ahead(e)) <= Cardinality(ahead(f))
  BY <1>2, <1>3, FS_Subset
<1>5. Cardinality(ahead(e)) \in Nat /\ Cardinality(ahead(f)) \in Nat
  BY <1>3, FS_CardinalityType
<1>6. Cardinality(ahead(e)) < PageLimit
  BY <1>1, <1>4, <1>5, PagesAssumption
<1> QED
  BY <1>1, <1>6 DEF NextPage

\* There is a page as long as something follows what was given.
LEMMA PageNotEmpty ==
  ASSUME NEW found \in SUBSET Nat, IsFiniteSet(found), NEW t, \A e \in found : t[e] \in Nat,
         NEW given, given \subseteq found,
         NEW e \in found \ given, \A g \in given : ~Before(t, e, g)
  PROVE  NextPage(t, found, given) # {}
<1> DEFINE rest == {x \in found \ given : \A g \in given : Before(t, g, x)}
<1>1. e \in rest
  BY DEF Before
<1>2. PICK x \in rest : \A y \in rest : ~Before(t, y, x)
  <2>1. rest \in SUBSET Nat /\ rest # {} /\ \A y \in rest : t[y] \in Nat
    BY <1>1
  <2> HIDE DEF rest
  <2> QED
    BY <2>1, FirstEvent
<1>3. {y \in rest : Before(t, y, x)} = {}
  BY <1>2
<1>4. Cardinality({y \in rest : Before(t, y, x)}) = 0
  BY <1>3, FS_EmptySet
<1> QED
  BY <1>2, <1>4, PagesAssumption DEF NextPage

-----------------------------------------------------------------------------
(* Types.                                                                  *)

Runs == [job : Jobs \cup {"idle"}, step : {"lag", "read", "pages"}, begin : Int, end : Int,
         limit : Int, domain : Nat, count : Nat, ofDomain : Nat, given : SUBSET Events,
         used : Nat, failed : BOOLEAN]

\* Who reads pages has a window that ended before now.
InWindow ==
  run.step = "pages" =>
    /\ run.job \in Jobs /\ run.begin \in Cursors
    /\ run.end <= now - EndMargin /\ (run.job = "missing" => run.end <= now - Trust)

IInv == TypeOK /\ run \in Runs /\ InWindow

LEMMA Numbers ==
  /\ None = -1 /\ Second \in Nat \ {0} /\ PageLimit \in Nat \ {0}
  /\ MaxTime \in Nat /\ Trust \in Nat /\ EndMargin \in Nat \ {0} /\ MaxEvents \in Nat \ {0}
  /\ Cursors \subseteq Int /\ Times \subseteq Cursors /\ None \in Cursors
  /\ Times \subseteq Nat /\ 0 \in Times /\ Moments \subseteq Cursors
  /\ FirstSeen \in Cursors /\ KnownJobs \subseteq Jobs /\ MaxFaults \in Nat
  /\ Events \subseteq Nat /\ IsFiniteSet(Events)
BY PagesAssumption, CursorsAssumption DEF None, Cursors, Times, Moments

LEMMA ResumedType ==
  ASSUME IInv, NEW j \in Jobs
  PROVE  /\ Resumed(j) \in Cursors
         /\ mem[j].last # None => Resumed(j) = mem[j].last
<1>1. /\ mem[j] \in [last : Cursors, begin : Cursors]
      /\ row[j] \in [started : Cursors, finished : Cursors] /\ now \in Times
  BY DEF IInv, TypeOK
<1> DEFINE back == now - (IF j = "missing" THEN 4 * Trust ELSE Trust)
<1>2. back \in Int /\ (back > 0 => back \in Times)
  BY <1>1, Numbers DEF Times
<1>3. LastJobRun(j) \in Cursors
  BY <1>1 DEF LastJobRun
<1> HIDE DEF back
<1> QED
  BY <1>1, <1>2, <1>3, Numbers DEF Resumed, back

LEMMA EndType ==
  ASSUME IInv, NEW j \in Jobs
  PROVE  /\ EndOf(j) \in Int /\ EndOf(j) <= now - EndMargin
         /\ j = "missing" => EndOf(j) <= now - Trust
<1>1. now \in Nat /\ mem["others"].begin \in Int
  BY Numbers DEF IInv, TypeOK, Jobs
<1>2. Trust \in Nat /\ EndMargin \in Nat /\ Trust > EndMargin
  BY CursorsAssumption
<1> DEFINE m == Min({now - Trust, mem["others"].begin})
<1>3. m \in Int /\ m <= now - Trust
  <2>1. now - Trust \in Int
    BY <1>1, <1>2
  <2>2. m \in {now - Trust, mem["others"].begin} /\ m <= now - Trust
    BY <1>1, <2>1, SmallerOfTwo
  <2> QED
    BY <1>1, <2>1, <2>2
<1>4. EndOf(j) \in {now - EndMargin, now - Trust, m} /\ (j = "missing" => EndOf(j) \in {now - Trust, m})
  BY DEF EndOf
<1> HIDE DEF m
<1> QED
  BY <1>1, <1>2, <1>3, <1>4

LEMMA RowAskedType ==
  ASSUME IInv, NEW j \in Jobs
  PROVE  RowAsked(j) \in [started : Cursors, finished : Cursors]
BY Numbers DEF IInv, TypeOK, RowAsked

LEMMA IdleIsARun == Idle \in Runs /\ First \in Runs /\ Idle.step # "pages" /\ First.step # "pages"
<1>1. Idle \in Runs /\ Idle.step = "read"
  BY DEF Idle, Runs
<1> QED
  BY <1>1 DEF First, Runs, Jobs

\* A job that has begun is followed by one that has not.
LEMMA AfterType ==
  ASSUME IInv, run.job \in Jobs, NEW count \in Nat
  PROVE  After(count) \in Runs /\ After(count).step # "pages"
<1>1. run.used + count \in Nat /\ MaxEvents \in Nat
  BY Numbers DEF IInv, Runs
<1> DEFINE next(j) == [Idle EXCEPT !.job = j, !.used = run.used + count]
<1>2. \A j \in Jobs : next(j) \in Runs /\ next(j).step # "pages"
  <2>1. Idle \in Runs /\ Idle.step # "pages"
    BY IdleIsARun
  <2> QED
    BY <1>1, <2>1 DEF Runs
<1>3. After(count) \in {First, Idle, next("others"), next("missing")}
  BY <1>1 DEF After, Jobs
<1> HIDE DEF next
<1> QED
  BY <1>2, <1>3, IdleIsARun DEF Jobs

\* What a page holds lies in the window.
LEMMA PageType ==
  ASSUME IInv, run.step = "pages"
  PROVE  /\ Found \subseteq Events /\ IsFiniteSet(Found) /\ Page \subseteq Found \ run.given
         /\ Found \subseteq shown
         /\ \A e \in Found : at[e] \in Nat /\ run.begin <= at[e] /\ at[e] <= run.end
         /\ IsFiniteSet(Page) /\ Cardinality(Page) \in Nat
<1>1. shown \subseteq Events /\ \A e \in shown : at[e] \in Times
  BY Numbers DEF IInv, TypeOK, Moments
<1>2. Found \subseteq Events /\ Found \subseteq shown
  BY <1>1 DEF Found
<1>3. run.begin \in Int /\ run.end \in Int
  BY DEF IInv, Runs
<1>4. \A e \in Found : at[e] \in Nat /\ run.begin <= at[e] /\ at[e] <= run.end
  <2>1. SUFFICES ASSUME NEW e \in Found
                 PROVE  at[e] \in Nat /\ run.begin <= at[e] /\ at[e] <= run.end
    OBVIOUS
  <2>2. e \in shown /\ at[e] \in run.begin..run.end
    BY DEF Found
  <2>3. at[e] \in Nat
    BY <1>1, <2>2, Numbers
  <2> QED
    BY <1>3, <2>2, <2>3
<1>5. Page \subseteq Found \ run.given
  BY PageIsNew DEF Page
<1>6. IsFiniteSet(Found) /\ IsFiniteSet(Page)
  BY <1>2, <1>5, Numbers, FS_Subset
<1> QED
  BY <1>2, <1>4, <1>5, <1>6, FS_CardinalityType

\* A cursor moves to an event of the page, or stays.
LEMMA MovedType ==
  ASSUME IInv, run.step = "pages", NEW page \in SUBSET Page
  PROVE  LET last == mem[run.job].last
             new == Later(last, {at[e] : e \in page})
         IN  /\ Moved(page) = [mem EXCEPT ![run.job].last = new]
             /\ new \in {None} \cup run.begin..run.end
             /\ new \in {last} \cup {at[e] : e \in page}
             /\ new >= last /\ \A e \in page : new >= at[e]
             /\ Moved(page) \in [Jobs -> [last : Cursors, begin : Cursors]]
<1> DEFINE last == mem[run.job].last
           moments == {at[e] : e \in page}
           new == Later(last, moments)
<1>1. /\ run.job \in Jobs /\ run.begin \in Cursors /\ run.end \in Int /\ now \in Times
      /\ run.end <= now - EndMargin
      /\ mem \in [Jobs -> [last : Cursors, begin : Cursors]]
      /\ last \in {None} \cup run.begin..run.end
  BY DEF IInv, TypeOK, InWindow, Runs
<1>0. /\ run.begin \in Int /\ now \in Nat /\ EndMargin \in Nat /\ run.end <= now
      /\ last \in Int /\ last <= now
  <2>1. run.begin \in Int /\ now \in Nat /\ EndMargin \in Nat /\ None = -1
    BY <1>1, Numbers
  <2> QED
    BY <1>1, <2>1
<1>2. \A x \in moments : x \in Nat /\ x \in run.begin..run.end
  <2>1. \A e \in page : at[e] \in Nat /\ run.begin <= at[e] /\ at[e] <= run.end
    BY PageType
  <2>2. run.begin \in Int
    BY <1>1, Numbers
  <2> QED
    BY <1>1, <2>1, <2>2
<1>3. new \in {last} \cup moments /\ \A x \in {last} \cup moments : x <= new
  <2> DEFINE S == {last} \cup moments
  <2>1. S \in SUBSET Int /\ S # {} /\ now \in Int
    BY <1>1, <1>2, Numbers
  <2>2. \A x \in S : x <= now
    <3>1. \A x \in moments : x <= now
      BY <1>0, <1>1, <1>2
    <3> QED
      BY <1>0, <3>1
  <2> HIDE DEF S
  <2>3. Max(S) \in S /\ \A x \in S : x <= Max(S)
    BY <2>1, <2>2, GreatestInteger
  <2> QED
    BY <2>3 DEF Later, S
<1>4. new \in {None} \cup run.begin..run.end
  BY <1>1, <1>2, <1>3
<1>5. new \in Cursors
  <2>1. run.begin..run.end \subseteq Cursors
    BY <1>1, Numbers DEF Cursors, Times
  <2> QED
    BY <1>4, <2>1, Numbers
<1>6. Moved(page) = [mem EXCEPT ![run.job].last = new]
  BY DEF Moved
<1>7. new >= last /\ \A e \in page : new >= at[e]
  <2>1. last <= new /\ \A e \in page : at[e] <= new
    BY <1>3
  <2>2. last \in Int /\ new \in Int
    BY <1>0, <1>5, Numbers
  <2>3. ASSUME NEW e \in page PROVE at[e] \in Int
    BY <1>2
  <2> HIDE DEF new, last
  <2> QED
    BY <2>1, <2>2, <2>3
<1>8. Moved(page) \in [Jobs -> [last : Cursors, begin : Cursors]]
  BY <1>1, <1>5, <1>6
<1> HIDE DEF new
<1> QED
  BY <1>3, <1>4, <1>6, <1>7, <1>8 DEF new

-----------------------------------------------------------------------------
(* The types, and where a fetch reads.                                     *)

\* What happened in Mailgun leaves the jobs alone.
LEMMA MailgunTypes ==
  ASSUME IInv, (\E e \in Events : Occur(e) \/ Show(e)) \/ Tick
  PROVE  IInv'
<1>1. /\ now \in Nat /\ now \in Times /\ at \in [Events -> Moments]
      /\ \A e \in shown : e \in Events /\ at[e] # None
  BY Numbers DEF IInv, TypeOK
<1>2. /\ now' \in Times /\ now <= now' /\ at' \in [Events -> Moments] /\ shown \subseteq shown'
      /\ shown' \subseteq {e \in Events : at'[e] # None}
  <2>1. ASSUME NEW e \in Events, Occur(e)
        PROVE  /\ now' = now /\ at' \in [Events -> Moments] /\ shown \subseteq shown'
               /\ shown' \subseteq {x \in Events : at'[x] # None}
    <3>1. now # None
      BY <1>1, Numbers
    <3>2. at' = [at EXCEPT ![e] = now] /\ shown' \in {shown, shown \cup {e}} /\ now' = now
      BY <2>1 DEF Occur
    <3> QED
      BY <1>1, <3>1, <3>2 DEF Moments
  <2>2. ASSUME NEW e \in Events, Show(e)
        PROVE  /\ now' = now /\ at' = at /\ shown \subseteq shown'
               /\ shown' \subseteq {x \in Events : at'[x] # None}
    BY <1>1, <2>2 DEF Show
  <2>3. CASE Tick
    BY <1>1, <2>3, Numbers DEF Tick, Times
  <2> QED
    BY <1>1, <2>1, <2>2, <2>3
<1>3. UNCHANGED <<mem, row, pending, stored, run, faults>>
  BY DEF Occur, Show, Tick
<1>4. TypeOK'
  BY <1>2, <1>3 DEF IInv, TypeOK
<1>5. InWindow'
  <2>1. run.end \in Int /\ now' \in Nat
    BY <1>2, Numbers DEF IInv, Runs
  <2>2. EndMargin \in Nat /\ Trust \in Nat
    BY Numbers
  <2> QED
    BY <1>1, <1>2, <1>3, <2>1, <2>2 DEF IInv, InWindow
<1> QED
  BY <1>3, <1>4, <1>5 DEF IInv

\* Where no pages are read afterwards.
LEMMA NoPages ==
  ASSUME IInv, run' \in Runs, run'.step # "pages", UNCHANGED clock,
         mem' \in [Jobs -> [last : Cursors, begin : Cursors]],
         row' \in [Jobs -> [started : Cursors, finished : Cursors]],
         pending' \cup stored' \subseteq shown, ~Batched => pending' = {},
         run'.given \subseteq shown, run'.ofDomain <= run'.count, faults' \in 0..MaxFaults
  PROVE  IInv'
<1>1. run'.job \in Jobs \cup {"idle"} /\ run'.step \in {"lag", "read", "pages"}
  BY DEF Runs
<1>2. TypeOK'
  BY <1>1 DEF IInv, TypeOK, clock
<1> QED
  BY <1>2 DEF IInv, InWindow

\* A run that has given nothing yet.
LEMMA Fresh ==
  /\ Idle.given = {} /\ Idle.ofDomain <= Idle.count
  /\ First.given = {} /\ First.ofDomain <= First.count
  /\ \A c \in Nat : run.job \in Jobs => After(c).given = {} /\ After(c).ofDomain <= After(c).count
<1>1. /\ Idle.given = {} /\ Idle.ofDomain = 0 /\ Idle.count = 0
      /\ First.given = {} /\ First.ofDomain = 0 /\ First.count = 0
  BY DEF Idle, First
<1>2. ASSUME NEW c \in Nat, run.job \in Jobs
      PROVE  After(c).given = {} /\ After(c).ofDomain = 0 /\ After(c).count = 0
  <2> DEFINE next(j) == [Idle EXCEPT !.job = j, !.used = run.used + c]
  <2>1. \A j : next(j).given = {} /\ next(j).ofDomain = 0 /\ next(j).count = 0
    BY DEF Idle
  <2>2. After(c) \in {First, Idle, next("others"), next("missing")}
    BY <1>2, Numbers DEF After, Jobs
  <2> HIDE DEF next
  <2> QED
    BY <1>1, <2>1, <2>2
<1> QED
  BY <1>1, <1>2

LEMMA BeginTypes ==
  ASSUME IInv, NEW updated \in BOOLEAN, Begin(updated)
  PROVE  IInv'
<1> DEFINE j == run.job
           b == Resumed(j)
<1>1. /\ j \in Jobs /\ run \in Runs /\ faults \in Nat /\ now \in Times
      /\ mem \in [Jobs -> [last : Cursors, begin : Cursors]]
      /\ row \in [Jobs -> [started : Cursors, finished : Cursors]]
  BY DEF IInv, TypeOK, Begin
<1>2. /\ b \in Cursors /\ (mem[j].last # None => b = mem[j].last)
      /\ EndOf(j) \in Int /\ EndOf(j) <= now - EndMargin
      /\ (j = "missing" => EndOf(j) <= now - Trust)
      /\ RowAsked(j) \in [started : Cursors, finished : Cursors]
  BY <1>1, ResumedType, EndType, RowAskedType
<1>3. /\ UNCHANGED <<clock, pending, stored>>
      /\ pending \cup stored \subseteq shown /\ (~Batched => pending = {})
      /\ run.given \subseteq shown /\ run.ofDomain <= run.count
  BY DEF Begin, IInv, TypeOK
<1>4. faults' \in 0..MaxFaults
  <2>1. faults' \in {faults, faults + (IF updated THEN 0 ELSE 1)}
    BY DEF Begin
  <2> QED
    BY <1>1, <2>1, Numbers DEF Begin, IInv, TypeOK
<1>5. CASE EndOf(j) <= b
  <2>1. row' = [row EXCEPT ![j] = RowAsked(j)] /\ run' = After(0) /\ UNCHANGED mem
    BY <1>5 DEF Begin
  <2>2. run' \in Runs /\ run'.step # "pages"
    BY <1>1, <2>1, AfterType
  <2>3. run'.given \subseteq shown /\ run'.ofDomain <= run'.count
    BY <1>1, <2>1, Fresh
  <2>4. row' \in [Jobs -> [started : Cursors, finished : Cursors]]
    BY <1>1, <1>2, <2>1
  <2> HIDE DEF j
  <2> QED
    BY <1>1, <1>3, <1>4, <2>1, <2>2, <2>3, <2>4, NoPages
<1>6. CASE ~(EndOf(j) <= b)
  <2>1. /\ mem' = [mem EXCEPT ![j].begin = b]
        /\ row' \in {[row EXCEPT ![j] = [RowAsked(j) EXCEPT !.started = b]],
                     [row EXCEPT ![j] = RowAsked(j)]}
        /\ run' = [run EXCEPT !.step = "pages", !.begin = b, !.end = EndOf(j),
                              !.limit = MaxEvents - run.used]
    BY <1>6 DEF Begin
  <2>2. b \in Int /\ b < EndOf(j)
    <3>1. b \in Int /\ EndOf(j) \in Int
      BY <1>2, Numbers
    <3> HIDE DEF j, b
    <3> QED
      BY <1>6, <3>1
  <2>3. run' \in Runs
    <3>1. MaxEvents - run.used \in Int
      BY <1>1, Numbers DEF Runs
    <3> QED
      BY <1>1, <1>2, <2>1, <2>2, <3>1 DEF Runs
  <2>4. /\ run'.job = j /\ run'.step = "pages" /\ run'.begin = b /\ run'.end = EndOf(j)
        /\ run'.given = run.given /\ run'.ofDomain = run.ofDomain /\ run'.count = run.count
    BY <1>1, <2>1 DEF Runs
  <2>5. mem' \in [Jobs -> [last : Cursors, begin : Cursors]]
    BY <1>1, <1>2, <2>1
  <2>6. mem'[j].last \in {None} \cup b..EndOf(j) /\ mem'[j].begin = b
    <3>1. mem'[j].last = mem[j].last /\ mem'[j].begin = b
      BY <1>1, <2>1
    <3> QED
      BY <1>2, <2>2, <3>1
  <2>7. row' \in [Jobs -> [started : Cursors, finished : Cursors]]
    BY <1>1, <1>2, <2>1
  <2> HIDE DEF j, b
  <2>8. TypeOK'
    BY <1>1, <1>3, <1>4, <2>2, <2>4, <2>5, <2>6, <2>7 DEF IInv, TypeOK, clock
  <2>9. InWindow'
    BY <1>1, <1>2, <1>3, <2>4 DEF InWindow, clock
  <2> QED
    BY <2>3, <2>8, <2>9 DEF IInv
<1> QED
  BY <1>5, <1>6

\* Where pages are read and the window stays.
LEMMA StillInPages ==
  ASSUME IInv, run.step = "pages", UNCHANGED <<clock, row>>,
         NEW page \in SUBSET Page, mem' = Moved(page) \/ (mem' = mem /\ page = {}),
         run' \in Runs, run'.step = "pages", run'.job = run.job,
         run'.begin = run.begin, run'.end = run.end,
         run'.given \subseteq run.given \cup page, run'.ofDomain <= run'.count,
         pending' \cup stored' \subseteq pending \cup stored \cup page,
         ~Batched => pending' = {}, faults' \in 0..MaxFaults
  PROVE  IInv'
<1>1. /\ run.job \in Jobs /\ mem \in [Jobs -> [last : Cursors, begin : Cursors]]
      /\ run.begin < run.end /\ mem[run.job].last \in {None} \cup run.begin..run.end
      /\ run.begin = mem[run.job].begin /\ run.begin \in Cursors
      /\ run.given \subseteq shown /\ pending \cup stored \subseteq shown
  BY DEF IInv, TypeOK, InWindow
<1>2. page \subseteq shown
  BY PageType
<1>3. /\ mem' \in [Jobs -> [last : Cursors, begin : Cursors]]
      /\ mem'[run.job].last \in {None} \cup run.begin..run.end
      /\ mem'[run.job].begin = run.begin
  <2>1. CASE mem' = Moved(page)
    <3> DEFINE new == Later(mem[run.job].last, {at[e] : e \in page})
    <3>1. /\ Moved(page) = [mem EXCEPT ![run.job].last = new]
          /\ new \in {None} \cup run.begin..run.end
          /\ Moved(page) \in [Jobs -> [last : Cursors, begin : Cursors]]
      BY MovedType
    <3> HIDE DEF new
    <3> QED
      BY <1>1, <2>1, <3>1
  <2>2. CASE mem' = mem
    BY <1>1, <2>2
  <2> QED
    BY <2>1, <2>2
<1>4. TypeOK'
  <2>1. run'.step \in {"lag", "read", "pages"} /\ run'.job \in Jobs
    BY <1>1
  <2>2. run'.given \subseteq shown /\ pending' \cup stored' \subseteq shown
    BY <1>1, <1>2
  <2> QED
    BY <1>1, <1>3, <2>1, <2>2 DEF IInv, TypeOK, clock
<1> QED
  BY <1>1, <1>4 DEF IInv, InWindow, clock

LEMMA NextDomainType ==
  ASSUME IInv, run.step = "pages"
  PROVE  /\ NextDomain \in Runs /\ NextDomain.step = "pages" /\ NextDomain.job = run.job
         /\ NextDomain.begin = run.begin /\ NextDomain.end = run.end /\ NextDomain.given = {}
         /\ NextDomain.ofDomain = 0 /\ NextDomain.count = run.count
         /\ NextDomain.domain = run.domain + 1 /\ NextDomain.limit = run.limit
         /\ NextDomain.failed = run.failed /\ NextDomain.used = run.used
<1>1. run \in Runs
  BY DEF IInv
<1>2. run.domain + 1 \in Nat /\ {} \in SUBSET Events
  BY <1>1 DEF Runs
<1>3. /\ NextDomain.step = run.step /\ NextDomain.job = run.job
      /\ NextDomain.begin = run.begin /\ NextDomain.end = run.end /\ NextDomain.given = {}
      /\ NextDomain.ofDomain = 0 /\ NextDomain.count = run.count
      /\ NextDomain.domain = run.domain + 1 /\ NextDomain.limit = run.limit
      /\ NextDomain.failed = run.failed /\ NextDomain.used = run.used
  BY <1>1 DEF NextDomain, Runs
<1>4. NextDomain \in Runs
  BY <1>1, <1>2 DEF NextDomain, Runs
<1> QED
  BY <1>3, <1>4

LEMMA DomainDoneTypes ==
  ASSUME IInv, DomainDone
  PROVE  IInv'
<1>1. /\ run.step = "pages" /\ run' = NextDomain
      /\ UNCHANGED <<clock, mem, row, pending, stored, faults>>
  BY DEF DomainDone, Fetching
<1>2. /\ ~Batched => pending' = {}
      /\ faults' \in 0..MaxFaults /\ run.count \in Nat
  BY <1>1 DEF IInv, TypeOK, Runs
<1>3. {} \in SUBSET Page
  OBVIOUS
<1> QED
  BY <1>1, <1>2, <1>3, NextDomainType, StillInPages

\* What TakePage makes of a run.
LEMMA PageTaken ==
  ASSUME IInv, TakePage
  PROVE  /\ run.step = "pages" /\ run' \in Runs /\ run'.step = "pages" /\ run'.job = run.job
         /\ run'.begin = run.begin /\ run'.end = run.end /\ run'.limit = run.limit
         /\ run'.failed = run.failed /\ run'.used = run.used
         /\ run'.count = run.count + Cardinality(Page) /\ run'.ofDomain <= run'.count
         /\ \/ /\ EnoughOf(run.ofDomain + Cardinality(Page), run.limit, Latest(at, Page), run.begin)
               /\ run'.given = {} /\ run'.domain = run.domain + 1
            \/ /\ run'.given = run.given \cup Page /\ run'.domain = run.domain
               /\ run'.ofDomain = run.ofDomain + Cardinality(Page)
<1>1. run.step = "pages"
  BY DEF TakePage, Fetching
<1> DEFINE n == Cardinality(Page)
           seen == [run EXCEPT !.count = @ + n, !.ofDomain = @ + n, !.given = @ \cup Page]
           full == EnoughOf(seen.ofDomain, run.limit, Latest(at, Page), run.begin)
           next == [NextDomain EXCEPT !.count = seen.count]
<1>2. run \in Runs /\ n \in Nat /\ Page \subseteq Events /\ run.ofDomain <= run.count
  BY <1>1, PageType DEF IInv, TypeOK
<1> HIDE DEF n
<1>3. /\ seen \in Runs /\ seen.step = run.step /\ seen.job = run.job
      /\ seen.begin = run.begin /\ seen.end = run.end /\ seen.limit = run.limit
      /\ seen.failed = run.failed /\ seen.used = run.used
      /\ seen.count = run.count + n /\ seen.ofDomain = run.ofDomain + n
      /\ seen.given = run.given \cup Page /\ seen.domain = run.domain
      /\ seen.ofDomain <= seen.count
  <2>1. /\ run.count + n \in Nat /\ run.ofDomain + n \in Nat
        /\ run.given \cup Page \in SUBSET Events /\ run.ofDomain + n <= run.count + n
    BY <1>2 DEF Runs
  <2>2. seen \in Runs
    BY <1>2, <2>1 DEF Runs
  <2>3. /\ seen.step = run.step /\ seen.job = run.job
        /\ seen.begin = run.begin /\ seen.end = run.end /\ seen.limit = run.limit
        /\ seen.failed = run.failed /\ seen.used = run.used
        /\ seen.count = run.count + n /\ seen.ofDomain = run.ofDomain + n
        /\ seen.given = run.given \cup Page /\ seen.domain = run.domain
    BY <1>2 DEF Runs
  <2> QED
    BY <2>1, <2>2, <2>3
<1>4. run' = IF full THEN next ELSE seen
  BY DEF TakePage, n
<1> HIDE DEF seen
<1>5. /\ next \in Runs /\ next.step = "pages" /\ next.job = run.job
      /\ next.begin = run.begin /\ next.end = run.end /\ next.limit = run.limit
      /\ next.failed = run.failed /\ next.used = run.used
      /\ next.count = run.count + n /\ next.ofDomain = 0
      /\ next.given = {} /\ next.domain = run.domain + 1
  <2>1. seen.count \in Nat
    BY <1>2, <1>3 DEF Runs
  <2> QED
    BY <1>1, <1>3, <2>1, NextDomainType DEF Runs
<1>6. 0 <= run.count + n
  BY <1>2 DEF Runs
<1> HIDE DEF next
<1>7. CASE full
  BY <1>1, <1>3, <1>4, <1>5, <1>6, <1>7 DEF n
<1>8. CASE ~full
  BY <1>1, <1>3, <1>4, <1>8 DEF n
<1> QED
  BY <1>7, <1>8

LEMMA TakePageTypes ==
  ASSUME IInv, TakePage
  PROVE  IInv'
<1>1. /\ UNCHANGED <<clock, row, faults>> /\ pending' = {} /\ mem' = Moved(Page)
      /\ stored' = stored \cup (pending \cup Page)
  BY DEF TakePage, Flushed
<1>2. faults' \in 0..MaxFaults
  BY <1>1 DEF IInv, TypeOK
<1>3. Page \in SUBSET Page
  OBVIOUS
<1> QED
  BY <1>1, <1>2, <1>3, PageTaken, StillInPages

LEMMA PageFailsTypes ==
  ASSUME IInv, NEW done, PageFails(done)
  PROVE  IInv'
<1>1. /\ run.step = "pages" /\ UNCHANGED <<clock, row>> /\ mem' = Moved(done)
      /\ run' = [run EXCEPT !.failed = TRUE] /\ done \in SUBSET Page
      /\ pending' \cup stored' \subseteq pending \cup stored \cup done
      /\ ~Batched => pending' = pending
  BY DEF PageFails, Fetching, FirstFew
<1>2. run \in Runs /\ run.ofDomain <= run.count /\ (~Batched => pending = {})
  BY DEF IInv, TypeOK
<1>3. /\ run' \in Runs /\ run'.step = "pages" /\ run'.job = run.job
      /\ run'.begin = run.begin /\ run'.end = run.end
      /\ run'.given = run.given /\ run'.ofDomain = run.ofDomain /\ run'.count = run.count
  BY <1>1, <1>2 DEF Runs
<1>4. faults' \in 0..MaxFaults
  <2>1. faults \in 0..MaxFaults /\ faults < MaxFaults /\ faults' = faults + 1
    BY DEF PageFails, IInv, TypeOK
  <2> QED
    BY <2>1, Numbers
<1> QED
  BY <1>1, <1>2, <1>3, <1>4, StillInPages

LEMMA FinishTypes ==
  ASSUME IInv, NEW ok \in BOOLEAN, NEW updated \in BOOLEAN, Finish(ok, updated)
  PROVE  IInv'
<1> DEFINE j == run.job
           good == Succeeded(ok /\ ~run.failed)
           new == Advanced(mem[j].last, run.count, run.limit)
<1>1. /\ j \in Jobs /\ run \in Runs /\ now \in Times /\ run.count \in Nat /\ run.begin \in Cursors
      /\ mem \in [Jobs -> [last : Cursors, begin : Cursors]]
      /\ row \in [Jobs -> [started : Cursors, finished : Cursors]]
      /\ mem[j].last \in {None} \cup run.begin..run.end
  BY DEF IInv, TypeOK, InWindow, Runs, Finish
<1>2. /\ mem' = IF good THEN [mem EXCEPT ![j].last = new] ELSE mem
      /\ row' = IF good /\ updated THEN [row EXCEPT ![j].finished = mem[j].last] ELSE row
      /\ run' = IF ok /\ ~run.failed THEN After(run.count) ELSE Idle
      /\ UNCHANGED <<clock, pending, stored>>
  BY DEF Finish
<1>3. mem[j].last \in Cursors
  BY <1>1
<1>4. good => new \in Cursors
  <2>1. mem[j].last \in Int /\ mem[j].last >= -Second /\ now <= MaxTime /\ now \in Nat
    BY <1>1, <1>3, Numbers DEF Cursors, Times
  <2>2. good => mem[j].last < now
    BY DEF Succeeded
  <2>3. new \in {mem[j].last, mem[j].last + Second}
    BY DEF Advanced
  <2> HIDE DEF new, good, j
  <2> QED
    BY <1>3, <2>1, <2>2, <2>3, Numbers DEF Cursors
<1> HIDE DEF new, good
<1>5. /\ mem' \in [Jobs -> [last : Cursors, begin : Cursors]]
      /\ row' \in [Jobs -> [started : Cursors, finished : Cursors]]
  BY <1>1, <1>2, <1>3, <1>4
<1>6. /\ run' \in Runs /\ run'.step # "pages" /\ run'.given \subseteq shown
      /\ run'.ofDomain <= run'.count
  <2>1. run' \in {After(run.count), Idle}
    BY <1>2
  <2> QED
    BY <1>1, <2>1, AfterType, IdleIsARun, Fresh
<1>7. faults' \in 0..MaxFaults
  <2>1. PICK bad \in Nat : faults + bad <= MaxFaults /\ faults' = faults + bad
    <3>1. (IF ok THEN 0 ELSE 1) + (IF updated THEN 0 ELSE 1) \in Nat
      OBVIOUS
    <3> QED
      BY <3>1 DEF Finish
  <2>2. faults \in 0..MaxFaults
    BY DEF IInv, TypeOK
  <2> QED
    BY <2>1, <2>2, Numbers
<1>8. pending' \cup stored' \subseteq shown /\ (~Batched => pending' = {})
  BY <1>2 DEF IInv, TypeOK
<1> QED
  BY <1>2, <1>5, <1>6, <1>7, <1>8, NoPages

LEMMA OtherTypes ==
  ASSUME IInv, Start \/ LogLag \/ Crash \/ UNCHANGED vars
  PROVE  IInv'
<1>1. /\ run \in Runs /\ faults \in 0..MaxFaults
      /\ mem \in [Jobs -> [last : Cursors, begin : Cursors]]
      /\ row \in [Jobs -> [started : Cursors, finished : Cursors]]
      /\ pending \cup stored \subseteq shown /\ (~Batched => pending = {})
      /\ run.given \subseteq shown /\ run.ofDomain <= run.count
  BY DEF IInv, TypeOK
<1>2. CASE Start
  BY <1>1, <1>2, IdleIsARun, Fresh, NoPages DEF Start
<1>3. CASE LogLag
  <2>1. /\ UNCHANGED <<clock, mem, pending, stored, faults>>
        /\ row' = [row EXCEPT !["opened"] = RowAsked("opened")]
        /\ run' = [run EXCEPT !.step = "read"]
    BY <1>3 DEF LogLag
  <2>2. /\ run' \in Runs /\ run'.step # "pages" /\ run'.given = run.given
        /\ run'.ofDomain = run.ofDomain /\ run'.count = run.count
    BY <1>1, <2>1 DEF Runs
  <2>3. RowAsked("opened") \in [started : Cursors, finished : Cursors]
    BY RowAskedType DEF Jobs
  <2> QED
    BY <1>1, <2>1, <2>2, <2>3, NoPages
<1>4. CASE Crash
  <2>1. faults' \in 0..MaxFaults
    BY <1>1, <1>4, Numbers DEF Crash
  <2>2. mem' \in [Jobs -> [last : Cursors, begin : Cursors]]
    BY <1>4, Numbers DEF Crash
  <2> QED
    BY <1>1, <1>4, <2>1, <2>2, IdleIsARun, Fresh, NoPages DEF Crash
<1>5. CASE UNCHANGED vars
  BY <1>5 DEF IInv, TypeOK, InWindow, vars
<1> QED
  BY <1>2, <1>3, <1>4, <1>5

LEMMA InitTypes == Init => IInv
<1> SUFFICES ASSUME Init PROVE IInv
  OBVIOUS
<1>1. None # 0 /\ None \in Cursors /\ 0 \in Cursors /\ 0 \in Times /\ None \in Moments
  BY Numbers DEF Moments
<1>2. at \in [Events -> Moments] /\ mem \in [Jobs -> [last : Cursors, begin : Cursors]]
  BY <1>1 DEF Init
<1>3. row \in [Jobs -> [started : Cursors, finished : Cursors]]
  BY <1>1 DEF Init
<1>4. TypeOK
  <2>1. run \in Runs /\ run.step # "pages" /\ run.given = {} /\ run.ofDomain <= run.count
    BY IdleIsARun, Fresh DEF Init
  <2>2. run.job \in Jobs \cup {"idle"} /\ run.step \in {"lag", "read", "pages"}
    BY <2>1 DEF Runs
  <2>3. faults \in 0..MaxFaults
    BY Numbers DEF Init
  <2> QED
    BY <1>1, <1>2, <1>3, <2>1, <2>2, <2>3 DEF Init, TypeOK
<1> QED
  BY <1>4, IdleIsARun DEF Init, IInv, InWindow

LEMMA NextTypes == IInv /\ [Next]_vars => IInv'
<1> SUFFICES ASSUME IInv, [Next]_vars PROVE IInv'
  OBVIOUS
<1>1. \/ (\E e \in Events : Occur(e) \/ Show(e)) \/ Tick
      \/ Start \/ LogLag \/ Crash \/ UNCHANGED vars
      \/ Begin(TRUE) \/ Begin(FALSE) \/ DomainDone \/ TakePage
      \/ (\E done \in SUBSET Events : PageFails(done))
      \/ Finish(TRUE, TRUE) \/ Finish(FALSE, TRUE) \/ Finish(TRUE, FALSE)
  BY DEF Next, Step, Fault
<1> QED
  BY <1>1, MailgunTypes, OtherTypes, BeginTypes, DomainDoneTypes, TakePageTypes,
     PageFailsTypes, FinishTypes

\* Every event the jobs know of comes from Mailgun, and a fetch keeps its
\* cursor within the window it asked for, whatever pages come back, whatever
\* fails and wherever the program stops (#fetchEvents, processBatch).
THEOREM TypeCorrect == Spec => []TypeOK
<1>1. IInv => TypeOK
  BY DEF IInv
<1> QED
  BY <1>1, InitTypes, NextTypes, PTL DEF Spec

-----------------------------------------------------------------------------
(* Cursors pass nothing.  Three things must be given for that: an account  *)
(* of one domain, times that are whole seconds, and jobs that have all     *)
(* finished before.  A job that has never finished goes on from the time   *)
(* at which it started, which the next fetch moves to a cursor of memory.  *)

Settled == Domains = 1 /\ Second = 1 /\ Jobs \subseteq KnownJobs

\* Mailgun is late only with some events, and not for long.
ShownInTime ==
  \A e \in Events : at[e] # None =>
    /\ at[e] <= now
    /\ e \notin shown => e \in Late /\ now - at[e] < Trust

CursorsInPast == \A j \in Jobs : Cursor(j) \in 0..now /\ row[j].finished \in 0..now

NotBegun ==
  run.step # "pages" =>
    run.domain = 1 /\ run.count = 0 /\ run.ofDomain = 0 /\ run.given = {} /\ ~run.failed

Between(e) == run.begin <= at[e] /\ at[e] <= run.end

\* What the window leaves behind has been seen.
SeenBefore ==
  run.step = "pages" =>
    /\ run.begin >= 0 /\ run.domain \in {1, 2}
    /\ \A e \in Owed(run.job) : at[e] < run.begin => e \in stored \cup pending

\* What was given is written, and nothing owed was left out before it.
GivenInOrder ==
  run.step = "pages" =>
    /\ \A g \in run.given : g \in stored /\ g \in Found
    /\ ~run.failed /\ run.domain = 1 =>
         \A e \in Owed(run.job), g \in run.given :
           Between(e) /\ Before(at, e, g) => e \in run.given

Counted ==
  run.step = "pages" =>
    /\ run.domain = 1 => run.ofDomain = run.count
    /\ run.count > 0 => mem[run.job].last # None
    /\ run.count > 0 /\ ~run.failed => pending = {}

\* The window has been read to its end, unless there was too much of it.
WindowRead ==
  run.step = "pages" /\ run.domain = 2 /\ ~run.failed /\ run.count < run.limit =>
    \A e \in Owed(run.job) : Between(e) => e \in stored

CInv ==
  /\ IInv /\ ShownInTime /\ CursorsInPast /\ NotBegun
  /\ SeenBefore /\ GivenInOrder /\ Counted /\ WindowRead
  /\ CursorsPassNothing

LEMMA OwedMoments ==
  ASSUME IInv, NEW j \in Jobs, NEW e \in Owed(j)
  PROVE  e \in Events /\ at[e] \in Nat /\ at[e] # None
<1>1. e \in Events /\ at[e] # None
  BY CursorsAssumption DEF Owed, OfJob, Jobs
<1> QED
  BY <1>1, Numbers DEF IInv, TypeOK, Moments

\* Mailgun shows all of a window that a job owes: late events are owed by
\* "missing" only, which comes when they are shown.
LEMMA WindowIsShown ==
  ASSUME Settled, IInv, ShownInTime, run.step = "pages", run.domain = 1,
         NEW e \in Owed(run.job), Between(e)
  PROVE  e \in Found
<1>1. run.job \in Jobs
  BY DEF IInv, InWindow
<1>2. e \in Events /\ at[e] \in Nat /\ at[e] # None /\ e \in OfJob(run.job)
  BY <1>1, OwedMoments DEF Owed
<1>3. e \in shown
  <2>1. ASSUME e \notin shown PROVE FALSE
    <3>1. e \in Late /\ now - at[e] < Trust
      BY <1>2, <2>1 DEF ShownInTime
    <3>2. run.job = "missing"
      BY <3>1 DEF Owed
    <3>3. at[e] <= run.end /\ run.end <= now - Trust /\ run.end \in Int /\ now \in Nat
      BY <3>2, Numbers DEF Between, IInv, TypeOK, InWindow, Runs
    <3> QED
      BY <1>2, <3>1, <3>3, Numbers
  <2> QED
    BY <2>1
<1>4. at[e] \in run.begin..run.end
  <2>1. run.begin \in Int /\ run.end \in Int
    BY DEF IInv, Runs
  <2> QED
    BY <1>2, <2>1 DEF Between
<1>5. DomainOf[e] = run.domain
  <2>1. DomainOf[e] \in 1..1
    BY <1>2, CursorsAssumption DEF Settled
  <2> QED
    BY <2>1
<1> QED
  BY <1>2, <1>3, <1>4, <1>5 DEF Found

\* A job that has finished once goes on from its cursor.
LEMMA GoesOn ==
  ASSUME IInv, CursorsInPast, NEW j \in Jobs
  PROVE  /\ RowAsked(j) = row[j] /\ Resumed(j) = Cursor(j)
         /\ LastJobRun(j) = row[j].finished
<1>1. row[j].finished # None
  <2>1. row[j].finished \in 0..now /\ now \in Nat
    BY Numbers DEF CursorsInPast, IInv, TypeOK
  <2> QED
    BY <2>1, Numbers
<1> QED
  BY <1>1 DEF RowAsked, Resumed, Cursor, LastJobRun, HasRow

\* Where the clock, the cursors and what is written stay as they are, or
\* more is written, cursors pass nothing.
LEMMA CursorsStay ==
  ASSUME IInv, CursorsInPast, CursorsPassNothing, UNCHANGED clock,
         \A j \in Jobs : mem'[j].last = mem[j].last /\ row'[j].finished = row[j].finished,
         stored \subseteq stored', stored \cup pending \subseteq stored' \cup pending'
  PROVE  CursorsInPast' /\ CursorsPassNothing'
<1>1. \A j \in Jobs : /\ LastJobRun(j) = row[j].finished
                      /\ LastJobRun(j)' = row[j].finished
  <2>1. ASSUME NEW j \in Jobs PROVE row[j].finished # None
    <3>1. row[j].finished \in 0..now /\ now \in Nat
      BY Numbers DEF CursorsInPast, IInv, TypeOK
    <3> QED
      BY <3>1, Numbers
  <2> QED
    BY <2>1 DEF LastJobRun
<1>2. \A j \in Jobs : Cursor(j)' = Cursor(j)
  BY <1>1 DEF Cursor
<1>3. \A j \in Jobs : Owed(j)' = Owed(j)
  BY DEF Owed, OfJob, clock
<1>4. CursorsInPast'
  BY <1>2 DEF CursorsInPast, clock
<1>5. CursorsPassNothing'
  BY <1>2, <1>3 DEF CursorsPassNothing, clock
<1> QED
  BY <1>4, <1>5

LEMMA AfterIsFresh ==
  ASSUME NEW c \in Nat, run.job \in Jobs
  PROVE  /\ After(c).step # "pages" /\ After(c).domain = 1 /\ After(c).count = 0
         /\ After(c).ofDomain = 0 /\ After(c).given = {} /\ After(c).failed = FALSE
<1> DEFINE next(j) == [Idle EXCEPT !.job = j, !.used = run.used + c]
<1>1. \A j : /\ next(j).step # "pages" /\ next(j).domain = 1 /\ next(j).count = 0
             /\ next(j).ofDomain = 0 /\ next(j).given = {} /\ next(j).failed = FALSE
  BY DEF Idle
<1>2. /\ First.step # "pages" /\ First.domain = 1 /\ First.count = 0
      /\ First.ofDomain = 0 /\ First.given = {} /\ First.failed = FALSE
  BY DEF First, Idle
<1>3. /\ Idle.step # "pages" /\ Idle.domain = 1 /\ Idle.count = 0
      /\ Idle.ofDomain = 0 /\ Idle.given = {} /\ Idle.failed = FALSE
  BY DEF Idle
<1>4. After(c) \in {First, Idle, next("others"), next("missing")}
  BY Numbers DEF After, Jobs
<1> HIDE DEF next
<1> QED
  BY <1>1, <1>2, <1>3, <1>4

\* Outside of the pages, that is all there is to show.
LEMMA StepWithoutPages ==
  ASSUME CInv, UNCHANGED clock, run' \in {Idle, First} \/ (run.job \in Jobs /\ \E c \in Nat : run' = After(c)),
         IInv', CursorsInPast', CursorsPassNothing'
  PROVE  CInv'
<1>1. NotBegun' /\ run'.step # "pages"
  <2>1. \A r \in {Idle, First} : r.step # "pages" /\ r.domain = 1 /\ r.count = 0
                                 /\ r.ofDomain = 0 /\ r.given = {} /\ r.failed = FALSE
    <3>1. /\ Idle.step = "read" /\ Idle.domain = 1 /\ Idle.count = 0
          /\ Idle.ofDomain = 0 /\ Idle.given = {} /\ Idle.failed = FALSE
      BY DEF Idle
    <3>2. /\ First.step = "lag" /\ First.domain = 1 /\ First.count = 0
          /\ First.ofDomain = 0 /\ First.given = {} /\ First.failed = FALSE
      BY DEF First, Idle
    <3> QED
      BY <3>1, <3>2
  <2>2. ASSUME NEW c \in Nat, run.job \in Jobs, run' = After(c)
        PROVE  run'.step # "pages" /\ run'.domain = 1 /\ run'.count = 0
               /\ run'.ofDomain = 0 /\ run'.given = {} /\ run'.failed = FALSE
    BY <2>2, AfterIsFresh
  <2> QED
    BY <2>1, <2>2 DEF NotBegun
<1>2. ShownInTime'
  BY DEF CInv, ShownInTime, clock
<1> QED
  BY <1>1, <1>2 DEF CInv, SeenBefore, GivenInOrder, Counted, WindowRead

LEMMA MailgunCursors ==
  ASSUME Settled, CInv, (\E e \in Events : Occur(e) \/ Show(e)) \/ Tick, IInv'
  PROVE  CInv'
<1>1. UNCHANGED <<mem, row, pending, stored, run>>
  BY DEF Occur, Show, Tick
<1>2. now \in Nat /\ now' \in Nat /\ at \in [Events -> Moments] /\ shown \subseteq Events
  BY Numbers DEF CInv, IInv, TypeOK
<1> DEFINE MoreHappened ==
      /\ now <= now' /\ shown \subseteq shown'
      /\ \A x \in Events : at'[x] = at[x] \/ (at[x] = None /\ at'[x] = now)
<1>3. MoreHappened
  <2>1. ASSUME NEW e \in Events, Occur(e) PROVE MoreHappened
    BY <1>2, <2>1 DEF Occur
  <2>2. ASSUME NEW e \in Events, Show(e) PROVE MoreHappened
    BY <1>2, <2>2 DEF Show
  <2>3. CASE Tick
    BY <1>2, <2>3 DEF Tick
  <2> QED
    BY <2>1, <2>2, <2>3
<1>4. ShownInTime'
  <2>1. SUFFICES ASSUME NEW x \in Events, at'[x] # None
                 PROVE  /\ at'[x] <= now'
                        /\ x \notin shown' => x \in Late /\ now' - at'[x] < Trust
    BY DEF ShownInTime
  <2>2. at[x] # None => at[x] <= now /\ (x \notin shown => x \in Late /\ now - at[x] < Trust)
    BY DEF CInv, ShownInTime
  <2>3. at[x] # None => at[x] \in Nat
    BY <1>2, Numbers DEF Moments
  <2> DEFINE InTime == /\ at'[x] <= now'
                       /\ x \notin shown' => x \in Late /\ now' - at'[x] < Trust
  <2>4. ASSUME NEW e \in Events, Occur(e) PROVE InTime
    <3>1. now' = now /\ at' = [at EXCEPT ![e] = now]
          /\ shown' = IF e \in Late THEN shown ELSE shown \cup {e}
      BY <2>4 DEF Occur
    <3>2. CASE x = e
      <4>1. at'[x] = now /\ (x \notin shown' => x \in Late)
        BY <1>2, <3>1, <3>2
      <4>2. now - now < Trust
        BY <1>2, CursorsAssumption
      <4> QED
        BY <1>2, <3>1, <4>1, <4>2
    <3>3. CASE x # e
      BY <1>2, <2>1, <2>2, <3>1, <3>3
    <3> QED
      BY <3>2, <3>3
  <2>5. ASSUME NEW e \in Events, Show(e) PROVE InTime
    BY <2>1, <2>2, <2>5 DEF Show
  <2>6. CASE Tick
    <3>1. at' = at /\ shown' = shown /\ now' = now + 1
      BY <2>6 DEF Tick
    <3>2. x \notin shown => now + 1 - at[x] < Trust
      BY <2>1, <2>6, <3>1 DEF Tick
    <3> QED
      BY <1>2, <2>1, <2>2, <2>3, <3>1, <3>2
  <2> QED
    BY <2>4, <2>5, <2>6
<1>5. \A j \in Jobs : Cursor(j)' = Cursor(j)
  BY <1>1 DEF Cursor, LastJobRun
<1>6. CursorsInPast'
  <2>1. ASSUME NEW t \in 0..now PROVE t \in 0..now'
    BY <1>2, <1>3
  <2> QED
    BY <1>1, <1>5, <2>1 DEF CInv, CursorsInPast
\* What a job owes after the step it owed before, or it occurs now.
<1>7. \A j \in Jobs : \A e \in Owed(j)' : at'[e] = now \/ (e \in Owed(j) /\ at'[e] = at[e])
  <2>1. ASSUME NEW j \in Jobs, NEW e \in Owed(j)'
        PROVE  at'[e] = now \/ (e \in Owed(j) /\ at'[e] = at[e])
    <3>1. e \in OfJob(j) /\ at'[e] # None /\ (j = "missing" \/ e \notin Late)
      BY <2>1 DEF Owed, OfJob
    <3>2. e \in Events
      BY <3>1, CursorsAssumption DEF OfJob, Jobs
    <3> QED
      BY <1>3, <3>1, <3>2 DEF Owed
  <2> QED
    BY <2>1
<1>8. CursorsPassNothing'
  <2>1. SUFFICES ASSUME NEW j \in Jobs, NEW e \in Owed(j)'
                 PROVE  /\ Cursor(j) > at'[e] => e \in stored \cup pending
                        /\ row[j].finished > at'[e] => e \in stored
    BY <1>1, <1>5 DEF CursorsPassNothing
  <2>2. Cursor(j) \in 0..now /\ row[j].finished \in 0..now
    BY DEF CInv, CursorsInPast
  <2>3. ~(Cursor(j) > now) /\ ~(row[j].finished > now)
    BY <1>2, <2>2
  <2> QED
    BY <1>7, <2>1, <2>3 DEF CInv, CursorsPassNothing
<1>9. ASSUME run.step = "pages"
      PROVE  /\ run.begin \in Nat /\ run.end \in Int /\ run.begin < now /\ run.end < now
             /\ run.job \in Jobs
  <2>1. /\ run.begin \in Int /\ run.end \in Int /\ run.begin >= 0 /\ run.job \in Jobs
        /\ run.begin < run.end /\ run.end <= now - EndMargin
    BY <1>9 DEF CInv, IInv, TypeOK, InWindow, Runs, SeenBefore
  <2>2. EndMargin \in Nat \ {0}
    BY Numbers
  <2> QED
    BY <1>2, <2>1, <2>2
\* An event of now is in no window.
<1>10. ASSUME run.step = "pages", NEW e \in Owed(run.job)', at'[e] < run.begin \/ Between(e)'
       PROVE  e \in Owed(run.job) /\ at'[e] = at[e]
  <2>1. at'[e] # now
    BY <1>1, <1>2, <1>9, <1>10 DEF Between
  <2>2. PICK j : j = run.job
    OBVIOUS
  <2>3. j \in Jobs /\ e \in Owed(j)'
    BY <1>1, <1>9, <1>10, <2>2 DEF Owed, OfJob
  <2>4. e \in Owed(j) /\ at'[e] = at[e]
    BY <1>7, <2>1, <2>3
  <2> QED
    BY <2>2, <2>4
<1>11. SeenBefore'
  <2>1. SUFFICES ASSUME run.step = "pages"
                 PROVE  /\ run.begin >= 0 /\ run.domain \in {1, 2}
                        /\ \A e \in Owed(run.job)' : at'[e] < run.begin => e \in stored \cup pending
    BY <1>1 DEF SeenBefore
  <2> QED
    BY <1>10, <2>1 DEF CInv, SeenBefore
<1>12. \A g \in Found : g \in Found' /\ at'[g] = at[g]
  <2>1. ASSUME NEW g \in Found PROVE g \in Found' /\ at'[g] = at[g]
    <3>1. g \in shown /\ at[g] # None
      BY DEF Found, CInv, IInv, TypeOK
    <3>2. at'[g] = at[g] /\ g \in shown'
      BY <1>2, <1>3, <3>1
    <3> QED
      BY <1>1, <3>2 DEF Found, OfJob
  <2> QED
    BY <2>1
<1>13. GivenInOrder'
  <2>1. SUFFICES ASSUME run.step = "pages"
                 PROVE  /\ \A g \in run.given : g \in stored /\ g \in Found'
                        /\ ~run.failed /\ run.domain = 1 =>
                             \A e \in Owed(run.job)', g \in run.given :
                               Between(e)' /\ Before(at', e, g) => e \in run.given
    BY <1>1 DEF GivenInOrder
  <2>2. \A g \in run.given : g \in stored /\ g \in Found
    BY <2>1 DEF CInv, GivenInOrder
  <2>3. ASSUME ~run.failed, run.domain = 1, NEW e \in Owed(run.job)', NEW g \in run.given,
               Between(e)', Before(at', e, g)
        PROVE  e \in run.given
    <3>1. e \in Owed(run.job) /\ at'[e] = at[e] /\ at'[g] = at[g]
      BY <1>10, <1>12, <2>1, <2>2, <2>3
    <3>2. Between(e) /\ Before(at, e, g)
      BY <1>1, <2>3, <3>1 DEF Between, Before
    <3> QED
      BY <2>1, <2>3, <3>1, <3>2 DEF CInv, GivenInOrder
  <2> QED
    BY <1>12, <2>2, <2>3
<1>14. WindowRead'
  <2>1. SUFFICES ASSUME run.step = "pages", run.domain = 2, ~run.failed, run.count < run.limit,
                        NEW e \in Owed(run.job)', Between(e)'
                 PROVE  e \in stored
    BY <1>1 DEF WindowRead
  <2>2. e \in Owed(run.job) /\ at'[e] = at[e]
    BY <1>10, <2>1
  <2>3. Between(e)
    BY <1>1, <2>1, <2>2 DEF Between
  <2> QED
    BY <2>1, <2>2, <2>3 DEF CInv, WindowRead
<1>15. NotBegun' /\ Counted'
  BY <1>1 DEF CInv, NotBegun, Counted
<1> QED
  BY <1>4, <1>6, <1>8, <1>11, <1>13, <1>14, <1>15 DEF CInv

LEMMA BeginCursors ==
  ASSUME Settled, CInv, NEW updated \in BOOLEAN, Begin(updated), IInv'
  PROVE  CInv'
<1> DEFINE j == run.job
           b == Resumed(j)
<1>1. /\ j \in Jobs /\ run \in Runs /\ IInv /\ CursorsInPast /\ NotBegun /\ CursorsPassNothing
      /\ run.step = "read" /\ UNCHANGED <<clock, pending, stored>> /\ ShownInTime
      /\ mem \in [Jobs -> [last : Cursors, begin : Cursors]]
      /\ row \in [Jobs -> [started : Cursors, finished : Cursors]]
  BY DEF CInv, IInv, TypeOK, Begin
<1>2. RowAsked(j) = row[j] /\ b = Cursor(j)
  BY <1>1, GoesOn
<1>3. CASE EndOf(j) <= b
  <2>1. row' = row /\ run' = After(0) /\ UNCHANGED mem
    BY <1>1, <1>2, <1>3 DEF Begin
  <2>2. CursorsInPast' /\ CursorsPassNothing'
    BY <1>1, <2>1, CursorsStay
  <2> QED
    BY <1>1, <2>1, <2>2, StepWithoutPages
<1>4. CASE ~(EndOf(j) <= b)
  <2>1. /\ mem' = [mem EXCEPT ![j].begin = b]
        /\ row' \in {[row EXCEPT ![j] = [RowAsked(j) EXCEPT !.started = b]],
                     [row EXCEPT ![j] = RowAsked(j)]}
        /\ run' = [run EXCEPT !.step = "pages", !.begin = b, !.end = EndOf(j),
                              !.limit = MaxEvents - run.used]
    BY <1>4 DEF Begin
  <2>2. \A k \in Jobs : mem'[k].last = mem[k].last /\ row'[k].finished = row[k].finished
    BY <1>1, <1>2, <2>1
  <2>3. CursorsInPast' /\ CursorsPassNothing'
    BY <1>1, <2>2, CursorsStay
  <2>4. /\ run'.step = "pages" /\ run'.job = j /\ run'.begin = b /\ run'.domain = 1 /\ run'.count = 0
        /\ run'.ofDomain = 0 /\ run'.given = {} /\ run'.failed = FALSE
    BY <1>1, <2>1 DEF Runs, NotBegun
  <2>5. SeenBefore'
    <3>1. b >= 0
      <4>1. b \in 0..now /\ now \in Nat
        BY <1>1, <1>2, Numbers DEF CursorsInPast, TypeOK, IInv
      <4> QED
        BY <4>1
    <3>2. \A e \in Owed(j) : at[e] < b => e \in stored \cup pending
      <4>1. \A e \in Owed(j) : at[e] \in Nat
        BY <1>1, OwedMoments
      <4>2. b \in Int
        BY <1>1, Numbers, ResumedType
      <4> HIDE DEF b, j
      <4> QED
        BY <1>1, <1>2, <4>1, <4>2 DEF CursorsPassNothing
    <3>3. Owed(run.job)' = Owed(j)
      BY <1>1, <2>4 DEF Owed, OfJob, clock
    <3> HIDE DEF b, j
    <3> QED
      BY <1>1, <2>4, <3>1, <3>2, <3>3 DEF SeenBefore, clock
  <2>6. GivenInOrder' /\ Counted' /\ WindowRead' /\ NotBegun'
    BY <2>4 DEF GivenInOrder, Counted, WindowRead, NotBegun
  <2>7. ShownInTime'
    BY <1>1 DEF ShownInTime, clock
  <2> QED
    BY <2>3, <2>5, <2>6, <2>7 DEF CInv
<1> QED
  BY <1>3, <1>4

LEMMA OtherCursors ==
  ASSUME Settled, CInv, Start \/ LogLag \/ Crash \/ UNCHANGED vars, IInv'
  PROVE  CInv'
<1>1. /\ IInv /\ CursorsInPast /\ CursorsPassNothing /\ ShownInTime /\ NotBegun
      /\ mem \in [Jobs -> [last : Cursors, begin : Cursors]]
      /\ row \in [Jobs -> [started : Cursors, finished : Cursors]] /\ now \in Nat
  BY Numbers DEF CInv, IInv, TypeOK
<1>2. CASE Start
  <2>1. /\ UNCHANGED <<clock, mem, row, pending, stored, faults>> /\ run' = First
    BY <1>2 DEF Start
  <2>2. CursorsInPast' /\ CursorsPassNothing'
    BY <1>1, <2>1, CursorsStay
  <2> QED
    BY <2>1, <2>2, StepWithoutPages
<1>3. CASE LogLag
  <2>1. /\ UNCHANGED <<clock, mem, pending, stored, faults>>
        /\ row' = [row EXCEPT !["opened"] = RowAsked("opened")]
        /\ run' = [run EXCEPT !.step = "read"] /\ run.step = "lag"
    BY <1>3 DEF LogLag
  <2>2. row' = row
    BY <1>1, <2>1, GoesOn DEF Jobs
  <2>3. CursorsInPast' /\ CursorsPassNothing'
    BY <1>1, <2>1, <2>2, CursorsStay
  <2>4. /\ run'.step = "read" /\ run'.domain = 1 /\ run'.count = 0
        /\ run'.ofDomain = 0 /\ run'.given = {} /\ run'.failed = FALSE
    BY <1>1, <2>1 DEF NotBegun, IInv, Runs
  <2>5. ShownInTime'
    BY <1>1, <2>1 DEF ShownInTime, clock
  <2> QED
    BY <2>3, <2>4, <2>5
       DEF CInv, SeenBefore, GivenInOrder, Counted, WindowRead, NotBegun
\* Only the table is left, and what it has passed is written.
<1>4. CASE Crash
  <2>1. /\ mem' = [j \in Jobs |-> [last |-> None, begin |-> None]]
        /\ pending' = {} /\ run' = Idle /\ UNCHANGED <<clock, row, stored>>
    BY <1>4 DEF Crash
  <2>2. \A j \in Jobs : Cursor(j)' = row[j].finished
    <3>1. ASSUME NEW j \in Jobs PROVE Cursor(j)' = row[j].finished
      <4>1. Cursor(j)' = LastJobRun(j)
        BY <2>1 DEF Cursor, LastJobRun
      <4> QED
        BY <1>1, <4>1, GoesOn
    <3> QED
      BY <3>1
  <2>3. \A j \in Jobs : Owed(j)' = Owed(j)
    BY <2>1 DEF Owed, OfJob, clock
  <2>4. CursorsInPast'
    BY <1>1, <2>1, <2>2 DEF CursorsInPast, clock
  <2>5. CursorsPassNothing'
    BY <1>1, <2>1, <2>2, <2>3 DEF CursorsPassNothing, clock
  <2> QED
    BY <2>1, <2>4, <2>5, StepWithoutPages
<1>5. CASE UNCHANGED vars
  BY <1>5 DEF vars, CInv, IInv, TypeOK, InWindow, ShownInTime, CursorsInPast, NotBegun, SeenBefore,
     GivenInOrder, Counted, WindowRead, CursorsPassNothing, Cursor, LastJobRun, Owed, OfJob,
     Between, Found
<1> QED
  BY <1>2, <1>3, <1>4, <1>5

LEMMA FinishCursors ==
  ASSUME Settled, CInv, NEW ok \in BOOLEAN, NEW updated \in BOOLEAN, Finish(ok, updated), IInv'
  PROVE  CInv'
<1>0. PICK j \in Jobs : j = run.job
  BY DEF CInv, IInv, InWindow, Finish
<1> DEFINE good == Succeeded(ok /\ ~run.failed)
           last == mem[j].last
           new == Advanced(last, run.count, run.limit)
<1>1. /\ j = run.job /\ run \in Runs /\ IInv /\ CursorsInPast /\ CursorsPassNothing
      /\ mem \in [Jobs -> [last : Cursors, begin : Cursors]]
      /\ row \in [Jobs -> [started : Cursors, finished : Cursors]]
      /\ run.step = "pages" /\ UNCHANGED <<clock, pending, stored>> /\ now \in Nat
      /\ last \in {None} \cup run.begin..run.end
      /\ run.domain > Domains \/ run.failed
      /\ run' = After(run.count) \/ run' = Idle
  BY <1>0, Numbers DEF CInv, IInv, TypeOK, InWindow, Finish
<1>2. /\ mem' = IF good THEN [mem EXCEPT ![j].last = new] ELSE mem
      /\ row' = IF good /\ updated THEN [row EXCEPT ![j].finished = last] ELSE row
  BY <1>0 DEF Finish
<1>3. run.count \in Nat /\ run.limit \in Int /\ run.begin \in Int /\ run.end \in Int
  BY <1>1 DEF Runs
<1>4. CASE ~good
  <2>1. CursorsInPast' /\ CursorsPassNothing'
    BY <1>1, <1>2, <1>4, CursorsStay
  <2> QED
    BY <1>1, <1>3, <2>1, StepWithoutPages
<1>5. CASE good
  <2>1. run.count > 0 /\ last < now /\ ~run.failed /\ run.domain = 2
    BY <1>1, <1>5 DEF Succeeded, Settled, CInv, SeenBefore
  <2>2. last # None /\ pending = {} /\ Cursor(j) = last
    BY <1>1, <2>1 DEF CInv, Counted, Cursor
  <2>3. last \in Nat /\ run.begin <= last /\ last <= run.end
    BY <1>1, <1>3, <2>2 DEF CInv, SeenBefore
  <2>4. /\ new \in {last, last + 1} /\ (run.count >= run.limit => new = last)
    BY <1>3 DEF Advanced, Settled
  <2> HIDE DEF good, new
  <2>5. new \in 0..now /\ new # None /\ last \in 0..now
    BY <1>1, <2>1, <2>3, <2>4, Numbers
  <2>6. /\ mem'[j].last = new /\ row'[j].finished \in {last, row[j].finished}
        /\ \A k \in Jobs : k # j => mem'[k] = mem[k] /\ row'[k] = row[k]
    BY <1>1, <1>2, <1>5
  <2>7. Cursor(j)' = new /\ \A k \in Jobs : k # j => Cursor(k)' = Cursor(k)
    BY <2>5, <2>6 DEF Cursor, LastJobRun
  <2>8. CursorsInPast'
    BY <1>1, <2>5, <2>6, <2>7 DEF CursorsInPast, clock
  <2>9. \A k \in Jobs : Owed(k)' = Owed(k)
    BY <1>1 DEF Owed, OfJob, clock
  \* What is before the cursor was passed before; what is at the cursor is
  \* in the window, which was read to its end if the cursor moves on.
  <2>10. \A e \in Owed(j) : /\ last > at[e] => e \in stored
                            /\ new > at[e] => e \in stored
    <3>1. ASSUME NEW e \in Owed(j)
          PROVE  (last > at[e] => e \in stored) /\ (new > at[e] => e \in stored)
      <4>1. at[e] \in Nat
        BY <1>1, OwedMoments
      <4>2. last > at[e] => e \in stored
        BY <1>1, <2>2 DEF CursorsPassNothing
      <4>3. ASSUME new > at[e], ~(last > at[e]) PROVE e \in stored
        <5>1. at[e] = last /\ run.count < run.limit
          BY <1>3, <2>3, <2>4, <4>1, <4>3
        <5>2. Between(e)
          BY <2>3, <5>1 DEF Between
        <5> QED
          BY <1>1, <2>1, <5>1, <5>2 DEF CInv, WindowRead
      <4> QED
        BY <4>2, <4>3
    <3> QED
      BY <3>1
  <2>11. CursorsPassNothing'
    <3>1. SUFFICES ASSUME NEW k \in Jobs, NEW e \in Owed(k)
                   PROVE  /\ Cursor(k)' > at[e] => e \in stored \cup pending
                          /\ row'[k].finished > at[e] => e \in stored
      BY <1>1, <2>9 DEF CursorsPassNothing, clock
    <3>2. /\ Cursor(k) > at[e] => e \in stored \cup pending
          /\ row[k].finished > at[e] => e \in stored
      BY <1>1 DEF CursorsPassNothing
    <3>3. CASE k = j
      BY <2>6, <2>7, <2>10, <3>2, <3>3
    <3>4. CASE k # j
      BY <2>6, <2>7, <3>2, <3>4
    <3> QED
      BY <3>3, <3>4
  <2> QED
    BY <1>1, <1>3, <2>8, <2>11, StepWithoutPages
<1> QED
  BY <1>4, <1>5

-----------------------------------------------------------------------------
(* Reading pages.                                                          *)

\* What a fetch knows while it reads.
LEMMA WhileFetching ==
  ASSUME Settled, CInv, Fetching
  PROVE  /\ run.step = "pages" /\ run.domain = 1 /\ run.failed = FALSE /\ run.job \in Jobs
         /\ IInv /\ run \in Runs
         /\ Found \in SUBSET Nat /\ IsFiniteSet(Found) /\ Page \subseteq Found \ run.given
         /\ run.given \subseteq Found /\ \A e \in Found : at[e] \in Nat /\ Between(e)
         /\ run.begin \in Nat
<1>1. /\ run.step = "pages" /\ run.domain = 1 /\ run.job \in Jobs /\ IInv /\ run \in Runs
      /\ ~run.failed /\ run.begin \in Nat
  BY DEF CInv, IInv, InWindow, Fetching, Settled, SeenBefore, Runs
<1>2. run.failed = FALSE
  BY <1>1 DEF Runs
<1>3. run.given \subseteq Found
  BY <1>1 DEF CInv, GivenInOrder
<1> QED
  BY <1>1, <1>2, <1>3, PageType, Numbers DEF Between

\* What is owed before an event of the page is on it, or was given before.
LEMMA NothingLeftOut ==
  ASSUME Settled, CInv, Fetching, NEW e \in Owed(run.job), NEW f \in Page,
         Between(e), Before(at, e, f)
  PROVE  e \in run.given \cup Page
<1>1. e \in Found
  BY WhileFetching, WindowIsShown DEF CInv
<1>2. CASE \E g \in run.given : Before(at, e, g)
  BY <1>2, WhileFetching DEF CInv, GivenInOrder
<1>3. CASE e \notin run.given /\ \A g \in run.given : ~Before(at, e, g)
  BY <1>1, <1>3, WhileFetching, PageSkipsNothing DEF Page
<1> QED
  BY <1>2, <1>3

\* A cursor that moves over the first events of a page passes only those,
\* and what was passed before.
LEMMA CursorMoves ==
  ASSUME Settled, CInv, Fetching, UNCHANGED <<clock, row>>,
         NEW page \in SUBSET Page, mem' = Moved(page),
         \A e \in Page, f \in page : Before(at, e, f) => e \in page,
         stored \subseteq stored', stored \cup pending \cup page \subseteq stored' \cup pending'
  PROVE  /\ CursorsInPast' /\ CursorsPassNothing'
         /\ mem'[run.job].last >= mem[run.job].last
         /\ \A e \in page : mem'[run.job].last >= at[e]
         /\ run.count > 0 => mem'[run.job].last # None
<1>0. PICK j \in Jobs : j = run.job
  BY WhileFetching
<1> DEFINE last == mem[j].last
           moments == {at[e] : e \in page}
           new == Later(last, moments)
<1>1. /\ mem' = [mem EXCEPT ![j].last = new] /\ new \in {None} \cup run.begin..run.end
      /\ new \in {last} \cup moments /\ new >= last /\ \A e \in page : new >= at[e]
  BY <1>0, WhileFetching, MovedType
<1>2. /\ mem \in [Jobs -> [last : Cursors, begin : Cursors]] /\ now \in Nat /\ run.end < now
      /\ last \in {None} \cup run.begin..run.end /\ run.end \in Int /\ run.begin \in Nat
      /\ None = -1 /\ last \in Int
  <2>1. /\ mem \in [Jobs -> [last : Cursors, begin : Cursors]] /\ now \in Nat
        /\ last \in {None} \cup run.begin..run.end /\ run.end \in Int /\ run.begin \in Nat
        /\ run.end <= now - EndMargin
    BY <1>0, WhileFetching, Numbers DEF IInv, TypeOK, InWindow, Runs
  <2>2. EndMargin \in Nat \ {0} /\ None = -1
    BY Numbers
  <2> HIDE DEF last
  <2> QED
    BY <2>1, <2>2
<1> HIDE DEF new, last
<1>3. /\ mem'[j].last = new /\ \A k \in Jobs : k # j => mem'[k] = mem[k]
  BY <1>1, <1>2
<1>4. \A k \in Jobs : k # j => Cursor(k)' = Cursor(k)
  BY <1>3 DEF Cursor, LastJobRun
<1>5. new # None => Cursor(j)' = new /\ new \in 0..now
  BY <1>1, <1>2, <1>3 DEF Cursor
<1>6. new = None => Cursor(j)' = Cursor(j)
  <2>1. new = None => last = None
    BY <1>1, <1>2
  <2> QED
    BY <1>3, <2>1 DEF Cursor, LastJobRun, last
<1>7. CursorsInPast'
  <2>1. \A k \in Jobs : Cursor(k)' \in 0..now
    BY <1>4, <1>5, <1>6 DEF CInv, CursorsInPast
  <2> QED
    BY <2>1 DEF CInv, CursorsInPast, clock
<1>8. \A e \in Owed(j) : new > at[e] /\ new # None => e \in stored' \cup pending'
  <2>1. SUFFICES ASSUME NEW e \in Owed(j), new > at[e], new # None
                 PROVE  e \in stored' \cup pending'
    OBVIOUS
  <2>2. at[e] \in Nat /\ e \in Events
    BY OwedMoments DEF CInv
  <2>3. CASE new = last
    <3>1. Cursor(j) = new
      BY <2>1, <2>3 DEF Cursor, last
    <3> QED
      BY <2>1, <3>1 DEF CInv, CursorsPassNothing
  <2>4. ASSUME NEW f \in page, new = at[f] PROVE e \in stored' \cup pending'
    <3>1. f \in Found /\ at[f] \in Nat /\ at[f] <= run.end
      BY WhileFetching DEF Between
    <3>2. Before(at, e, f)
      BY <2>1, <2>4 DEF Before
    <3>3. CASE at[e] < run.begin
      BY <1>0, <3>3, WhileFetching DEF CInv, SeenBefore
    <3>4. CASE ~(at[e] < run.begin)
      <4>1. Between(e)
        BY <1>2, <2>1, <2>2, <2>4, <3>1, <3>4 DEF Between
      <4>2. e \in run.given \cup Page
        BY <1>0, <3>2, <4>1, NothingLeftOut
      <4>3. e \in Page => e \in page
        BY <3>2
      <4>4. e \in run.given => e \in stored
        BY WhileFetching DEF CInv, GivenInOrder
      <4> QED
        BY <4>2, <4>3, <4>4
    <3> QED
      BY <3>3, <3>4
  <2> QED
    BY <1>1, <2>3, <2>4
<1>9. \A k \in Jobs : Owed(k)' = Owed(k)
  BY DEF Owed, OfJob, clock
<1>10. CursorsPassNothing'
  <2>1. SUFFICES ASSUME NEW k \in Jobs, NEW e \in Owed(k)
                 PROVE  /\ Cursor(k)' > at[e] => e \in stored' \cup pending'
                        /\ row[k].finished > at[e] => e \in stored'
    BY <1>9 DEF CursorsPassNothing, clock
  <2>2. /\ Cursor(k) > at[e] => e \in stored \cup pending
        /\ row[k].finished > at[e] => e \in stored
    BY DEF CInv, CursorsPassNothing
  <2>3. CASE k # j \/ new = None
    BY <1>4, <1>6, <2>2, <2>3
  <2>4. CASE k = j /\ new # None
    BY <1>5, <1>8, <2>2, <2>4
  <2> QED
    BY <2>3, <2>4
<1>11. run.count > 0 => new # None
  <2>1. run.count > 0 => last # None
    BY <1>0, WhileFetching DEF CInv, Counted, last
  <2> QED
    BY <1>1, <1>2, <2>1
<1> QED
  BY <1>0, <1>1, <1>3, <1>7, <1>10, <1>11 DEF last

\* What stays as it is while a fetch goes on with its window.
LEMMA WindowStays ==
  ASSUME CInv, run.step = "pages", UNCHANGED clock,
         run'.step = "pages", run'.job = run.job, run'.begin = run.begin, run'.end = run.end,
         run'.domain \in {1, 2}, stored \cup pending \subseteq stored' \cup pending'
  PROVE  /\ ShownInTime' /\ SeenBefore' /\ NotBegun'
         /\ Owed(run.job)' = Owed(run.job) /\ \A e : Between(e)' = Between(e)
<1>1. Owed(run.job)' = Owed(run.job) /\ \A e : Between(e)' = Between(e)
  BY DEF Owed, OfJob, Between, clock
<1>2. SeenBefore'
  BY <1>1 DEF CInv, SeenBefore, clock
<1> QED
  BY <1>1, <1>2 DEF CInv, ShownInTime, NotBegun, clock

\* A domain of which no page is left has been read to the end of the window.
LEMMA DomainDoneCursors ==
  ASSUME Settled, CInv, DomainDone, IInv'
  PROVE  CInv'
<1>1. /\ Fetching /\ Page = {} /\ run' = NextDomain
      /\ UNCHANGED <<clock, mem, row, pending, stored, faults>>
  BY DEF DomainDone
<1>2. /\ run.step = "pages" /\ run.domain = 1 /\ run.failed = FALSE /\ run.job \in Jobs
      /\ IInv /\ run \in Runs
  BY <1>1, WhileFetching
<1>3. /\ run'.step = "pages" /\ run'.job = run.job /\ run'.begin = run.begin /\ run'.end = run.end
      /\ run'.given = {} /\ run'.count = run.count /\ run'.domain = 2
      /\ run'.limit = run.limit /\ run'.failed = FALSE
  BY <1>1, <1>2, NextDomainType
<1>4. /\ ShownInTime' /\ SeenBefore' /\ NotBegun'
      /\ Owed(run.job)' = Owed(run.job) /\ \A e : Between(e)' = Between(e)
  BY <1>1, <1>2, <1>3, WindowStays
<1>5. CursorsInPast' /\ CursorsPassNothing'
  BY <1>1, <1>2, CursorsStay DEF CInv
<1>6. \A e \in Owed(run.job) : Between(e) => e \in stored
  <2>1. SUFFICES ASSUME NEW e \in Owed(run.job), Between(e) PROVE e \in stored
    OBVIOUS
  <2>2. e \in Found
    BY <1>2, <2>1, WindowIsShown DEF CInv
  <2>3. CASE e \in run.given \/ \E g \in run.given : Before(at, e, g)
    BY <1>2, <2>1, <2>3 DEF CInv, GivenInOrder
  <2>4. CASE e \notin run.given /\ \A g \in run.given : ~Before(at, e, g)
    BY <1>1, <2>2, <2>4, WhileFetching, PageNotEmpty DEF Page
  <2> QED
    BY <2>3, <2>4
<1>7. WindowRead'
  BY <1>1, <1>3, <1>4, <1>6 DEF WindowRead
<1>8. GivenInOrder'
  BY <1>3 DEF GivenInOrder
<1>9. Counted'
  BY <1>1, <1>2, <1>3 DEF CInv, Counted
<1> QED
  BY <1>4, <1>5, <1>7, <1>8, <1>9 DEF CInv

LEMMA TakePageCursors ==
  ASSUME Settled, CInv, TakePage, IInv'
  PROVE  CInv'
<1>1. /\ Fetching /\ Page # {} /\ UNCHANGED <<clock, row, faults>> /\ mem' = Moved(Page)
      /\ stored' = stored \cup (pending \cup Page) /\ pending' = {}
  BY DEF TakePage, Flushed
<1>2. /\ run.step = "pages" /\ run.domain = 1 /\ run.failed = FALSE /\ run.job \in Jobs
      /\ IInv /\ run \in Runs
      /\ Page \subseteq Found /\ run.given \subseteq Found /\ \A e \in Found : at[e] \in Nat
  BY <1>1, WhileFetching
<1> DEFINE n == Cardinality(Page)
<1>3. /\ run'.step = "pages" /\ run'.job = run.job
      /\ run'.begin = run.begin /\ run'.end = run.end /\ run'.limit = run.limit
      /\ run'.failed = FALSE /\ run'.count = run.count + n
      /\ \/ /\ EnoughOf(run.ofDomain + n, run.limit, Latest(at, Page), run.begin)
            /\ run'.given = {} /\ run'.domain = 2
         \/ /\ run'.given = run.given \cup Page /\ run'.domain = 1
            /\ run'.ofDomain = run.ofDomain + n
  BY <1>2, PageTaken
<1>4. n \in Nat /\ run.ofDomain = run.count /\ run.count \in Nat /\ run.limit \in Int
  BY <1>2, PageType DEF CInv, Counted, Runs
<1> HIDE DEF n
<1>5. /\ ShownInTime' /\ SeenBefore' /\ NotBegun'
      /\ Owed(run.job)' = Owed(run.job) /\ \A e : Between(e)' = Between(e)
  BY <1>1, <1>2, <1>3, WindowStays
<1>6. /\ CursorsInPast' /\ CursorsPassNothing'
      /\ \A e \in Page : mem'[run.job].last >= at[e]
  <2>1. Page \in SUBSET Page /\ \A e \in Page, f \in Page : Before(at, e, f) => e \in Page
    OBVIOUS
  <2> QED
    BY <1>1, <2>1, CursorMoves
<1>7. GivenInOrder'
  <2>1. CASE run'.given = {}
    BY <2>1 DEF GivenInOrder
  <2>2. CASE run'.given = run.given \cup Page /\ run'.domain = 1
    <3>1. Found' = Found
      BY <1>1, <1>2, <1>3, <2>2 DEF Found, OfJob, clock
    <3>2. \A g \in run'.given : g \in stored' /\ g \in Found'
      BY <1>1, <1>2, <2>2, <3>1 DEF CInv, GivenInOrder
    <3>3. ASSUME NEW e \in Owed(run.job), NEW g \in run.given \cup Page,
                 Between(e), Before(at, e, g)
          PROVE  e \in run.given \cup Page
      BY <1>1, <1>2, <3>3, NothingLeftOut DEF CInv, GivenInOrder
    <3>4. \A e \in Owed(run.job)', g \in run'.given :
            Between(e)' /\ Before(at', e, g) => e \in run'.given
      BY <1>1, <1>5, <2>2, <3>3 DEF clock
    <3> QED
      BY <1>3, <3>2, <3>4 DEF GivenInOrder
  <2> QED
    BY <1>3, <2>1, <2>2
<1>8. Counted'
  <2>1. mem'[run.job].last # None
    <3>1. PICK f \in Page : TRUE
      BY <1>1
    <3>2. at[f] \in Nat /\ mem'[run.job].last >= at[f] /\ mem'[run.job].last \in Int
      BY <1>2, <1>6, Numbers DEF IInv, TypeOK
    <3> QED
      BY <3>2, Numbers
  <2>2. run'.domain = 1 => run'.ofDomain = run'.count
    BY <1>3, <1>4
  <2> QED
    BY <1>1, <1>3, <2>1, <2>2 DEF Counted
<1>9. WindowRead'
  <2>1. run'.domain = 2 => run'.count >= run'.limit
    BY <1>3, <1>4 DEF EnoughOf
  <2>2. ~(run'.domain = 2 /\ run'.count < run'.limit)
    BY <1>3, <1>4, <2>1
  <2> QED
    BY <2>2 DEF WindowRead
<1> QED
  BY <1>5, <1>6, <1>7, <1>8, <1>9 DEF CInv

LEMMA PageFailsCursors ==
  ASSUME Settled, CInv, NEW done, PageFails(done), IInv'
  PROVE  CInv'
<1>1. /\ Fetching /\ UNCHANGED <<clock, row>> /\ mem' = Moved(done)
      /\ run' = [run EXCEPT !.failed = TRUE] /\ done \in SUBSET Page
      /\ \A e \in done, f \in Page \ done : Before(at, e, f)
      /\ stored \subseteq stored' /\ stored \cup pending \cup done \subseteq stored' \cup pending'
  BY DEF PageFails, FirstFew
<1>2. /\ run.step = "pages" /\ run.domain = 1 /\ IInv /\ run \in Runs
      /\ Page \subseteq Found /\ \A e \in Found : at[e] \in Nat /\ Found \in SUBSET Nat
  BY <1>1, WhileFetching
<1>3. /\ run'.step = "pages" /\ run'.job = run.job /\ run'.begin = run.begin /\ run'.end = run.end
      /\ run'.failed = TRUE /\ run'.domain = 1 /\ run'.given = run.given
      /\ run'.count = run.count /\ run'.ofDomain = run.ofDomain
  BY <1>1, <1>2 DEF Runs
<1>4. ShownInTime' /\ SeenBefore' /\ NotBegun'
  BY <1>1, <1>2, <1>3, WindowStays
<1>5. \A e \in Page, f \in done : Before(at, e, f) => e \in done
  <2>1. ASSUME NEW e \in Page, NEW f \in done, Before(at, e, f), e \notin done PROVE FALSE
    <3>1. Before(at, f, e)
      BY <1>1, <2>1
    <3> QED
      BY <1>1, <1>2, <2>1, <3>1 DEF Before
  <2> QED
    BY <2>1
<1>6. /\ CursorsInPast' /\ CursorsPassNothing'
      /\ run.count > 0 => mem'[run.job].last # None
  BY <1>1, <1>5, CursorMoves
<1>7. Found' = Found
  BY <1>1, <1>2, <1>3 DEF Found, OfJob, clock
<1>8. GivenInOrder'
  BY <1>1, <1>2, <1>3, <1>7 DEF CInv, GivenInOrder
<1>9. Counted' /\ WindowRead'
  BY <1>2, <1>3, <1>6 DEF CInv, Counted, WindowRead
<1> QED
  BY <1>4, <1>6, <1>8, <1>9 DEF CInv

LEMMA InitCursors == Settled /\ Init => CInv
<1> SUFFICES ASSUME Settled, Init PROVE CInv
  OBVIOUS
<1>1. \A j \in Jobs : row[j].finished = 0 /\ mem[j].last = None
  BY DEF Init, Settled
<1>2. \A j \in Jobs : Cursor(j) = 0
  <2>1. 0 # None
    BY Numbers
  <2> QED
    BY <1>1, <2>1 DEF Cursor, LastJobRun
<1>3. CursorsInPast
  BY <1>1, <1>2 DEF CursorsInPast, Init
<1>4. CursorsPassNothing
  <2>1. \A j \in Jobs : Owed(j) = {}
    <3>1. \A e \in Events : at[e] = None
      BY DEF Init
    <3> QED
      BY <3>1, CursorsAssumption DEF Owed, OfJob, Jobs
  <2> QED
    BY <2>1 DEF CursorsPassNothing
<1>5. ShownInTime /\ run.step # "pages" /\ NotBegun
  BY DEF Init, ShownInTime, Idle, NotBegun
<1> QED
  BY <1>3, <1>4, <1>5, InitTypes DEF CInv, SeenBefore, GivenInOrder, Counted, WindowRead

LEMMA NextCursors == Settled /\ CInv /\ [Next]_vars => CInv'
<1> SUFFICES ASSUME Settled, CInv, [Next]_vars PROVE CInv'
  OBVIOUS
<1>1. IInv'
  BY NextTypes DEF CInv
<1>2. \/ (\E e \in Events : Occur(e) \/ Show(e)) \/ Tick
      \/ Start \/ LogLag \/ Crash \/ UNCHANGED vars
      \/ Begin(TRUE) \/ Begin(FALSE) \/ DomainDone \/ TakePage
      \/ (\E done \in SUBSET Events : PageFails(done))
      \/ Finish(TRUE, TRUE) \/ Finish(FALSE, TRUE) \/ Finish(TRUE, FALSE)
  BY DEF Next, Step, Fault
<1> QED
  BY <1>1, <1>2, MailgunCursors, OtherCursors, BeginCursors, DomainDoneCursors,
     TakePageCursors, PageFailsCursors, FinishCursors

\* With one domain, times in whole seconds and jobs that have finished
\* before, no cursor passes an event that was neither written nor waits to
\* be, and none in the table an event that was not written: whatever comes
\* late, wherever a page, a maximum or an error ends a fetch, and at
\* whatever step the program stops (processBatch, #fetchEvents).
THEOREM NothingIsPassedOver ==
  ASSUME Domains = 1, Second = 1, Jobs \subseteq KnownJobs
  PROVE  Spec => []CursorsPassNothing
<1>1. Init => CInv
  BY InitCursors DEF Settled
<1>2. CInv /\ [Next]_vars => CInv'
  BY NextCursors DEF Settled
<1>3. CInv => CursorsPassNothing
  BY DEF CInv
<1> QED
  BY <1>1, <1>2, <1>3, PTL DEF Spec

=============================================================================
