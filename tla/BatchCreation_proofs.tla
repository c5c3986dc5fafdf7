------------------------- MODULE BatchCreation_proofs -------------------------
(***************************************************************************)
(* Theorems about BatchCreation, for any members, batch size, segments and *)
(* number of changes while the batches are created.                        *)
(***************************************************************************)
EXTENDS BatchCreation, FiniteSetTheorems, TLAPS

\* A set of numbers has a least one.
LEMMA Least ==
  ASSUME NEW S \in SUBSET Nat, S # {}
  PROVE  \E d \in S : \A e \in S : d <= e
<1> DEFINE R == {ss \in Nat \X Nat : ss[1] < ss[2]}
<1>1. IsWellFoundedOn(R, Nat)
  BY NatLessThanWellFounded, Zenon DEF OpToRel
<1>2. \A e, d \in Nat : e < d => <<e, d>> \in R
  OBVIOUS
<1> HIDE DEF R
<1>3. PICK d \in S : \A e \in S : ~ (<<e, d>> \in R)
  BY <1>1, WFMin
<1>4. ASSUME NEW e \in S PROVE d <= e
  <2>1. ~ (e < d) /\ e \in Nat /\ d \in Nat
    BY <1>2, <1>3
  <2> QED
    BY <2>1
<1> QED
  BY <1>4

-----------------------------------------------------------------------------
(* Newest, as an ORDER BY with a LIMIT.                                    *)

Larger(S, m) == {n \in S : n > m}

LEMMA LargerFinite ==
  ASSUME NEW S \in SUBSET Nat, IsFiniteSet(S), NEW m
  PROVE  IsFiniteSet(Larger(S, m)) /\ Cardinality(Larger(S, m)) \in Nat
BY FS_Subset, FS_CardinalityType DEF Larger

LEMMA LargerShrinks ==
  ASSUME NEW S \in SUBSET Nat, IsFiniteSet(S), NEW m \in Nat, NEW n \in Nat, m <= n
  PROVE  Cardinality(Larger(S, n)) <= Cardinality(Larger(S, m))
<1>1. \A x \in S : x \in Nat /\ (x > n => x > m)
  OBVIOUS
<1>2. Larger(S, n) \subseteq Larger(S, m)
  BY <1>1 DEF Larger
<1> QED
  BY <1>2, LargerFinite, FS_Subset

LEMMA NewestMeans ==
  ASSUME NEW S, NEW k
  PROVE  Newest(S, k) = {m \in S : Cardinality(Larger(S, m)) < k}
BY DEF Newest, Larger

\* What is newer than one of the newest is one of them.
LEMMA NewestUp ==
  ASSUME NEW S \in SUBSET Nat, IsFiniteSet(S), NEW k \in Nat,
         NEW x \in Newest(S, k), NEW m \in S, x <= m
  PROVE  m \in Newest(S, k)
<1>1. Cardinality(Larger(S, m)) <= Cardinality(Larger(S, x)) /\ Cardinality(Larger(S, x)) < k
  BY LargerShrinks, NewestMeans
<1> QED
  BY <1>1, LargerFinite, NewestMeans

\* There are at most k newest ...
LEMMA NewestFits ==
  ASSUME NEW S \in SUBSET Nat, IsFiniteSet(S), NEW k \in Nat
  PROVE  /\ Newest(S, k) \subseteq S /\ IsFiniteSet(Newest(S, k))
         /\ Cardinality(Newest(S, k)) \in 0..k
<1> DEFINE T == Newest(S, k)
<1>1. T \subseteq S /\ IsFiniteSet(T) /\ Cardinality(T) \in Nat
  BY NewestMeans, FS_Subset, FS_CardinalityType
<1>2. CASE T = {}
  BY <1>1, <1>2, FS_EmptySet
<1>3. CASE T # {}
  <2>1. PICK m \in T : \A n \in T : m <= n
    BY <1>1, <1>3, Least
  <2>2. T \ {m} \subseteq Larger(S, m)
    <3>1. ASSUME NEW n \in T \ {m} PROVE n \in S /\ n > m
      <4>1. n \in Nat /\ m \in Nat /\ m <= n /\ n # m /\ n \in S
        BY <1>1, <2>1
      <4> QED
        BY <4>1
    <3> QED
      BY <3>1 DEF Larger
  <2>3. Cardinality(T \ {m}) <= Cardinality(Larger(S, m))
    BY <2>2, LargerFinite, FS_Subset
  <2>4. Cardinality(T \ {m}) = Cardinality(T) - 1
    BY <1>1, FS_RemoveElement
  <2>5. Cardinality(Larger(S, m)) < k /\ Cardinality(Larger(S, m)) \in Nat
    BY NewestMeans, LargerFinite
  <2> QED
    BY <1>1, <2>3, <2>4, <2>5
<1> QED
  BY <1>2, <1>3

\* ... and no fewer, if there are so many.
LEMMA NewestFull ==
  ASSUME NEW S \in SUBSET Nat, IsFiniteSet(S), NEW k \in Nat, k <= Cardinality(S)
  PROVE  Cardinality(Newest(S, k)) = k
<1> DEFINE T == Newest(S, k)
           Ranks == {Cardinality(Larger(S, m)) : m \in S \ T}
<1>1. T \subseteq S /\ IsFiniteSet(T) /\ Cardinality(T) \in 0..k
  BY NewestFits
<1>2. SUFFICES ASSUME Cardinality(T) < k PROVE FALSE
  BY <1>1
<1>3. S \ T # {}
  <2>1. Cardinality(T) # Cardinality(S)
    BY <1>1, <1>2, FS_CardinalityType
  <2> QED
    BY <1>1, <2>1
<1>4. Ranks \subseteq Nat /\ Ranks # {}
  BY <1>3, LargerFinite
<1> HIDE DEF Ranks
<1>5. PICK c \in Ranks : \A d \in Ranks : c <= d
  BY <1>4, Least
<1>6. PICK x \in S \ T : c = Cardinality(Larger(S, x))
  BY DEF Ranks
<1>7. ASSUME NEW y \in Larger(S, x) PROVE y \in T
  <2>1. y \in S /\ x < y /\ Larger(S, y) \subseteq Larger(S, x) \ {y}
    <3>1. y \in S /\ x \in Nat /\ y \in Nat /\ x < y
      BY DEF Larger
    <3>2. ASSUME NEW n \in Larger(S, y) PROVE n \in S /\ n > x /\ n # y
      BY <3>1 DEF Larger
    <3> QED
      BY <3>1, <3>2 DEF Larger
  <2>2. Cardinality(Larger(S, y)) <= Cardinality(Larger(S, x) \ {y})
    BY <2>1, LargerFinite, FS_RemoveElement, FS_Subset
  <2>3. Cardinality(Larger(S, x) \ {y}) = c - 1
    BY <1>6, LargerFinite, FS_RemoveElement
  <2>4. Cardinality(Larger(S, y)) < c
    BY <1>4, <2>2, <2>3, LargerFinite
  <2>5. ASSUME y \in S \ T PROVE FALSE
    <3>1. Cardinality(Larger(S, y)) \in Ranks
      BY <2>5 DEF Ranks
    <3>2. c <= Cardinality(Larger(S, y)) /\ c \in Nat /\ Cardinality(Larger(S, y)) \in Nat
      BY <1>4, <1>5, <3>1
    <3> QED
      BY <2>4, <3>2
  <2> QED
    BY <2>1, <2>5
<1>8. Cardinality(Larger(S, x)) <= Cardinality(T)
  BY <1>1, <1>7, FS_Subset
<1> QED
  BY <1>1, <1>2, <1>6, <1>8, LargerFinite, NewestMeans

\* All are newest if there are no more than k.
LEMMA NewestAll ==
  ASSUME NEW S \in SUBSET Nat, IsFiniteSet(S), NEW k \in Nat, Cardinality(S) <= k
  PROVE  Newest(S, k) = S
<1>1. ASSUME NEW m \in S PROVE Cardinality(Larger(S, m)) < k
  <2>1. Larger(S, m) \subseteq S \ {m}
    BY DEF Larger
  <2>2. Cardinality(S \ {m}) = Cardinality(S) - 1 /\ IsFiniteSet(S \ {m})
    BY FS_RemoveElement
  <2>3. Cardinality(Larger(S, m)) <= Cardinality(S \ {m})
    BY <2>1, <2>2, FS_Subset
  <2> QED
    BY <2>2, <2>3, LargerFinite, FS_CardinalityType
<1> QED
  BY <1>1, NewestMeans

\* Who is not among them is older than all of them, and there are k.
LEMMA NewestRest ==
  ASSUME NEW S \in SUBSET Nat, IsFiniteSet(S), NEW k \in Nat, NEW m \in S \ Newest(S, k)
  PROVE  Cardinality(Newest(S, k)) = k /\ \A n \in Newest(S, k) : m < n
<1>1. ~ (Cardinality(Larger(S, m)) < k)
  BY NewestMeans
<1>2. Cardinality(Larger(S, m)) <= Cardinality(S)
  BY FS_Subset DEF Larger
<1>3. k <= Cardinality(S)
  BY <1>1, <1>2, LargerFinite, FS_CardinalityType
<1>4. ASSUME NEW n \in Newest(S, k), n <= m PROVE FALSE
  BY <1>4, NewestUp
<1>5. \A n \in Newest(S, k) : n \in Nat /\ m \in Nat
  BY NewestFits
<1> QED
  BY <1>3, <1>4, <1>5, NewestFull

-----------------------------------------------------------------------------
(* Types, and the size of the batches.                                     *)

LEMMA IdFacts ==
  /\ Ids \subseteq Nat /\ IsFiniteSet(Ids) /\ EmailId \in Nat /\ EmailId \notin Ids
  /\ BatchSize \in Nat /\ BatchSize > 0
  /\ \A S \in SUBSET Ids : /\ S \subseteq Nat /\ IsFiniteSet(S)
                           /\ Cardinality(S) \in Nat /\ Cardinality(S) <= Cardinality(Ids)
                           /\ Cardinality(S) = 0 <=> S = {}
<1>1. \A S \in SUBSET Ids : IsFiniteSet(S) /\ Cardinality(S) <= Cardinality(Ids)
  BY CreationAssumption, FS_Subset
<1>2. \A S \in SUBSET Ids : Cardinality(S) \in Nat /\ (Cardinality(S) = 0 <=> S = {})
  BY <1>1, FS_CardinalityType, FS_EmptySet
<1> QED
  BY <1>1, <1>2, CreationAssumption

LEMMA SegmentFacts ==
  ASSUME NEW s \in Segmentations
  PROVE  /\ s \in Seq(SUBSET Audience) /\ Len(s) \in Nat /\ 1 \in 1..Len(s)
         /\ \A i, k \in 1..Len(s) : i # k => s[i] \cap s[k] = {}
         /\ \A g \in Audience : \E i \in 1..Len(s) : g \in s[i]
         /\ \A i \in 1..Len(s) : s[i] \subseteq Audience
<1>1. /\ s \in Seq(SUBSET Audience)
      /\ \A i, k \in 1..Len(s) : i # k => s[i] \cap s[k] = {}
      /\ UNION {s[i] : i \in 1..Len(s)} = Audience
  BY CreationAssumption
<1>2. \A g \in Audience : \E i \in 1..Len(s) : g \in s[i]
  BY <1>1
<1>3. "free" \in Audience /\ Len(s) \in Nat
  BY <1>1 DEF Audience
<1>4. \A i \in 1..Len(s) : s[i] \subseteq Audience
  BY <1>1
<1> QED
  BY <1>1, <1>2, <1>3, <1>4

LEMMA InitTypes == Init => TypeOK
<1> SUFFICES ASSUME Init PROVE TypeOK
  OBVIOUS
<1>1. segment \in 1..Len(segments)
  BY SegmentFacts DEF Init
<1>2. emailCount \in Nat
  <2> DEFINE now == Cardinality({m \in Ids : group[m] # "none"})
  <2>1. now \in Nat /\ MaxChanges \in Nat
    BY IdFacts, CreationAssumption
  <2> HIDE DEF now
  <2>2. emailCount \in {n \in (now - MaxChanges)..(now + MaxChanges) : n >= 0}
    BY DEF Init, now
  <2> QED
    BY <2>1, <2>2
<1>3. csdCount \in Nat /\ limit \in Nat
  BY <1>2, IdFacts DEF Init, Unlimited
<1> QED
  BY <1>1, <1>2, <1>3, IdFacts DEF Init, TypeOK, Batches

\* What a page gives to store.
LEMMA PageFacts ==
  ASSUME TypeOK
  PROVE  /\ ToProcess \subseteq page /\ Cardinality(ToProcess) \in 0..BatchSize
         /\ ToProcess \in SUBSET Ids
         /\ page # {} => ToProcess # {}
         /\ Cardinality(page) <= BatchSize => ToProcess = page
<1>1. page \in SUBSET Ids
  BY DEF TypeOK
<1>2. ToProcess \subseteq page /\ Cardinality(ToProcess) \in 0..BatchSize
  BY <1>1, IdFacts, NewestFits DEF ToProcess
<1>3. ASSUME page # {} PROVE ToProcess # {}
  <2>1. CASE Cardinality(page) <= BatchSize
    BY <1>1, <1>3, <2>1, IdFacts, NewestAll DEF ToProcess
  <2>2. CASE ~ (Cardinality(page) <= BatchSize)
    <3>1. BatchSize <= Cardinality(page)
      BY <1>1, <2>2, IdFacts
    <3>2. Cardinality(ToProcess) = BatchSize
      BY <1>1, <3>1, IdFacts, NewestFull DEF ToProcess
    <3> QED
      BY <3>2, IdFacts, FS_EmptySet
  <2> QED
    BY <2>1, <2>2
<1>4. Cardinality(page) <= BatchSize => ToProcess = page
  BY <1>1, IdFacts, NewestAll DEF ToProcess
<1> QED
  BY <1>1, <1>2, <1>3, <1>4

LEMMA StoreType ==
  ASSUME TypeOK, NEW rows \in SUBSET Ids, Cardinality(rows) \in 0..BatchSize,
         NEW fallback \in BOOLEAN, StoreBatch(rows, fallback)
  PROVE  /\ batches' \in Seq(Batches) /\ totalCount' \in Nat
         /\ UNCHANGED <<group, segments, page, emailCount, csdCount, warming, limit,
                        moved, changes>>
<1>1. totalCount' \in Nat
  BY IdFacts DEF StoreBatch, TypeOK
<1>2. segment \in Nat
  BY SegmentFacts DEF TypeOK
<1>3. rows # {} => [segment |-> segment, rows |-> rows, fallback |-> fallback] \in Batches
  <2>1. rows # {} => Cardinality(rows) \in 1..BatchSize
    <3>1. rows # {} => Cardinality(rows) # 0
      BY IdFacts
    <3> QED
      BY <3>1, IdFacts
  <2> QED
    BY <1>2, <2>1 DEF Batches
<1>4. batches' \in Seq(Batches)
  BY <1>3 DEF StoreBatch, TypeOK
<1> QED
  BY <1>1, <1>4 DEF StoreBatch

LEMMA OnwardType ==
  ASSUME TypeOK, page' \in SUBSET Ids, UNCHANGED segments, Onward
  PROVE  /\ segment' \in 1..Len(segments) /\ lastId' \in Ids \cup {EmailId}
         /\ stage' \in {"fetch", "count"}
<1>1. Newest(page', BatchSize) \subseteq Ids
  BY IdFacts, NewestFits
<1>2. segment \in 1..Len(segments) /\ Len(segments) \in Nat
  BY SegmentFacts DEF TypeOK
<1> QED
  BY <1>1, <1>2 DEF Onward, TypeOK

\* The batches the four ways of storing make.
LEMMA CustomFacts ==
  ASSUME TypeOK, ShouldSplit
  PROVE  /\ Capacity \in Nat /\ Capacity > 0 /\ totalCount + Capacity = limit
         /\ Newest(page, Capacity) \subseteq ToProcess
         /\ Newest(page, Capacity) \in SUBSET Ids
         /\ Cardinality(Newest(page, Capacity)) = Capacity
         /\ Capacity < Cardinality(ToProcess) /\ Capacity < BatchSize
<1>1. page \in SUBSET Ids /\ totalCount \in Nat /\ limit \in Nat
  BY DEF TypeOK
<1>2. Cardinality(ToProcess) \in 0..BatchSize /\ ToProcess \subseteq page
  BY PageFacts
<1>3. /\ Capacity \in Nat /\ Capacity > 0 /\ totalCount + Capacity = limit
      /\ Capacity < Cardinality(ToProcess) /\ Capacity < BatchSize
  BY <1>1, <1>2, IdFacts DEF ShouldSplit, Capacity
<1>4. Cardinality(ToProcess) <= Cardinality(page)
  BY <1>1, <1>2, IdFacts, FS_Subset
<1>5. Capacity <= Cardinality(page)
  BY <1>1, <1>2, <1>3, <1>4, IdFacts
<1>6. Cardinality(Newest(page, Capacity)) = Capacity
  BY <1>1, <1>3, <1>5, IdFacts, NewestFull
<1>7. ASSUME NEW m \in Newest(page, Capacity) PROVE m \in ToProcess
  <2>1. /\ m \in page /\ Cardinality(Larger(page, m)) < Capacity
        /\ Cardinality(Larger(page, m)) \in Nat
    BY <1>1, <1>7, IdFacts, NewestMeans, LargerFinite
  <2>2. Cardinality(Larger(page, m)) < BatchSize
    BY <1>3, <2>1, IdFacts
  <2> QED
    BY <2>1, <2>2, NewestMeans DEF ToProcess
<1> QED
  BY <1>1, <1>2, <1>3, <1>6, <1>7

LEMMA RestFacts ==
  ASSUME TypeOK, NEW S
  PROVE  /\ ToProcess \ S \in SUBSET Ids
         /\ Cardinality(ToProcess \ S) \in 0..BatchSize
<1>1. ToProcess \in SUBSET Ids /\ Cardinality(ToProcess) \in 0..BatchSize
  BY PageFacts
<1>2. /\ Cardinality(ToProcess \ S) <= Cardinality(ToProcess)
      /\ Cardinality(ToProcess \ S) \in Nat /\ ToProcess \ S \in SUBSET Ids
  BY <1>1, IdFacts, FS_Subset
<1> QED
  BY <1>1, <1>2, IdFacts

LEMMA StepTypes ==
  ASSUME TypeOK, [Next]_vars
  PROVE  TypeOK'
<1>1. CASE FetchPage
  <2>1. page' \in SUBSET Ids
    <3>1. Matching \in SUBSET Ids
      BY DEF Matching
    <3>2. BatchSize + 1 \in Nat
      BY IdFacts
    <3> QED
      BY <1>1, <3>1, <3>2, IdFacts, NewestFits DEF FetchPage
  <2>2. CASE page' = {}
    BY <1>1, <2>1, <2>2, OnwardType DEF FetchPage, TypeOK
  <2>3. CASE page' # {}
    BY <1>1, <2>1, <2>3 DEF FetchPage, TypeOK
  <2> QED
    BY <2>2, <2>3
<1>2. ASSUME NEW rows \in SUBSET Ids, Cardinality(rows) \in 0..BatchSize,
             NEW fallback \in BOOLEAN, StoreBatch(rows, fallback),
             \/ Onward
             \/ stage' = "rest" /\ UNCHANGED <<segment, lastId>>
      PROVE  TypeOK'
  <2>1. /\ batches' \in Seq(Batches) /\ totalCount' \in Nat
        /\ UNCHANGED <<group, segments, page, emailCount, csdCount, warming, limit,
                       moved, changes>>
    BY <1>2, StoreType
  <2>2. /\ segment' \in 1..Len(segments) /\ lastId' \in Ids \cup {EmailId}
        /\ stage' \in {"fetch", "count", "rest"}
    BY <1>2, <2>1, OnwardType DEF TypeOK
  <2> QED
    BY <2>1, <2>2 DEF TypeOK
<1>3. CASE StorePage
  <2>1. StoreBatch(ToProcess, totalCount >= limit) /\ Onward
    BY <1>3 DEF StorePage
  <2>2. (totalCount >= limit) \in BOOLEAN
    OBVIOUS
  <2> QED
    BY <1>2, <2>1, <2>2, PageFacts
<1>4. CASE StoreCustomPart
  <2>1. ShouldSplit /\ StoreBatch(Newest(page, Capacity), FALSE) /\ stage' = "rest"
        /\ UNCHANGED <<segment, lastId>>
    BY <1>4 DEF StoreCustomPart
  <2>2. /\ Newest(page, Capacity) \in SUBSET Ids
        /\ Cardinality(Newest(page, Capacity)) \in 0..BatchSize
    BY <2>1, CustomFacts, IdFacts
  <2> QED
    BY <1>2, <2>1, <2>2
<1>5. CASE StoreFallbackPart
  BY <1>2, <1>5, RestFacts DEF StoreFallbackPart
<1>6. CASE SaveCount
  BY <1>6 DEF SaveCount, TypeOK, Lesser
<1>7. ASSUME NEW m \in Ids, MemberChanges(m) PROVE TypeOK'
  BY <1>7 DEF MemberChanges, TypeOK
<1>8. CASE UNCHANGED vars
  BY <1>8 DEF vars, TypeOK
<1> QED
  BY <1>1, <1>3, <1>4, <1>5, <1>6, <1>7, <1>8 DEF Next, CreateStep

\* Types hold, and with them: no batch is empty or larger than the provider
\* takes, wherever pages end and the warm-up limit falls.
THEOREM TypeCorrect == Spec => []TypeOK
BY InitTypes, StepTypes, PTL DEF Spec

-----------------------------------------------------------------------------
(* Pages neither overlap nor skip.                                         *)

\* Every batch belongs to a segment reached so far.
Behind ==
  /\ lastId <= EmailId
  /\ \A i \in DOMAIN batches :
       /\ batches[i].segment \in 1..segment
       /\ \A m \in batches[i].rows : m < EmailId

\* The page at hand lies below the rows of this segment that are stored, and in
\* "rest" the last batch is its first part.
PageAhead ==
  /\ stage \in {"store", "rest"} => \A m \in page : m < lastId
  /\ stage \in {"fetch", "store", "rest"} =>
       \A i \in DOMAIN batches : batches[i].segment = segment =>
         \A m \in batches[i].rows :
           lastId <= m \/ (stage = "rest" /\ i = Len(batches) /\ m \in ToProcess)
  /\ stage = "rest" => Len(batches) > 0

\* Who kept still is stored, or at hand, in its segment and in no other.
RowsMatch ==
  \A i \in DOMAIN batches : \A m \in batches[i].rows \ moved :
    group[m] \in segments[batches[i].segment]

PageMatches ==
  stage \in {"store", "rest"} => \A m \in page \ moved : group[m] \in segments[segment]

Wanted(m, c) == m \in Ids \ moved /\ m < EmailId /\ group[m] \in segments[c]

Visited(m, c) ==
  \/ c < segment
  \/ stage \in {"count", "done"}
  \/ c = segment /\ lastId <= m

Covered ==
  \A c \in 1..Len(segments) : \A m \in Ids :
    Wanted(m, c) /\ Visited(m, c) => BatchesOf(m) # {}

PageComplete ==
  stage \in {"store", "rest"} =>
    \A m \in Ids :
      Wanted(m, segment) /\ m < lastId =>
        \/ m \in page
        \/ Cardinality(page) > BatchSize /\ \A n \in page : m < n

OrderInv == TypeOK /\ Behind /\ PageAhead /\ OncePerSegment
CoverInv == RowsMatch /\ PageMatches /\ Covered /\ PageComplete

LEMMA StateFacts ==
  ASSUME TypeOK
  PROVE  /\ DOMAIN batches = 1..Len(batches) /\ Len(batches) \in Nat
         /\ \A i \in DOMAIN batches : /\ batches[i].segment \in Nat
                                      /\ batches[i].rows \in SUBSET Ids
         /\ segment \in 1..Len(segments) /\ segment \in Nat /\ Len(segments) \in Nat
         /\ lastId \in Nat /\ EmailId \in Nat /\ \A m \in Ids : m \in Nat
         /\ page \in SUBSET Ids
<1>1. batches \in Seq(Batches)
  BY DEF TypeOK
<1>2. \A i \in DOMAIN batches : batches[i] \in Batches
  BY <1>1
<1>3. segment \in 1..Len(segments) /\ Len(segments) \in Nat
  BY SegmentFacts DEF TypeOK
<1> QED
  BY <1>1, <1>2, <1>3, IdFacts DEF TypeOK, Batches

LEMMA PrimedRows ==
  ASSUME TypeOK'
  PROVE  \A i \in DOMAIN batches' : batches'[i].rows \in SUBSET Ids
<1>1. batches' \in Seq(Batches)
  BY DEF TypeOK
<1>2. \A i \in DOMAIN batches' : batches'[i] \in Batches
  BY <1>1
<1> QED
  BY <1>2 DEF Batches

LEMMA InitOnce == Init => OrderInv /\ CoverInv
<1> SUFFICES ASSUME Init PROVE OrderInv /\ CoverInv
  OBVIOUS
<1>1. TypeOK
  BY InitTypes
<1>2. Behind /\ PageAhead /\ OncePerSegment
  BY IdFacts DEF Init, Behind, PageAhead, OncePerSegment, BatchesOf
<1>3. RowsMatch /\ PageMatches /\ PageComplete
  BY DEF Init, RowsMatch, PageMatches, PageComplete
<1>4. ASSUME NEW c \in 1..Len(segments), NEW m \in Ids, Wanted(m, c), Visited(m, c) PROVE FALSE
  <2>1. m \in Nat /\ m < EmailId /\ EmailId \in Nat /\ segment = 1 /\ lastId = EmailId /\ stage = "fetch"
        /\ c \in 1..Len(segments) /\ Len(segments) \in Nat
    BY <1>1, <1>4, StateFacts DEF Init, Wanted
  <2>2. ~ (c < segment)
    BY <2>1
  <2>3. ~ (lastId <= m)
    BY <2>1
  <2> QED
    BY <1>4, <2>1, <2>2, <2>3 DEF Visited
<1> QED
  BY <1>1, <1>2, <1>3, <1>4 DEF OrderInv, CoverInv, Covered

\* A stored batch comes last.
LEMMA Stored ==
  ASSUME TypeOK, NEW rows \in SUBSET Ids, NEW fallback, StoreBatch(rows, fallback)
  PROVE  \/ rows = {} /\ batches' = batches
         \/ /\ rows # {} /\ DOMAIN batches' = 1..(Len(batches) + 1)
            /\ Len(batches') = Len(batches) + 1
            /\ \A i \in 1..Len(batches) : batches'[i] = batches[i]
            /\ batches'[Len(batches) + 1] =
                 [segment |-> segment, rows |-> rows, fallback |-> fallback]
<1>1. batches \in Seq(Batches)
  BY DEF TypeOK
<1>2. CASE rows = {}
  BY <1>2 DEF StoreBatch
<1>3. CASE rows # {}
  <2>1. batches' = Append(batches, [segment |-> segment, rows |-> rows, fallback |-> fallback])
    BY <1>3 DEF StoreBatch
  <2> QED
    BY <1>1, <1>3, <2>1
<1> QED
  BY <1>2, <1>3

\* Storing rows of the page that are not in a batch yet.
LEMMA StoreKeeps ==
  ASSUME OrderInv, stage \in {"store", "rest"}, NEW rows \in SUBSET page, NEW fallback,
         StoreBatch(rows, fallback),
         \A i \in DOMAIN batches : batches[i].segment = segment => rows \cap batches[i].rows = {}
  PROVE  /\ OncePerSegment'
         /\ \A i \in DOMAIN batches' :
              /\ batches'[i].segment \in 1..segment
              /\ \A m \in batches'[i].rows : m < EmailId
              /\ batches'[i].segment = segment =>
                   \A m \in batches'[i].rows :
                     lastId <= m \/ (m \in rows /\ i = Len(batches'))
                       \/ (stage = "rest" /\ i = Len(batches) /\ m \in ToProcess)
         /\ \A m \in rows : m < lastId
<1>t. TypeOK /\ Behind /\ PageAhead /\ OncePerSegment
  BY DEF OrderInv
<1> DEFINE new == Len(batches) + 1
<1>k. /\ DOMAIN batches = 1..Len(batches) /\ Len(batches) \in Nat
      /\ segment \in Nat /\ segment >= 1 /\ rows \in SUBSET Ids /\ lastId \in Nat /\ EmailId \in Nat
      /\ \A m \in Ids : m \in Nat
  BY <1>t, StateFacts
<1>1. \A m \in rows : m < lastId
  BY <1>t DEF PageAhead
<1>2. \A m \in rows : m < EmailId
  BY <1>k, <1>t, <1>1 DEF Behind
<1>3. CASE batches' = batches
  BY <1>t, <1>1, <1>3 DEF OncePerSegment, BatchesOf, Behind, PageAhead
<1>4. CASE /\ DOMAIN batches' = 1..new /\ Len(batches') = new
           /\ \A i \in DOMAIN batches : batches'[i] = batches[i]
           /\ batches'[new] = [segment |-> segment, rows |-> rows, fallback |-> fallback]
  <2>1. ASSUME NEW i \in DOMAIN batches' PROVE i \in DOMAIN batches \/ i = new
    BY <1>k, <1>4
  <2>2. OncePerSegment'
    <3> SUFFICES ASSUME NEW m \in Ids, NEW i \in DOMAIN batches', NEW k \in DOMAIN batches',
                        m \in batches'[i].rows, m \in batches'[k].rows,
                        batches'[i].segment = batches'[k].segment
                 PROVE  i = k
      BY DEF OncePerSegment, BatchesOf
    <3>1. CASE i \in DOMAIN batches /\ k \in DOMAIN batches
      BY <1>t, <1>4, <3>1 DEF OncePerSegment, BatchesOf
    <3>2. CASE i \in DOMAIN batches /\ k = new
      BY <1>4, <3>2
    <3>3. CASE i = new /\ k \in DOMAIN batches
      BY <1>4, <3>3
    <3> QED
      BY <2>1, <3>1, <3>2, <3>3
  <2>3. ASSUME NEW i \in DOMAIN batches'
        PROVE  /\ batches'[i].segment \in 1..segment
               /\ \A m \in batches'[i].rows : m < EmailId
               /\ batches'[i].segment = segment =>
                    \A m \in batches'[i].rows :
                      lastId <= m \/ (m \in rows /\ i = Len(batches'))
                        \/ (stage = "rest" /\ i = Len(batches) /\ m \in ToProcess)
    <3>1. CASE i \in DOMAIN batches
      BY <1>t, <1>4, <3>1 DEF Behind, PageAhead
    <3>2. CASE i = new
      <4>1. batches'[i].segment = segment /\ batches'[i].rows = rows /\ i = Len(batches')
        BY <1>4, <3>2
      <4>2. segment \in 1..segment
        BY <1>k
      <4> QED
        BY <1>2, <4>1, <4>2
    <3> QED
      BY <2>1, <3>1, <3>2
  <2> QED
    BY <1>1, <2>2, <2>3
<1> QED
  BY <1>t, <1>k, <1>3, <1>4, Stored

\* Going on from a page whose rows are stored.
LEMMA OnwardKeeps ==
  ASSUME OrderInv, TypeOK', stage \in {"store", "rest"}, Onward,
         page' = page, UNCHANGED segments,
         \A i \in DOMAIN batches' :
              /\ batches'[i].segment \in 1..segment
              /\ \A m \in batches'[i].rows : m < EmailId
              /\ batches'[i].segment = segment =>
                   \A m \in batches'[i].rows : lastId <= m \/ m \in ToProcess
  PROVE  Behind' /\ PageAhead'
<1>t. TypeOK /\ Behind /\ PageAhead
  BY DEF OrderInv
<1>k. /\ segment \in Nat /\ lastId \in Nat /\ EmailId \in Nat /\ page \in SUBSET Ids
      /\ \A m \in Ids : m \in Nat
  BY <1>t, StateFacts
<1>1. CASE Cardinality(page') > BatchSize
  <2>1. /\ lastId' \in ToProcess /\ \A m \in ToProcess : lastId' <= m
        /\ stage' = "fetch" /\ segment' = segment
    BY <1>1 DEF Onward, ToProcess
  <2>2. lastId' \in Nat /\ lastId' < lastId /\ lastId' < EmailId
    <3>1. lastId' \in page /\ lastId' \in Nat
      BY <1>t, <1>k, <2>1, PageFacts
    <3>2. lastId' < lastId /\ lastId <= EmailId
      BY <1>t, <3>1 DEF PageAhead, Behind
    <3> QED
      BY <1>k, <3>1, <3>2
  <2>3. ASSUME NEW i \in DOMAIN batches', batches'[i].segment = segment,
               NEW m \in batches'[i].rows, lastId <= m
        PROVE  lastId' <= m
    <3>1. m \in Nat
      BY <1>k, <2>3, PrimedRows
    <3> QED
      BY <1>k, <2>2, <2>3, <3>1
  <2>4. Behind'
    BY <1>k, <2>1, <2>2, IdFacts DEF Behind
  <2> QED
    BY <2>1, <2>3, <2>4 DEF PageAhead
<1>2. CASE ~ (Cardinality(page') > BatchSize) /\ segment < Len(segments)
  <2>1. segment' = segment + 1 /\ lastId' = EmailId /\ stage' = "fetch"
    BY <1>2 DEF Onward
  <2>2. \A i \in DOMAIN batches' : batches'[i].segment # segment'
    BY <1>k, <2>1
  <2>3. 1..segment \subseteq 1..segment'
    BY <1>k, <2>1
  <2>4. Behind'
    BY <1>k, <2>1, <2>3, IdFacts DEF Behind
  <2> QED
    BY <2>1, <2>2, <2>4 DEF PageAhead
<1>3. CASE ~ (Cardinality(page') > BatchSize) /\ ~ (segment < Len(segments))
  <2>1. stage' = "count" /\ UNCHANGED <<segment, lastId>>
    BY <1>3 DEF Onward
  <2> QED
    BY <1>t, <2>1, IdFacts DEF Behind, PageAhead
<1> QED
  BY <1>1, <1>2, <1>3

\* FetchPage reads the newest of the rows below the last page.
LEMMA FetchFacts ==
  ASSUME TypeOK, FetchPage
  PROVE  /\ page' \subseteq Matching /\ page' \in SUBSET Ids
         /\ UNCHANGED <<group, segments, batches, moved>>
         /\ \A m \in Matching :
              m \in page' \/ (Cardinality(page') > BatchSize /\ \A n \in page' : m < n)
         /\ page' # {} => stage' = "store" /\ UNCHANGED <<segment, lastId>>
         /\ page' = {} =>
              /\ Matching = {}
              /\ \/ segment' = segment + 1 /\ lastId' = EmailId /\ stage' = "fetch"
                 \/ segment = Len(segments) /\ stage' = "count" /\ UNCHANGED <<segment, lastId>>
<1>1. Matching \in SUBSET Ids /\ BatchSize + 1 \in Nat
  BY IdFacts DEF Matching
<1>2. page' = Newest(Matching, BatchSize + 1)
  BY DEF FetchPage
<1>3. page' \subseteq Matching
  BY <1>1, <1>2, IdFacts, NewestFits
<1>4. ASSUME NEW m \in Matching, m \notin page'
      PROVE  Cardinality(page') > BatchSize /\ \A n \in page' : m < n
  <2>1. Cardinality(page') = BatchSize + 1 /\ \A n \in page' : m < n
    BY <1>1, <1>2, <1>4, IdFacts, NewestRest
  <2> QED
    BY <2>1, IdFacts
<1>5. ASSUME page' = {}
      PROVE  /\ Matching = {}
             /\ \/ segment' = segment + 1 /\ lastId' = EmailId /\ stage' = "fetch"
                \/ segment = Len(segments) /\ stage' = "count" /\ UNCHANGED <<segment, lastId>>
  <2>1. Cardinality(page') = 0 /\ ~ (Cardinality(page') > BatchSize)
    <3>1. Cardinality(page') = 0
      BY <1>5, FS_EmptySet
    <3> QED
      BY <3>1, IdFacts
  <2>2. Matching = {}
    BY <1>4, <1>5, <2>1
  <2>3. segment \in 1..Len(segments) /\ Len(segments) \in Nat
    BY StateFacts
  <2>4. Onward
    BY <1>5 DEF FetchPage
  <2> QED
    BY <2>1, <2>2, <2>3, <2>4 DEF Onward
<1>6. page' # {} => stage' = "store" /\ UNCHANGED <<segment, lastId>>
  BY DEF FetchPage
<1>7. UNCHANGED <<group, segments, batches, moved>>
  BY DEF FetchPage
<1> QED
  BY <1>1, <1>3, <1>4, <1>5, <1>6, <1>7

\* A transaction that stores rows of the page which no batch of this segment
\* has; afterwards all of the page is stored, or "rest" follows.
Storing(rows, fallback) ==
  /\ stage \in {"store", "rest"}
  /\ StoreBatch(rows, fallback)
  /\ rows \in SUBSET ToProcess
  /\ \A i \in DOMAIN batches : batches[i].segment = segment => rows \cap batches[i].rows = {}
  /\ \/ /\ Onward
        /\ \A m \in ToProcess : m \in rows \/ BatchesOf(m) # {}
     \/ /\ rows # {} /\ stage = "store" /\ stage' = "rest"
        /\ UNCHANGED <<segment, lastId>>

LEMMA StepsStore ==
  ASSUME OrderInv, StorePage \/ StoreCustomPart \/ StoreFallbackPart
  PROVE  \E rows \in SUBSET Ids, fallback \in BOOLEAN : Storing(rows, fallback)
<1>t. TypeOK /\ PageAhead
  BY DEF OrderInv
<1>k. /\ lastId \in Nat /\ page \in SUBSET Ids /\ \A m \in Ids : m \in Nat
      /\ DOMAIN batches = 1..Len(batches) /\ Len(batches) \in Nat
  BY <1>t, StateFacts
<1>p. ToProcess \in SUBSET Ids /\ ToProcess \subseteq page
  BY <1>t, PageFacts
<1>1. ASSUME stage = "store", NEW rows \in SUBSET page, NEW i \in DOMAIN batches,
             batches[i].segment = segment
      PROVE  rows \cap batches[i].rows = {}
  <2> SUFFICES ASSUME NEW m \in rows, m \in batches[i].rows PROVE FALSE
    OBVIOUS
  <2>1. m \in Nat /\ m < lastId /\ lastId <= m
    BY <1>1, <1>t, <1>k DEF PageAhead
  <2> QED
    BY <1>k, <2>1
<1>2. CASE StorePage
  <2>1. stage = "store" /\ StoreBatch(ToProcess, totalCount >= limit) /\ Onward
    BY <1>2 DEF StorePage
  <2>2. Storing(ToProcess, totalCount >= limit)
    BY <1>1, <1>p, <2>1 DEF Storing
  <2>3. (totalCount >= limit) \in BOOLEAN
    OBVIOUS
  <2> QED
    BY <1>p, <2>2, <2>3
<1>3. CASE StoreCustomPart
  <2>1. stage = "store" /\ StoreBatch(Newest(page, Capacity), FALSE)
        /\ stage' = "rest" /\ UNCHANGED <<segment, lastId>> /\ ShouldSplit
    BY <1>3 DEF StoreCustomPart
  <2>2. /\ Newest(page, Capacity) \subseteq ToProcess /\ Newest(page, Capacity) \in SUBSET Ids
        /\ Cardinality(Newest(page, Capacity)) > 0
    BY <1>t, <2>1, CustomFacts
  <2>3. Newest(page, Capacity) # {}
    BY <2>2, FS_EmptySet
  <2>4. Storing(Newest(page, Capacity), FALSE)
    BY <1>1, <1>p, <2>1, <2>2, <2>3 DEF Storing
  <2> QED
    BY <2>2, <2>4
<1>4. CASE StoreFallbackPart
  <2> DEFINE last == batches[Len(batches)]
             rows == ToProcess \ last.rows
  <2>1. stage = "rest" /\ StoreBatch(rows, TRUE) /\ Onward
    BY <1>4 DEF StoreFallbackPart
  <2>2. Len(batches) \in DOMAIN batches
    BY <1>t, <1>k, <2>1 DEF PageAhead
  <2>3. ASSUME NEW i \in DOMAIN batches, batches[i].segment = segment,
               NEW m \in rows, m \in batches[i].rows
        PROVE  FALSE
    <3>1. i # Len(batches)
      BY <2>3
    <3>2. m \in Nat /\ m < lastId /\ lastId <= m
      BY <1>t, <1>k, <1>p, <2>1, <2>3, <3>1 DEF PageAhead
    <3> QED
      BY <1>k, <3>2
  <2>4. \A m \in ToProcess : m \in rows \/ BatchesOf(m) # {}
    BY <2>2 DEF BatchesOf
  <2>5. Storing(rows, TRUE)
    BY <2>1, <2>3, <2>4 DEF Storing
  <2> QED
    BY <1>p, <2>5
<1> QED
  BY <1>2, <1>3, <1>4

LEMMA StoringKeepsOrder ==
  ASSUME OrderInv, TypeOK', NEW rows \in SUBSET Ids, NEW fallback, Storing(rows, fallback)
  PROVE  OrderInv'
<1>t. TypeOK /\ Behind /\ PageAhead
  BY DEF OrderInv
<1>p. rows \in SUBSET page /\ rows \subseteq ToProcess
  BY <1>t, PageFacts DEF Storing
<1>1. /\ stage \in {"store", "rest"} /\ StoreBatch(rows, fallback)
      /\ page' = page /\ segments' = segments
      /\ \A i \in DOMAIN batches :
           batches[i].segment = segment => rows \cap batches[i].rows = {}
  BY DEF Storing, StoreBatch
<1>2. /\ OncePerSegment'
      /\ \A i \in DOMAIN batches' :
           /\ batches'[i].segment \in 1..segment
           /\ \A m \in batches'[i].rows : m < EmailId
           /\ batches'[i].segment = segment =>
                \A m \in batches'[i].rows :
                  lastId <= m \/ (m \in rows /\ i = Len(batches'))
                    \/ (stage = "rest" /\ i = Len(batches) /\ m \in ToProcess)
      /\ \A m \in rows : m < lastId
  BY <1>1, <1>p, StoreKeeps
<1>3. CASE Onward
  <2>1. Behind' /\ PageAhead'
    BY <1>1, <1>2, <1>3, <1>p, OnwardKeeps
  <2> QED
    BY <1>2, <2>1 DEF OrderInv
<1>4. CASE rows # {} /\ stage = "store" /\ stage' = "rest" /\ UNCHANGED <<segment, lastId>>
  <2>1. Behind'
    BY <1>t, <1>2, <1>4, IdFacts DEF Behind
  <2>2. Len(batches') > 0
    <3>1. Len(batches') = Len(batches) + 1
      BY <1>t, <1>1, <1>4, Stored
    <3> QED
      BY <1>t, <3>1, StateFacts
  <2>3. ToProcess' = ToProcess
    BY <1>1 DEF ToProcess
  <2>4. PageAhead'
    BY <1>t, <1>1, <1>2, <1>4, <1>p, <2>2, <2>3 DEF PageAhead
  <2> QED
    BY <1>2, <2>1, <2>4 DEF OrderInv
<1> QED
  BY <1>3, <1>4 DEF Storing

LEMMA StepOrder ==
  ASSUME OrderInv, [Next]_vars
  PROVE  OrderInv'
<1>t. TypeOK /\ Behind /\ PageAhead /\ OncePerSegment /\ TypeOK'
  BY StepTypes DEF OrderInv
<1>1. CASE UNCHANGED <<segment, lastId, page, batches, stage>>
  BY <1>t, <1>1, IdFacts DEF OrderInv, Behind, PageAhead, OncePerSegment, BatchesOf, ToProcess
<1>2. CASE StorePage \/ StoreCustomPart \/ StoreFallbackPart
  BY <1>t, <1>2, StepsStore, StoringKeepsOrder
<1>3. CASE SaveCount
  BY <1>t, <1>3, IdFacts DEF SaveCount, OrderInv, Behind, PageAhead, OncePerSegment, BatchesOf
<1>4. CASE FetchPage
  <2>k. segment \in Nat
    BY <1>t, StateFacts
  <2>1. OncePerSegment' /\ stage = "fetch" /\ batches' = batches
    BY <1>t, <1>4, FetchFacts DEF OncePerSegment, BatchesOf, FetchPage
  <2>2. CASE page' # {}
    <3>1. stage' = "store" /\ UNCHANGED <<segment, lastId>> /\ \A m \in page' : m < lastId
      BY <1>t, <1>4, <2>2, FetchFacts DEF Matching
    <3> QED
      BY <1>t, <2>1, <3>1, IdFacts DEF OrderInv, Behind, PageAhead
  <2>3. CASE segment' = segment + 1 /\ lastId' = EmailId /\ stage' = "fetch"
    <3>1. 1..segment \subseteq 1..segment' /\ segment' \notin 1..segment
      BY <2>k, <2>3
    <3>2. Behind'
      BY <1>t, <2>1, <2>3, <3>1, IdFacts DEF Behind
    <3>3. PageAhead'
      BY <1>t, <2>1, <2>3, <3>1 DEF PageAhead, Behind
    <3> QED
      BY <1>t, <2>1, <3>2, <3>3 DEF OrderInv
  <2>4. CASE stage' = "count" /\ UNCHANGED <<segment, lastId>>
    BY <1>t, <2>1, <2>4, IdFacts DEF OrderInv, Behind, PageAhead
  <2> QED
    BY <1>t, <1>4, <2>2, <2>3, <2>4, FetchFacts
<1> QED
  BY <1>1, <1>2, <1>3, <1>4 DEF Next, CreateStep, MemberChanges, vars

\* Who is stored stays so, and the rows that are stored now are added.
LEMMA StoredIn ==
  ASSUME TypeOK, NEW rows \in SUBSET Ids, NEW fallback, StoreBatch(rows, fallback)
  PROVE  \A m : (BatchesOf(m) # {} \/ m \in rows) => BatchesOf(m)' # {}
<1>1. DOMAIN batches = 1..Len(batches) /\ Len(batches) \in Nat
  BY StateFacts
<1>2. CASE rows = {} /\ batches' = batches
  BY <1>2 DEF BatchesOf
<1>3. CASE /\ DOMAIN batches' = 1..(Len(batches) + 1)
           /\ \A i \in 1..Len(batches) : batches'[i] = batches[i]
           /\ batches'[Len(batches) + 1] =
                [segment |-> segment, rows |-> rows, fallback |-> fallback]
  <2>1. \A i \in DOMAIN batches : i \in DOMAIN batches' /\ batches'[i] = batches[i]
    BY <1>1, <1>3
  <2>2. Len(batches) + 1 \in DOMAIN batches' /\ batches'[Len(batches) + 1].rows = rows
    BY <1>1, <1>3
  <2> QED
    BY <2>1, <2>2 DEF BatchesOf
<1> QED
  BY <1>2, <1>3, Stored

LEMMA StoringKeepsCover ==
  ASSUME OrderInv, CoverInv, NEW rows \in SUBSET Ids, NEW fallback, Storing(rows, fallback)
  PROVE  CoverInv'
<1>t. TypeOK /\ PageAhead /\ RowsMatch /\ PageMatches /\ Covered /\ PageComplete
  BY DEF OrderInv, CoverInv
<1>k. /\ segment \in Nat /\ segment \in 1..Len(segments) /\ Len(segments) \in Nat
      /\ lastId \in Nat /\ EmailId \in Nat /\ page \in SUBSET Ids
      /\ DOMAIN batches = 1..Len(batches) /\ Len(batches) \in Nat
      /\ \A m \in Ids : m \in Nat
  BY <1>t, StateFacts
<1>p. ToProcess \in SUBSET page /\ (Cardinality(page) <= BatchSize => ToProcess = page)
  BY <1>t, PageFacts
<1>1. /\ stage \in {"store", "rest"} /\ StoreBatch(rows, fallback) /\ rows \subseteq ToProcess
      /\ UNCHANGED <<group, segments, page, moved>>
  BY DEF Storing, StoreBatch
<1>2. RowsMatch'
  <2>1. CASE batches' = batches
    BY <1>t, <1>1, <2>1 DEF RowsMatch
  <2>2. CASE /\ DOMAIN batches' = 1..(Len(batches) + 1)
             /\ \A i \in 1..Len(batches) : batches'[i] = batches[i]
             /\ batches'[Len(batches) + 1] =
                  [segment |-> segment, rows |-> rows, fallback |-> fallback]
    <3> SUFFICES ASSUME NEW i \in DOMAIN batches', NEW m \in batches'[i].rows \ moved
                 PROVE  group[m] \in segments[batches'[i].segment]
      BY <1>1 DEF RowsMatch
    <3>1. CASE i \in DOMAIN batches
      BY <1>t, <1>k, <2>2, <3>1 DEF RowsMatch
    <3>2. CASE i = Len(batches) + 1
      <4>1. batches'[i].segment = segment /\ batches'[i].rows = rows
        BY <2>2, <3>2
      <4> QED
        BY <1>t, <1>1, <1>p, <4>1 DEF PageMatches
    <3> QED
      BY <1>k, <2>2, <3>1, <3>2
  <2> QED
    BY <1>t, <1>1, <2>1, <2>2, Stored
<1>3. \A m, c : Wanted(m, c)' <=> Wanted(m, c)
  BY <1>1 DEF Wanted
<1>4. \A m : (BatchesOf(m) # {} \/ m \in rows) => BatchesOf(m)' # {}
  BY <1>t, <1>1, StoredIn
<1>5. CASE stage = "store" /\ stage' = "rest" /\ UNCHANGED <<segment, lastId>>
  <2>1. PageMatches' /\ PageComplete'
    BY <1>t, <1>1, <1>3, <1>5 DEF PageMatches, PageComplete
  <2>2. \A m, c : Visited(m, c)' => Visited(m, c)
    BY <1>5 DEF Visited
  <2>3. Covered'
    BY <1>t, <1>1, <1>3, <1>4, <2>2 DEF Covered
  <2> QED
    BY <1>2, <2>1, <2>3 DEF CoverInv
<1>6. CASE Onward /\ \A m \in ToProcess : m \in rows \/ BatchesOf(m) # {}
  <2>1. stage' \in {"fetch", "count"}
    BY <1>6 DEF Onward
  <2>2. PageMatches' /\ PageComplete'
    BY <2>1 DEF PageMatches, PageComplete
  <2>3. ASSUME NEW c \in 1..Len(segments), NEW m \in Ids, Wanted(m, c), Visited(m, c)',
               ~Visited(m, c)
        PROVE  m \in ToProcess
    <3>0. /\ c \in Nat /\ c <= Len(segments) /\ m \in Nat /\ m < EmailId
          /\ ~ (c < segment) /\ ~ (c = segment /\ lastId <= m)
      BY <1>k, <2>3 DEF Wanted, Visited
    <3>1. CASE Cardinality(page) > BatchSize
      <4>1. lastId' \in ToProcess /\ segment' = segment /\ stage' = "fetch"
        BY <1>1, <1>6, <3>1 DEF Onward, ToProcess
      <4>2. c = segment /\ lastId' <= m /\ m < lastId
        BY <1>k, <2>3, <3>0, <4>1 DEF Visited
      <4>3. lastId' \in page /\ lastId' \in Nat
        BY <1>k, <1>p, <4>1
      <4>4. m \in page
        BY <1>t, <1>1, <2>3, <3>0, <4>2, <4>3 DEF PageComplete
      <4> QED
        BY <1>k, <4>1, <4>2, <4>4, NewestUp, IdFacts DEF ToProcess
    <3>2. CASE ~ (Cardinality(page) > BatchSize)
      <4>1. Cardinality(page) <= BatchSize
        BY <1>k, <3>2, IdFacts
      <4>2. c = segment /\ m < lastId
        <5>1. CASE segment' = segment + 1 /\ lastId' = EmailId /\ stage' = "fetch"
          BY <1>k, <2>3, <3>0, <5>1 DEF Visited
        <5>2. CASE ~ (segment < Len(segments))
          BY <1>k, <3>0, <5>2
        <5> QED
          BY <1>1, <1>6, <3>2, <5>1, <5>2 DEF Onward
      <4>3. m \in page
        BY <1>t, <1>1, <2>3, <3>2, <4>2 DEF PageComplete
      <4> QED
        BY <1>p, <4>1, <4>3
    <3> QED
      BY <3>1, <3>2
  <2>4. Covered'
    <3> SUFFICES ASSUME NEW c \in 1..Len(segments), NEW m \in Ids, Wanted(m, c), Visited(m, c)'
                 PROVE  BatchesOf(m)' # {}
      BY <1>1, <1>3 DEF Covered
    <3>1. CASE Visited(m, c)
      BY <1>t, <1>4, <3>1 DEF Covered
    <3>2. CASE ~Visited(m, c)
      BY <1>4, <1>6, <2>3, <3>2
    <3> QED
      BY <3>1, <3>2
  <2> QED
    BY <1>2, <2>2, <2>4 DEF CoverInv
<1> QED
  BY <1>5, <1>6 DEF Storing

LEMMA StepCover ==
  ASSUME OrderInv, CoverInv, [Next]_vars
  PROVE  CoverInv'
<1>t. TypeOK /\ RowsMatch /\ PageMatches /\ Covered /\ PageComplete
  BY DEF OrderInv, CoverInv
<1>1. CASE UNCHANGED <<group, segments, segment, lastId, page, stage, batches, moved>>
  BY <1>t, <1>1 DEF CoverInv, RowsMatch, PageMatches, Covered, PageComplete, Wanted, Visited,
     BatchesOf
<1>2. CASE StorePage \/ StoreCustomPart \/ StoreFallbackPart
  BY <1>2, StepsStore, StoringKeepsCover
<1>3. CASE SaveCount
  BY <1>t, <1>3 DEF SaveCount, CoverInv, RowsMatch, PageMatches, Covered, PageComplete, Wanted,
     Visited, BatchesOf
<1>4. ASSUME NEW n \in Ids, MemberChanges(n) PROVE CoverInv'
  <2>1. /\ moved' = moved \cup {n}
        /\ UNCHANGED <<segments, segment, lastId, page, stage, batches>>
    BY <1>4 DEF MemberChanges
  <2>2. \A m \in Ids : m \notin moved' => group'[m] = group[m]
    BY <1>t, <1>4, <2>1 DEF MemberChanges, TypeOK
  <2>3. \A m, c : Wanted(m, c)' => Wanted(m, c)
    BY <2>1, <2>2 DEF Wanted
  <2>4. \A i \in DOMAIN batches : batches[i].rows \in SUBSET Ids
    BY <1>t, StateFacts
  <2>5. RowsMatch'
    BY <1>t, <2>1, <2>2, <2>4 DEF RowsMatch
  <2>6. PageMatches' /\ PageComplete'
    BY <1>t, <2>1, <2>2, <2>3 DEF PageMatches, PageComplete, TypeOK
  <2>7. Covered'
    BY <1>t, <2>1, <2>3 DEF Covered, Visited, BatchesOf
  <2> QED
    BY <2>5, <2>6, <2>7 DEF CoverInv
<1>5. CASE FetchPage
  <2>k. /\ segment \in Nat /\ segment \in 1..Len(segments) /\ Len(segments) \in Nat
        /\ lastId \in Nat /\ EmailId \in Nat /\ \A m \in Ids : m \in Nat
    BY <1>t, StateFacts
  <2>1. /\ UNCHANGED <<group, segments, batches, moved>> /\ stage = "fetch"
        /\ page' \subseteq Matching
        /\ \A m \in Matching :
             m \in page' \/ (Cardinality(page') > BatchSize /\ \A n \in page' : m < n)
    BY <1>t, <1>5, FetchFacts DEF FetchPage
  <2>2. \A m, c : /\ Wanted(m, c)' <=> Wanted(m, c)
                  /\ BatchesOf(m)' = BatchesOf(m)
    BY <2>1 DEF Wanted, BatchesOf
  <2>3. RowsMatch'
    BY <1>t, <2>1 DEF RowsMatch
  <2>4. CASE page' # {}
    <3>1. stage' = "store" /\ UNCHANGED <<segment, lastId>>
      BY <1>t, <1>5, <2>4, FetchFacts
    <3>2. PageMatches'
      BY <2>1, <3>1 DEF PageMatches, Matching
    <3>3. PageComplete'
      BY <2>1, <2>2, <3>1 DEF PageComplete, Matching, Wanted
    <3>4. \A m, c : Visited(m, c)' => Visited(m, c)
      BY <2>1, <3>1 DEF Visited
    <3>5. Covered'
      BY <1>t, <2>1, <2>2, <3>4 DEF Covered
    <3> QED
      BY <2>3, <3>2, <3>3, <3>5 DEF CoverInv
  <2>5. CASE page' = {}
    <3>1. /\ Matching = {}
          /\ \/ segment' = segment + 1 /\ lastId' = EmailId /\ stage' = "fetch"
             \/ segment = Len(segments) /\ stage' = "count" /\ UNCHANGED <<segment, lastId>>
      BY <1>t, <1>5, <2>5, FetchFacts
    <3>2. PageMatches' /\ PageComplete'
      BY <3>1 DEF PageMatches, PageComplete
    <3>3. ASSUME NEW c \in 1..Len(segments), NEW m \in Ids, Wanted(m, c), Visited(m, c)'
          PROVE  Visited(m, c)
      <4>0. c \in Nat /\ c <= Len(segments) /\ m \in Nat /\ m < EmailId
        BY <2>k, <3>3 DEF Wanted
      <4>1. c <= segment
        BY <2>k, <3>1, <3>3, <4>0 DEF Visited
      <4>2. c = segment => lastId <= m
        <5>1. c = segment /\ m < lastId => m \in Matching
          BY <3>3 DEF Wanted, Matching
        <5> QED
          BY <2>k, <3>1, <4>0, <5>1
      <4> QED
        BY <2>k, <4>0, <4>1, <4>2 DEF Visited
    <3>4. Covered'
      BY <1>t, <2>1, <2>2, <3>3 DEF Covered
    <3> QED
      BY <2>3, <3>2, <3>4 DEF CoverInv
  <2> QED
    BY <2>4, <2>5
<1> QED
  BY <1>1, <1>2, <1>3, <1>4, <1>5 DEF Next, CreateStep, vars

LEMMA OneBatchOnly ==
  ASSUME OrderInv, CoverInv, NEW m \in Ids \ moved
  PROVE  /\ \A i, k \in BatchesOf(m) : i = k
         /\ BatchesOf(m) # {} => m < EmailId /\ group[m] # "none"
<1>t. TypeOK /\ Behind /\ OncePerSegment /\ RowsMatch /\ segments \in Segmentations
  BY DEF OrderInv, CoverInv, TypeOK
<1>k. segment \in 1..Len(segments) /\ Len(segments) \in Nat /\ segment \in Nat
  BY <1>t, StateFacts
<1>1. ASSUME NEW i \in BatchesOf(m)
      PROVE  /\ batches[i].segment \in 1..Len(segments)
             /\ group[m] \in segments[batches[i].segment] /\ m < EmailId
  <2>1. i \in DOMAIN batches /\ m \in batches[i].rows \ moved
    BY DEF BatchesOf
  <2>2. batches[i].segment \in 1..segment /\ m < EmailId
    BY <1>t, <2>1 DEF Behind
  <2>3. group[m] \in segments[batches[i].segment]
    BY <1>t, <2>1 DEF RowsMatch
  <2> QED
    BY <1>k, <2>2, <2>3
<1>2. ASSUME NEW i \in BatchesOf(m), NEW k \in BatchesOf(m) PROVE i = k
  <2>1. batches[i].segment = batches[k].segment
    BY <1>t, <1>1, SegmentFacts
  <2> QED
    BY <1>t, <2>1 DEF OncePerSegment
<1>3. ASSUME NEW i \in BatchesOf(m) PROVE group[m] # "none"
  <2>1. group[m] \in Audience
    BY <1>t, <1>1, SegmentFacts
  <2> QED
    BY <2>1 DEF Audience
<1> QED
  BY <1>1, <1>2, <1>3

LEMMA OnceAtEnd ==
  ASSUME OrderInv, CoverInv
  PROVE  OnceIfUnmoved
<1> SUFFICES ASSUME stage = "done", NEW m \in Ids \ moved
             PROVE  Cardinality(BatchesOf(m)) =
                      IF m < EmailId /\ group[m] # "none" THEN 1 ELSE 0
  BY DEF OnceIfUnmoved
<1>1. CASE m < EmailId /\ group[m] # "none"
  <2>1. TypeOK /\ segments \in Segmentations /\ group[m] \in Audience
    BY <1>1 DEF OrderInv, TypeOK, Groups
  <2>2. PICK c \in 1..Len(segments) : group[m] \in segments[c]
    BY <2>1, SegmentFacts
  <2>3. BatchesOf(m) # {}
    BY <1>1, <2>2 DEF CoverInv, Covered, Wanted, Visited
  <2>4. PICK i : BatchesOf(m) = {i}
    <3>1. PICK k \in BatchesOf(m) : TRUE
      BY <2>3
    <3>2. BatchesOf(m) = {k}
      BY <3>1, OneBatchOnly
    <3> QED
      BY <3>2
  <2> QED
    BY <1>1, <2>4, FS_Singleton
<1>2. CASE ~ (m < EmailId /\ group[m] # "none")
  <2>1. BatchesOf(m) = {}
    BY <1>2, OneBatchOnly
  <2> QED
    BY <1>2, <2>1, FS_EmptySet
<1> QED
  BY <1>1, <1>2

\* No member is in two batches of one segment, whatever moves meanwhile.
THEOREM OnceInASegment == Spec => []OncePerSegment
<1>1. OrderInv => OncePerSegment
  BY DEF OrderInv
<1> QED
  BY <1>1, InitOnce, StepOrder, PTL DEF Spec

\* Whoever keeps still while the batches are created is in exactly one, if a
\* recipient, and otherwise in none: the pages neither overlap nor skip.
THEOREM OnceWhoKeepsStill == Spec => []OnceIfUnmoved
<1>1. Init => OrderInv /\ CoverInv
  BY InitOnce
<1>2. OrderInv /\ CoverInv /\ [Next]_vars => (OrderInv /\ CoverInv)'
  BY StepOrder, StepCover
<1>3. OrderInv /\ CoverInv => OnceIfUnmoved
  BY OnceAtEnd
<1> QED
  BY <1>1, <1>2, <1>3, PTL DEF Spec

-----------------------------------------------------------------------------
(* What is counted: the warm-up volume and the totals that are left.       *)

LEMMA DisjointSum ==
  ASSUME NEW S, IsFiniteSet(S), NEW T, IsFiniteSet(T), S \cap T = {}
  PROVE  Cardinality(S \cup T) = Cardinality(S) + Cardinality(T)
<1>1. /\ Cardinality(S \cup T) = Cardinality(S) + Cardinality(T) - Cardinality(S \cap T)
      /\ Cardinality(S) \in Nat /\ Cardinality(T) \in Nat
  BY FS_Union, FS_CardinalityType
<1>2. Cardinality(S \cap T) = 0
  BY FS_EmptySet
<1> QED
  BY <1>1, <1>2

LEMMA RowsFinite ==
  ASSUME TypeOK, NEW b
  PROVE  /\ IsFiniteSet(Rows(b)) /\ Cardinality(Rows(b)) \in Nat
         /\ Cardinality(Rows(b)) = 0 <=> Rows(b) = {}
<1>1. DOMAIN batches = 1..Len(batches) /\ Len(batches) \in Nat
  BY StateFacts
<1>2. IsFiniteSet(DOMAIN batches)
  BY <1>1, FS_Interval
<1>3. IsFiniteSet((DOMAIN batches) \X Ids)
  BY <1>2, IdFacts, FS_Product
<1>4. Rows(b) \subseteq (DOMAIN batches) \X Ids
  BY DEF Rows
<1>5. IsFiniteSet(Rows(b))
  BY <1>3, <1>4, FS_Subset
<1> QED
  BY <1>5, FS_CardinalityType, FS_EmptySet

\* Both kinds of rows together.
LEMMA RowsTogether ==
  ASSUME TypeOK
  PROVE  Cardinality(Rows(TRUE) \cup Rows(FALSE))
           = Cardinality(Rows(TRUE)) + Cardinality(Rows(FALSE))
<1>1. Rows(TRUE) \cap Rows(FALSE) = {}
  BY DEF Rows
<1> QED
  BY <1>1, RowsFinite, DisjointSum

\* A stored batch adds its rows to those of its kind.
LEMMA RowsGrow ==
  ASSUME TypeOK, NEW rows \in SUBSET Ids, NEW fallback \in BOOLEAN, StoreBatch(rows, fallback)
  PROVE  /\ Cardinality(Rows(fallback)') = Cardinality(Rows(fallback)) + Cardinality(rows)
         /\ \A b \in BOOLEAN : b # fallback => Rows(b)' = Rows(b)
<1> DEFINE n == Len(batches) + 1
           added == {n} \X rows
<1>1. DOMAIN batches = 1..Len(batches) /\ Len(batches) \in Nat
      /\ IsFiniteSet(rows) /\ Cardinality(rows) \in Nat
  BY StateFacts, IdFacts
<1>2. CASE rows = {} /\ batches' = batches
  <2>1. \A b : Rows(b)' = Rows(b)
    BY <1>2 DEF Rows
  <2>2. Cardinality(rows) = 0
    BY <1>2, FS_EmptySet
  <2>3. Cardinality(Rows(fallback)') = Cardinality(Rows(fallback))
    BY <2>1
  <2>4. Cardinality(Rows(fallback)) \in Nat
    BY RowsFinite
  <2> QED
    BY <2>1, <2>2, <2>3, <2>4
<1>3. CASE /\ DOMAIN batches' = 1..n
           /\ \A i \in 1..Len(batches) : batches'[i] = batches[i]
           /\ batches'[n] = [segment |-> segment, rows |-> rows, fallback |-> fallback]
  <2>1. /\ DOMAIN batches' = DOMAIN batches \cup {n} /\ n \notin DOMAIN batches
        /\ \A i \in DOMAIN batches : batches'[i] = batches[i]
        /\ batches'[n].fallback = fallback /\ batches'[n].rows = rows
    BY <1>1, <1>3
  <2>2. ASSUME NEW b \in BOOLEAN, b # fallback PROVE Rows(b)' = Rows(b)
    BY <2>1, <2>2 DEF Rows
  <2>3. Rows(fallback)' = Rows(fallback) \cup added /\ Rows(fallback) \cap added = {}
    <3> HIDE DEF n
    <3>1. \A x \in Rows(fallback)' : x \in Rows(fallback) \cup added
      BY <2>1 DEF Rows
    <3>2. \A x \in Rows(fallback) \cup added : x \in Rows(fallback)'
      BY <2>1 DEF Rows
    <3>3. Rows(fallback) \cap added = {}
      BY <2>1 DEF Rows
    <3> QED
      BY <3>1, <3>2, <3>3
  <2>4. IsFiniteSet(added) /\ Cardinality(added) = Cardinality(rows)
    <3>1. IsFiniteSet({n}) /\ Cardinality({n}) = 1
      BY FS_Singleton
    <3>2. IsFiniteSet(added) /\ Cardinality(added) = Cardinality({n}) * Cardinality(rows)
      BY <1>1, <3>1, FS_Product
    <3>3. Cardinality(added) = 1 * Cardinality(rows)
      BY <3>1, <3>2
    <3> QED
      BY <1>1, <3>2, <3>3
  <2>5. Cardinality(Rows(fallback) \cup added) = Cardinality(Rows(fallback)) + Cardinality(added)
    BY <2>3, <2>4, RowsFinite, DisjointSum
  <2> QED
    BY <2>2, <2>3, <2>4, <2>5
<1> QED
  BY <1>2, <1>3, Stored

-----------------------------------------------------------------------------
Custom == Cardinality(Rows(FALSE))
Fallback == Cardinality(Rows(TRUE))

\* The total is that of the rows, the custom domain is used first, and while
\* batches are created the volume taken by createEmail stands.
Counted ==
  /\ totalCount = Custom + Fallback
  /\ Custom <= limit
  /\ Fallback > 0 => Custom = limit
  /\ stage = "rest" => totalCount = limit

Saved ==
  /\ stage # "done" /\ warming => csdCount = limit /\ limit <= emailCount
  /\ stage = "done" => /\ emailCount = totalCount
                       /\ warming => csdCount = Custom

CountInv == TypeOK /\ Counted /\ Saved

LEMMA InitCounts == Init => CountInv
<1> SUFFICES ASSUME Init PROVE CountInv
  OBVIOUS
<1>1. TypeOK
  BY InitTypes
<1>2. Custom = 0 /\ Fallback = 0
  <2>1. \A b : Rows(b) = {}
    BY DEF Init, Rows
  <2> QED
    BY <2>1, FS_EmptySet DEF Custom, Fallback
<1>3. totalCount = 0 /\ stage = "fetch" /\ limit \in Nat /\ emailCount \in Nat
  BY <1>1 DEF Init, TypeOK
<1>4. warming => csdCount = limit /\ limit <= emailCount
  BY <1>3 DEF Init
<1> QED
  BY <1>1, <1>2, <1>3, <1>4 DEF CountInv, Counted, Saved

LEMMA StepCounts ==
  ASSUME CountInv, [Next]_vars
  PROVE  CountInv'
<1>t. TypeOK /\ Counted /\ Saved /\ TypeOK'
  BY StepTypes DEF CountInv
<1>k. /\ Custom \in Nat /\ Fallback \in Nat
      /\ totalCount \in Nat /\ limit \in Nat /\ emailCount \in Nat /\ csdCount \in Nat
  BY <1>t, RowsFinite DEF TypeOK, Custom, Fallback
<1>1. CASE UNCHANGED <<batches, totalCount, stage, limit, emailCount, csdCount, warming>>
  BY <1>t, <1>1 DEF CountInv, Counted, Saved, Custom, Fallback, Rows
<1>2. CASE FetchPage
  <2>1. UNCHANGED <<batches, totalCount, limit, emailCount, csdCount, warming>>
        /\ stage = "fetch"
    BY <1>2 DEF FetchPage
  <2>2. stage' \in {"fetch", "store", "count"}
    BY <1>2, <1>t, FetchFacts
  <2> QED
    BY <1>t, <2>1, <2>2 DEF CountInv, Counted, Saved, Custom, Fallback, Rows
<1>3. ASSUME NEW rows \in SUBSET Ids, NEW fallback \in BOOLEAN, StoreBatch(rows, fallback),
             stage # "done", stage' # "done",
             fallback => totalCount >= limit,
             ~fallback => totalCount + Cardinality(rows) <= limit,
             stage' = "rest" => totalCount + Cardinality(rows) = limit
      PROVE  CountInv'
  <2>1. /\ totalCount' = totalCount + Cardinality(rows)
        /\ UNCHANGED <<limit, emailCount, csdCount, warming>>
        /\ Cardinality(rows) \in Nat
    BY <1>3, IdFacts DEF StoreBatch
  <2>2. CASE fallback = TRUE
    <3>1. Fallback' = Fallback + Cardinality(rows) /\ Custom' = Custom
      BY <1>3, <1>t, <2>2, RowsGrow DEF Fallback, Custom
    <3>2. Custom = limit
      BY <1>3, <1>k, <1>t, <2>2 DEF Counted
    <3> QED
      BY <1>3, <1>k, <1>t, <2>1, <3>1, <3>2 DEF CountInv, Counted, Saved
  <2>3. CASE fallback = FALSE
    <3>1. Custom' = Custom + Cardinality(rows) /\ Fallback' = Fallback
      BY <1>3, <1>t, <2>3, RowsGrow DEF Fallback, Custom
    <3>2. totalCount + Cardinality(rows) <= limit
      BY <1>3, <2>3
    <3>3. Fallback > 0 => Cardinality(rows) = 0
      BY <1>k, <1>t, <2>1, <3>2 DEF Counted
    <3>4. Counted'
      BY <1>3, <1>k, <1>t, <2>1, <3>1, <3>2, <3>3 DEF Counted
    <3> QED
      BY <1>3, <1>t, <2>1, <3>4 DEF CountInv, Saved
  <2> QED
    BY <2>2, <2>3
<1>s. Onward => stage' \in {"fetch", "count"}
  BY DEF Onward
<1>4. CASE StorePage
  <2> DEFINE past == totalCount >= limit
  <2>1. stage = "store" /\ ~ShouldSplit /\ StoreBatch(ToProcess, past) /\ Onward
    BY <1>4 DEF StorePage
  <2>2. ToProcess \in SUBSET Ids /\ Cardinality(ToProcess) \in Nat
    BY <1>t, PageFacts, IdFacts
  <2>3. ~past => totalCount + Cardinality(ToProcess) <= limit
    BY <1>k, <2>1, <2>2 DEF ShouldSplit, Capacity
  <2>4. past \in BOOLEAN
    OBVIOUS
  <2> QED
    BY <1>3, <1>s, <2>1, <2>2, <2>3, <2>4
<1>5. CASE StoreCustomPart
  <2>1. stage = "store" /\ ShouldSplit /\ StoreBatch(Newest(page, Capacity), FALSE)
        /\ stage' = "rest"
    BY <1>5 DEF StoreCustomPart
  <2>2. /\ Newest(page, Capacity) \in SUBSET Ids
        /\ totalCount + Cardinality(Newest(page, Capacity)) = limit
    BY <1>t, <2>1, CustomFacts
  <2>3. totalCount + Cardinality(Newest(page, Capacity)) <= limit
    BY <1>k, <2>2
  <2> QED
    BY <1>3, <2>1, <2>2, <2>3
<1>6. CASE StoreFallbackPart
  <2> DEFINE rest == ToProcess \ batches[Len(batches)].rows
  <2>1. stage = "rest" /\ StoreBatch(rest, TRUE) /\ Onward
    BY <1>6 DEF StoreFallbackPart
  <2>2. rest \in SUBSET Ids /\ totalCount >= limit
    BY <1>k, <1>t, <2>1, RestFacts DEF Counted
  <2> QED
    BY <1>3, <1>s, <2>1, <2>2
<1>7. CASE SaveCount
  <2>1. /\ UNCHANGED <<batches, totalCount, warming, limit>>
        /\ stage = "count" /\ stage' = "done"
        /\ IF emailCount # totalCount
           THEN /\ emailCount' = totalCount
                /\ csdCount' = IF warming THEN Lesser(totalCount, limit) ELSE csdCount
           ELSE UNCHANGED <<emailCount, csdCount>>
    BY <1>7 DEF SaveCount
  <2>2. Custom' = Custom /\ Fallback' = Fallback
    BY <2>1 DEF Custom, Fallback, Rows
  <2>3. Lesser(totalCount, limit) = Custom
    BY <1>k, <1>t DEF Counted, Lesser
  <2>4. emailCount = totalCount /\ warming => csdCount = Custom
    BY <1>k, <1>t, <2>1 DEF Counted, Saved
  <2>5. Saved'
    BY <1>k, <2>1, <2>2, <2>3, <2>4 DEF Saved
  <2>6. Counted'
    BY <1>t, <2>1, <2>2 DEF Counted
  <2> QED
    BY <1>t, <2>5, <2>6 DEF CountInv
<1> QED
  BY <1>1, <1>2, <1>4, <1>5, <1>6, <1>7 DEF Next, CreateStep, MemberChanges, vars

LEMMA CountsTell == CountInv => WarmupVolumeKept /\ CountsAgree
<1> SUFFICES ASSUME CountInv PROVE WarmupVolumeKept /\ CountsAgree
  OBVIOUS
<1>t. TypeOK /\ Counted /\ Saved
  BY DEF CountInv
<1>k. /\ Custom \in Nat /\ Fallback \in Nat /\ Custom = Cardinality(Rows(FALSE))
      /\ Fallback = Cardinality(Rows(TRUE)) /\ (Fallback = 0 <=> Rows(TRUE) = {})
  BY <1>t, RowsFinite DEF Custom, Fallback
<1>n. Custom \in Nat /\ Fallback \in Nat /\ totalCount = Custom + Fallback
  BY <1>t, <1>k DEF Counted
<1>0. Rows(TRUE) # {} => Fallback > 0
  <2>1. Fallback # 0 => Fallback > 0
    BY <1>n
  <2> QED
    BY <1>k, <2>1, Zenon
<1>1. WarmupVolumeKept
  BY <1>t, <1>k, <1>0 DEF WarmupVolumeKept, Counted
<1>2. Cardinality(Rows(TRUE) \cup Rows(FALSE)) = Fallback + Custom
  BY <1>t, <1>k, RowsTogether
<1>3. totalCount = Cardinality(Rows(TRUE) \cup Rows(FALSE))
  BY <1>n, <1>2
<1>4. CountsAgree
  BY <1>t, <1>k, <1>3 DEF CountsAgree, Saved
<1> QED
  BY <1>1, <1>4

\* The custom domain carries the warm-up volume to the last member, and no
\* more, wherever the limit falls in a page.
THEOREM VolumeKept == Spec => []WarmupVolumeKept
BY InitCounts, StepCounts, CountsTell, PTL DEF Spec

\* The counts left on the email are those of its batches.
THEOREM CountsTrue == Spec => []CountsAgree
BY InitCounts, StepCounts, CountsTell, PTL DEF Spec

=============================================================================
