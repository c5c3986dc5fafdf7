--------------------------- MODULE BatchCreation ---------------------------
(***************************************************************************)
(* One run of BatchSendingService#createBatches: for each segment of the   *)
(* post, page through the members by falling id, BatchSize at a time (one  *)
(* more row is fetched to learn whether a page follows), and store each    *)
(* page as a batch row with its recipients.  While a sending domain is     *)
(* being warmed up only the first `limit` members go out over the custom   *)
(* domain; the page in which the limit falls is split in two batches.      *)
(*                                                                         *)
(* Every query and every transaction is a step of its own, and members     *)
(* subscribe, leave, upgrade and downgrade between them.  Errors of those  *)
(* steps end the run with the batches stored so far: NewsletterSend covers *)
(* what follows from that.                                                 *)
(***************************************************************************)
EXTENDS Integers, Sequences, FiniteSets

CONSTANTS
  Ids,            \* member ids that may exist, older and newer than the email
  EmailId,        \* the email's own object id: ids grow with creation time
  BatchSize,      \* getMaximumRecipients
  Segmentations,  \* lists of segments getSegments may return
  MaxChanges      \* bound: membership changes while the run lasts

\* Recipients: free members, paying ones on a tier that may read the post, other
\* paying ones.  "none": not (or no longer) a recipient of this email.
Audience == {"free", "tier", "paid"}
Groups == Audience \cup {"none"}

ASSUME CreationAssumption ==
  /\ Ids \subseteq Nat /\ IsFiniteSet(Ids)
  /\ EmailId \in Nat \ Ids
  /\ BatchSize \in Nat \ {0}
  /\ MaxChanges \in Nat
  \* getSegments: "the sum of all segments should always include all members"
  /\ \A s \in Segmentations :
       /\ s \in Seq(SUBSET Audience)
       /\ \A i, k \in 1..Len(s) : i # k => s[i] \cap s[k] = {}
       /\ UNION {s[i] : i \in 1..Len(s)} = Audience

VARIABLES
  group,       \* what the member table says of each member
  segments,    \* the segments of this post
  segment,     \* which of them is being paged through
  lastId,      \* only members with a smaller id are fetched
  page,        \* the rows of the last query
  stage,       \* "fetch", "store", "rest" (of a split page), "count" or "done"
  totalCount,
  batches,     \* the batches stored so far
  emailCount,  \* emails.email_count
  csdCount,    \* emails.csd_email_count, as createEmail left it or as updated
  warming,     \* whether a fallback domain is configured
  limit,       \* domainWarmupLimit
  moved,       \* history: the members whose group changed during the run
  changes      \* how many changes there were

vars == <<group, segments, segment, lastId, page, stage, totalCount, batches,
          emailCount, csdCount, warming, limit, moved, changes>>

\* The k members of S with the largest ids: rows.slice(0, k) of an id-DESC query.
Newest(S, k) == {m \in S : Cardinality({n \in S : n > m}) < k}

\* Infinity, as far as any count here can tell.
Unlimited == Cardinality(Ids) + 1

Lesser(a, b) == IF a <= b THEN a ELSE b

\* No batch is larger than the provider takes, which getBatchMembers would
\* reject for good, and none is empty.
Batches == [segment : Nat, fallback : BOOLEAN,
            rows : {s \in SUBSET Ids : Cardinality(s) \in 1..BatchSize}]

\* Types, and the size of the batches.
TypeOK ==
  /\ group \in [Ids -> Groups]
  /\ segments \in Segmentations
  /\ segment \in 1..Len(segments)
  /\ lastId \in Ids \cup {EmailId}
  /\ page \in SUBSET Ids
  /\ stage \in {"fetch", "store", "rest", "count", "done"}
  /\ totalCount \in Nat
  /\ batches \in Seq(Batches)
  /\ emailCount \in Nat /\ csdCount \in Nat /\ limit \in Nat
  /\ warming \in BOOLEAN
  /\ moved \in SUBSET Ids
  /\ changes \in Nat

\* createEmail counted the members and took the day's warm-up volume, at most
\* that count; a few members may have come or gone since.
Init ==
  /\ group \in [Ids -> Groups]
  /\ \A m \in Ids : m > EmailId => group[m] = "none"
  /\ segments \in Segmentations
  /\ segment = 1
  /\ lastId = EmailId
  /\ page = {}
  /\ stage = "fetch"
  /\ totalCount = 0
  /\ batches = <<>>
  /\ LET now == Cardinality({m \in Ids : group[m] # "none"})
     IN  emailCount \in {n \in (now - MaxChanges)..(now + MaxChanges) : n >= 0}
  /\ warming \in BOOLEAN
  /\ csdCount \in IF warming THEN 0..emailCount ELSE {0}
  /\ limit = IF warming THEN csdCount ELSE Unlimited
  /\ moved = {}
  /\ changes = 0

-----------------------------------------------------------------------------
\* Mutant of Onward: the next page starts below the extra row instead of the
\* last one stored.
OnwardFromExtraRow ==
  IF Cardinality(page') > BatchSize
  THEN /\ lastId' \in page' /\ \A m \in page' : lastId' <= m
       /\ stage' = "fetch"
       /\ UNCHANGED segment
  ELSE /\ stage' = IF segment < Len(segments) THEN "fetch" ELSE "count"
       /\ segment' = IF segment < Len(segments) THEN segment + 1 ELSE segment
       /\ lastId' = EmailId

\* Where the loop goes from the current page: to the next page, to the next
\* segment, or out.  The last row of a full page was fetched only to learn
\* that there is a next one.
Onward ==
  IF Cardinality(page') > BatchSize
  THEN /\ lastId' \in Newest(page', BatchSize)
       /\ \A m \in Newest(page', BatchSize) : lastId' <= m
       /\ stage' = "fetch"
       /\ UNCHANGED segment
  ELSE IF segment < Len(segments)
  THEN /\ segment' = segment + 1
       /\ lastId' = EmailId
       /\ stage' = "fetch"
  ELSE /\ stage' = "count"
       /\ UNCHANGED <<segment, lastId>>

\* Mutant of Matching: the last member of a page is fetched again.
MatchingFromLastId ==
  {m \in Ids : m <= lastId /\ group[m] \in segments[segment]}

\* getFilteredCollectionQuery: the segment's members below lastId, newest first.
Matching == {m \in Ids : m < lastId /\ group[m] \in segments[segment]}

\* Mutant of FetchPage: without the `break` an empty page is fetched again.
FetchPageUntilRows ==
  /\ stage = "fetch"
  /\ page' = Newest(Matching, BatchSize + 1)
  /\ stage' = IF page' = {} THEN "fetch" ELSE "store"
  /\ UNCHANGED <<group, segments, segment, lastId, totalCount, batches,
                 emailCount, csdCount, warming, limit, moved, changes>>

FetchPage ==
  /\ stage = "fetch"
  /\ page' = Newest(Matching, BatchSize + 1)
  /\ IF page' = {}
     THEN Onward
     ELSE stage' = "store" /\ UNCHANGED <<segment, lastId>>
  /\ UNCHANGED <<group, segments, totalCount, batches, emailCount, csdCount,
                 warming, limit, moved, changes>>

\* #createBatchWithRetry and createBatch: one transaction stores the batch row and
\* its recipients; no member makes no batch.
StoreBatch(rows, fallback) ==
  /\ batches' = IF rows = {} THEN batches
                ELSE Append(batches, [segment |-> segment, rows |-> rows,
                                      fallback |-> fallback])
  /\ totalCount' = totalCount + Cardinality(rows)
  /\ UNCHANGED <<group, segments, page, emailCount, csdCount, warming, limit,
                 moved, changes>>

\* Mutant of ToProcess: the extra row is stored too.
ToProcessAll == page

ToProcess == Newest(page, BatchSize)      \* membersToProcess of them
Capacity == limit - totalCount            \* remainingCustomDomainCapacity
ShouldSplit == Capacity > 0 /\ Capacity < Cardinality(ToProcess)

\* Mutant of StorePage: a page that starts right at the limit still goes out
\* over the custom domain.
StorePagePastLimit ==
  /\ stage = "store"
  /\ ~ShouldSplit
  /\ StoreBatch(ToProcess, totalCount > limit)
  /\ Onward

StorePage ==
  /\ stage = "store"
  /\ ~ShouldSplit
  /\ StoreBatch(ToProcess, totalCount >= limit)
  /\ Onward

\* The page in which the limit falls: first the part below it ...
StoreCustomPart ==
  /\ stage = "store"
  /\ ShouldSplit
  /\ StoreBatch(Newest(page, Capacity), FALSE)
  /\ stage' = "rest"
  /\ UNCHANGED <<segment, lastId>>

\* ... then the rest, over the fallback domain.
StoreFallbackPart ==
  /\ stage = "rest"
  /\ LET last == batches[Len(batches)]
     IN  StoreBatch(ToProcess \ last.rows, TRUE)
  /\ Onward

\* Mutant of SaveCount: the warm-up count is left as createEmail had it.
SaveCountOnly ==
  /\ stage = "count"
  /\ stage' = "done"
  /\ emailCount' = totalCount
  /\ UNCHANGED <<group, segments, segment, lastId, page, totalCount, batches,
                 csdCount, warming, limit, moved, changes>>

\* The stored counts are corrected if the email was counted differently.
SaveCount ==
  /\ stage = "count"
  /\ stage' = "done"
  /\ IF emailCount # totalCount
     THEN /\ emailCount' = totalCount
          /\ csdCount' = IF warming THEN Lesser(totalCount, limit) ELSE csdCount
     ELSE UNCHANGED <<emailCount, csdCount>>
  /\ UNCHANGED <<group, segments, segment, lastId, page, totalCount, batches,
                 warming, limit, moved, changes>>

\* A member signs up, leaves, upgrades or downgrades.
MemberChanges(m) ==
  /\ stage # "done"
  /\ changes < MaxChanges
  /\ \E g \in Groups \ {group[m]} : group' = [group EXCEPT ![m] = g]
  /\ moved' = moved \cup {m}
  /\ changes' = changes + 1
  /\ UNCHANGED <<segments, segment, lastId, page, stage, totalCount, batches,
                 emailCount, csdCount, warming, limit>>

CreateStep ==
  FetchPage \/ StorePage \/ StoreCustomPart \/ StoreFallbackPart \/ SaveCount

Next == CreateStep \/ \E m \in Ids : MemberChanges(m)

Spec == Init /\ [][Next]_vars

FairSpec == Spec /\ WF_vars(CreateStep)

-----------------------------------------------------------------------------
\* The batches member m is a recipient of.
BatchesOf(m) == {i \in DOMAIN batches : m \in batches[i].rows}

\* Whoever keeps still while the batches are created is in exactly one of them,
\* if older than the email and among its recipients, and otherwise in none: no
\* page overlaps or skips another, at page, segment and split boundaries
\* (lastId, BATCH_SIZE + 1, slice).
OnceIfUnmoved ==
  stage = "done" =>
    \A m \in Ids \ moved :
      Cardinality(BatchesOf(m)) =
        IF m < EmailId /\ group[m] # "none" THEN 1 ELSE 0

\* Even a member that moves between segments gets an email at most once per
\* segment, and each in the version of that segment.
OncePerSegment ==
  \A m \in Ids : \A i, k \in BatchesOf(m) :
    batches[i].segment = batches[k].segment => i = k

Rows(fallback) ==
  {x \in (DOMAIN batches) \X Ids :
     batches[x[1]].fallback = fallback /\ x[2] \in batches[x[1]].rows}

\* The custom domain carries the day's warm-up volume to the last member, and
\* no more: the fallback domain is used only once the volume is used up.
WarmupVolumeKept ==
  /\ Cardinality(Rows(FALSE)) <= limit
  /\ Rows(TRUE) # {} => Cardinality(Rows(FALSE)) = limit

\* The counts left on the email row, which the admin shows and later warm-up
\* decisions rest on, are what the batches hold.
CountsAgree ==
  stage = "done" =>
    /\ emailCount = Cardinality(Rows(TRUE) \cup Rows(FALSE))
    /\ warming => csdCount = Cardinality(Rows(FALSE))

\* Creation ends, however members come and go: newer members are out of reach
\* and every page starts below the one before.
CreationEnds == <>(stage = "done")

=============================================================================
