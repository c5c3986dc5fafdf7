---------------------------- MODULE GiftLifecycle ----------------------------
(***************************************************************************)
(* Gift subscriptions, as services/gifts keeps them: a gift is bought in   *)
(* Stripe, redeemed by a member, and ends consumed, expired or refunded.   *)
(* While it is redeemed its member has the status "gift" and the product   *)
(* of its tier, which expires with the gift.                               *)
(*                                                                         *)
(* Requests, webhooks and daily jobs run at the same time.  Most of them   *)
(* lock the rows they read (SELECT ... FOR UPDATE), some the member first  *)
(* and some the gift first; refund and the activation event read without a *)
(* lock.  A transaction writes when it commits, so a handler that is       *)
(* aborted has changed nothing since its last commit.                      *)
(*                                                                         *)
(* A member is changed by others as well: webhooks of paid subscriptions,  *)
(* the job that sweeps expired products, deletion.                         *)
(***************************************************************************)
EXTENDS Naturals, FiniteSets

CONSTANTS
  Procs,       \* requests, webhooks and jobs that may be under way at once
  Gifts,       \* gifts that may be bought, each with its checkout session
  NoGift,      \* of a product: without expiry
  Members,
  NoMember,
  Tiers,
  TierOf,      \* the tier a gift gives
  Reminding,   \* gifts whose last week the reminder job does not miss
  PlanTier,    \* the tier of paid subscriptions
  MaxPlans,    \* bound: paid subscriptions started
  MaxDeletes   \* bound: members deleted

ASSUME GiftAssumption ==
  /\ NoGift \notin Gifts
  /\ NoMember \notin Members
  /\ TierOf \in [Gifts -> Tiers]
  /\ PlanTier \in Tiers
  /\ Reminding \subseteq Gifts
  /\ MaxPlans \in Nat /\ MaxDeletes \in Nat

VARIABLES
  row,        \* table gifts
  member,     \* members, members_products and the subscription of each
  clock,      \* where now stands between the dates of a gift
  job,        \* what each handler is doing
  activated,  \* members whose SubscriptionActivatedEvent is not handled yet
  mails,      \* confirmations and reminders sent, per gift
  stray,      \* history: members a step has acted on without looking
  bounds      \* subscriptions and deletions so far

vars == <<row, member, clock, job, activated, mails, stray, bounds>>

-----------------------------------------------------------------------------
Statuses == {"none", "purchased", "redeemed", "consumed", "expired", "refunded"}
\* redeemed_at, consumed_at, expired_at, refunded_at and the date of the reminder
Marks == {"redeemed", "consumed", "expired", "refunded", "reminded"}
Rows == [status : Statuses, redeemer : Members \cup {NoMember},
         marks : SUBSET Marks]
Absent == [status |-> "none", redeemer |-> NoMember, marks |-> {}]
Bought == [Absent EXCEPT !.status = "purchased"]

Products == SUBSET (Tiers \X (Gifts \cup {NoGift}))
Accounts == [status : {"absent", "free", "paid", "comped", "gift"},
             products : Products, plan : {"none", "active", "ended"}]
NoAccount == [status |-> "absent", products |-> {}, plan |-> "none"]
FreeAccount == [NoAccount EXCEPT !.status = "free"]

TierSet(products) == {pr[1] : pr \in products}

Idle == [op |-> "idle", at |-> "start", gift |-> NoGift, member |-> NoMember,
         seen |-> Absent, who |-> NoAccount, todo |-> {}, taken |-> FALSE]

Ops == {"idle", "purchase", "redeem", "signup", "reassign", "refund",
        "consume", "clean", "expire", "remind"}
Places == {"start", "next", "member", "gift", "snapshot", "write", "send"}
Jobs == [op : Ops, at : Places, gift : Gifts \cup {NoGift},
         member : Members \cup {NoMember}, seen : Rows, who : Accounts,
         todo : SUBSET Gifts, taken : BOOLEAN]

\* Dates and status of a row tell the same story, whatever the row has been
\* through.
Consistent(r) ==
  /\ r.status \in {"none", "purchased"} => r.marks = {} /\ r.redeemer = NoMember
  /\ \A s \in {"redeemed", "consumed", "expired", "refunded"} :
       r.status = s => s \in r.marks
  /\ "refunded" \in r.marks => r.status = "refunded"
  /\ "consumed" \in r.marks => r.status \in {"consumed", "refunded"} /\ "redeemed" \in r.marks
  /\ "expired" \in r.marks => r.status \in {"expired", "refunded"} /\ "redeemed" \notin r.marks
  /\ r.redeemer # NoMember => "redeemed" \in r.marks

\* Types, and that no step leaves a row half written (gift.ts builds each
\* new row from one it has read, perhaps long ago).
TypeOK ==
  /\ row \in [Gifts -> Rows] /\ \A g \in Gifts : Consistent(row[g])
  /\ member \in [Members -> Accounts]
  /\ clock \in [Gifts -> {"early", "soon", "over"}]
  /\ job \in [Procs -> Jobs]
  /\ activated \subseteq Members
  /\ mails \in [Gifts -> [confirmed : Nat, reminded : Nat]]
  /\ stray \subseteq Members
  /\ bounds \in [plans : 0..MaxPlans, deletes : 0..MaxDeletes]

\* No gift is bought yet; some of the members have joined.
Init ==
  /\ row = [g \in Gifts |-> Absent]
  /\ member \in [Members -> {NoAccount, FreeAccount}]
  /\ clock = [g \in Gifts |-> "early"]
  /\ job = [p \in Procs |-> Idle]
  /\ activated = {}
  /\ mails = [g \in Gifts |-> [confirmed |-> 0, reminded |-> 0]]
  /\ stray = {}
  /\ bounds = [plans |-> 0, deletes |-> 0]

-----------------------------------------------------------------------------
(* The rules of a gift (gift.ts).                                          *)

\* Mutant of Redeemable: the status of the member is not looked at.
RedeemableByAnyone(gift, status) ==
  /\ gift.status # "none"
  /\ gift.marks \cap {"redeemed", "consumed", "expired", "refunded"} = {}

Redeemable(gift, status) ==
  /\ gift.status # "none"
  /\ gift.marks \cap {"redeemed", "consumed", "expired", "refunded"} = {}
  /\ status \in {"absent", "free"}

Reassignable(gift) ==
  /\ gift.marks \cap {"refunded", "consumed", "expired"} = {}
  /\ gift.status = "redeemed"
  /\ "redeemed" \in gift.marks
  /\ gift.redeemer = NoMember

\* Mutant of Became: the date is forgotten.
BecameUndated(gift, status) == [gift EXCEPT !.status = status]

\* The row with a new status and its date.
Became(gift, status) ==
  [gift EXCEPT !.status = status, !.marks = @ \cup {status}]

\* getActiveByMember may return any of these.
ActiveGifts(m) == {g \in Gifts : row[g].status = "redeemed" /\ row[g].redeemer = m}

(* memberRepository.update with products and a status: what it decides, it *)
(* decides on the account it has read; what it does not change stays.      *)

Updatable(seen, tiers) ==
  LET gone == TierSet(seen.products) \ tiers
      new == tiers \ TierSet(seen.products)
  IN  seen.plan = "active" => new = {} /\ PlanTier \notin gone

Updated(current, seen, products, status) ==
  LET tiers == TierSet(products)
      gone == TierSet(seen.products) \ tiers
      new == tiers \ TierSet(seen.products)
  IN  [current EXCEPT
        !.products = {pr \in @ : pr[1] \notin gone \cup tiers} \cup products,
        !.status = IF new # {} THEN status
                   ELSE IF gone # {} /\ tiers = {} THEN "free" ELSE @]

GiftProducts(g) == {<<TierOf[g], g>>}

GiftGiven(m, g) == Updated(member[m], member[m], GiftProducts(g), "gift")

\* Mutant of GiftTaken: the products are not taken away.
GiftTakenInName(m, seen) == [member[m] EXCEPT !.status = "free"]

GiftTaken(m, seen) == Updated(member[m], seen, {}, "free")

(* Row locks last until the transaction ends.                              *)

\* Mutant of HoldsGift: a redemption reads its gift without a lock.
HoldsGiftUnlessRedeeming(p, g) ==
  /\ job[p].gift = g
  /\ job[p].op \in {"reassign", "clean", "remind"} /\ job[p].at = "member"

\* Mutant of HoldsGift: so does an import.
HoldsGiftUnlessReassigning(p, g) ==
  /\ job[p].gift = g
  /\ \/ job[p].op \in {"redeem", "signup"} /\ job[p].at = "write"
     \/ job[p].op \in {"clean", "remind"} /\ job[p].at = "member"

HoldsGift(p, g) ==
  /\ job[p].gift = g
  /\ \/ job[p].op \in {"redeem", "signup"} /\ job[p].at = "write"
     \/ job[p].op \in {"reassign", "clean", "remind"} /\ job[p].at = "member"
HoldsMember(p, m) ==
  /\ job[p].op = "redeem" /\ job[p].at \in {"gift", "write"}
  /\ job[p].member = m
GiftFree(g) == \A p \in Procs : ~HoldsGift(p, g)
MemberFree(m) == \A p \in Procs : ~HoldsMember(p, m)

IsAt(p, op, at) == job[p].op = op /\ job[p].at = at
Begin(p, what) == job[p] = Idle /\ job' = [job EXCEPT ![p] = what]
Goto(p, at) == job' = [job EXCEPT ![p].at = at]
Finish(p) == job' = [job EXCEPT ![p] = Idle]

Rest == UNCHANGED <<clock, activated, mails, stray, bounds>>
NothingWritten == UNCHANGED <<row, member>> /\ Rest

-----------------------------------------------------------------------------
(* Buying a gift: the webhook of the checkout session, which Stripe may    *)
(* deliver again at any time.                                              *)

PurchaseStarts(p, g) ==
  /\ row[g].status = "none"
  /\ Begin(p, [Idle EXCEPT !.op = "purchase", !.at = "write", !.gift = g])
  /\ NothingWritten

\* The checkout session is unique: the second of two fails.  Who has stored
\* the gift confirms it, once, unless its process dies before.
PurchaseWrites(p) ==
  LET g == job[p].gift
  IN  /\ IsAt(p, "purchase", "write")
      /\ Finish(p)
      /\ \/ /\ row[g].status = "none"
            /\ row' = [row EXCEPT ![g] = Bought]
            /\ mails' = [mails EXCEPT ![g].confirmed = @ + 1]
         \/ row[g].status # "none" /\ UNCHANGED <<row, mails>>
      /\ UNCHANGED <<member, clock, activated, stray, bounds>>

-----------------------------------------------------------------------------
(* Redeeming: a member locks itself and then the gift; somebody new is     *)
(* created in the transaction.                                             *)

RedeemLocksMember(p, m, g) ==
  /\ member[m].status # "absent"
  /\ MemberFree(m)
  /\ Begin(p, [Idle EXCEPT !.op = "redeem", !.at = "gift", !.gift = g, !.member = m])
  /\ NothingWritten

RedeemLocksGift(p) ==
  LET g == job[p].gift
      status == member[job[p].member].status
  IN  /\ IsAt(p, "redeem", "gift")
      /\ GiftFree(g)
      /\ \/ /\ Redeemable(row[g], status)
            /\ job' = [job EXCEPT ![p].seen = row[g], ![p].at = "write"]
         \/ ~Redeemable(row[g], status) /\ Finish(p)
      /\ NothingWritten

\* A new member is checked as if it had no status.
SignupLocksGift(p, m, g) ==
  /\ member[m].status = "absent"
  /\ GiftFree(g)
  /\ Redeemable(row[g], "absent")
  /\ Begin(p, [Idle EXCEPT !.op = "signup", !.at = "write", !.gift = g, !.member = m,
                 !.seen = row[g]])
  /\ NothingWritten

\* A second account with the email of the first is refused.
MayRedeem(p) ==
  LET m == job[p].member
  IN  IF job[p].op = "signup" THEN member[m].status = "absent"
      ELSE Updatable(member[m], {TierOf[job[p].gift]})

RedeemWrites(p) ==
  LET g == job[p].gift
      m == job[p].member
  IN  /\ job[p].op \in {"redeem", "signup"} /\ job[p].at = "write"
      /\ Finish(p)
      /\ \/ /\ MayRedeem(p)
            /\ row' = [row EXCEPT ![g] =
                 [Became(job[p].seen, "redeemed") EXCEPT !.redeemer = m]]
            /\ member' = [member EXCEPT ![m] = GiftGiven(m, g)]
            /\ clock' = [clock EXCEPT ![g] = "early"]
            /\ UNCHANGED <<activated, mails, stray, bounds>>
         \/ ~MayRedeem(p) /\ NothingWritten

-----------------------------------------------------------------------------
(* Giving the gift of a deleted member to another, by an import: gift      *)
(* first, then the member.  The import has read something before, so what  *)
(* it reads without a lock is as old as its beginning.                     *)

ReassignStarts(p, m, g) ==
  /\ member[m].status # "absent"
  /\ Begin(p, [Idle EXCEPT !.op = "reassign", !.at = "gift", !.gift = g,
                 !.member = m, !.taken = ActiveGifts(m) \ {g} # {}])
  /\ NothingWritten

ReassignLocksGift(p) ==
  LET g == job[p].gift
  IN  /\ IsAt(p, "reassign", "gift")
      /\ GiftFree(g)
      /\ \/ /\ Reassignable(row[g])
            /\ job' = [job EXCEPT ![p].seen = row[g], ![p].at = "member"]
         \/ ~Reassignable(row[g]) /\ Finish(p)
      /\ NothingWritten

MayReassign(p) ==
  LET m == job[p].member
  IN  /\ member[m].status \in {"free", "gift"}
      /\ ~job[p].taken
      /\ Updatable(member[m], {TierOf[job[p].gift]})

ReassignWrites(p) ==
  LET g == job[p].gift
      m == job[p].member
  IN  /\ IsAt(p, "reassign", "member")
      /\ MemberFree(m)
      /\ Finish(p)
      /\ \/ /\ MayReassign(p)
            /\ row' = [row EXCEPT ![g] = [job[p].seen EXCEPT !.redeemer = m]]
            /\ member' = [member EXCEPT ![m] = GiftGiven(m, g)]
            /\ stray' = stray \cup {k \in {m} : ActiveGifts(k) # {}}
            /\ UNCHANGED <<clock, activated, mails, bounds>>
         \/ ~MayReassign(p) /\ NothingWritten

-----------------------------------------------------------------------------
(* A refund, told by a webhook of Stripe.  The gift is read before the     *)
(* transaction, the redeemer in it, neither with a lock; the whole row is  *)
(* written as it was read.  The redeemer of a gift that had ended loses    *)
(* the access another gift may give by then.                               *)

RefundReads(p, g) ==
  /\ row[g].status # "none"
  /\ "refunded" \notin row[g].marks
  /\ Begin(p, [Idle EXCEPT !.op = "refund", !.at = "snapshot", !.gift = g,
                 !.seen = row[g]])
  /\ NothingWritten

RefundReadsMember(p) ==
  LET m == job[p].seen.redeemer
  IN  /\ IsAt(p, "refund", "snapshot")
      /\ job' = [job EXCEPT ![p].at = "write",
                   ![p].who = IF m = NoMember THEN NoAccount ELSE member[m]]
      /\ NothingWritten

RefundWrites(p) ==
  LET g == job[p].gift
      seen == job[p].seen
      m == seen.redeemer
  IN  /\ IsAt(p, "refund", "write")
      /\ GiftFree(g)
      /\ Finish(p)
      /\ row' = [row EXCEPT ![g] = Became(seen, "refunded")]
      /\ \/ /\ m # NoMember /\ job[p].who.status = "gift"
            /\ MemberFree(m)
            /\ member[m].status # "absent"
            /\ Updatable(job[p].who, {})
            /\ member' = [member EXCEPT ![m] = GiftTaken(m, job[p].who)]
         \/ /\ m # NoMember => /\ job[p].who.status # "gift"
                               /\ member[m].status # "absent"
            /\ UNCHANGED member
      /\ stray' = stray \cup {k \in Members :
           \/ k \in {m, row[g].redeemer} /\ row[g] # seen
           \/ k = m /\ \/ member[k] # job[p].who
                       \/ seen.status # "redeemed" /\ member[k].status = "gift"}
      /\ UNCHANGED <<clock, activated, mails, bounds>>

-----------------------------------------------------------------------------
(* A paid subscription ends the gift early: the event of its activation is *)
(* handled after the webhook, and may be lost with the process.            *)

ActivationStarts(p, m) ==
  /\ m \in activated
  /\ activated' = activated \ {m}
  /\ \/ \E g \in ActiveGifts(m) :
          Begin(p, [Idle EXCEPT !.op = "consume", !.at = "gift", !.gift = g])
     \/ ActiveGifts(m) = {} /\ job[p] = Idle /\ job' = job
  /\ UNCHANGED <<row, member, clock, mails, stray, bounds>>

ConsumeWrites(p) ==
  LET g == job[p].gift
  IN  /\ IsAt(p, "consume", "gift")
      /\ GiftFree(g)
      /\ Finish(p)
      /\ \/ /\ row[g].status = "redeemed"
            /\ row' = [row EXCEPT ![g] = Became(row[g], "consumed")]
            /\ stray' = stray \cup {m \in Members :
                 m = row[g].redeemer /\ member[m].status = "gift"}
         \/ row[g].status # "redeemed" /\ UNCHANGED <<row, stray>>
      /\ UNCHANGED <<member, clock, activated, mails, bounds>>

EventLost(m) ==
  /\ m \in activated
  /\ activated' = activated \ {m}
  /\ UNCHANGED <<row, member, clock, job, mails, stray, bounds>>

-----------------------------------------------------------------------------
(* The daily jobs: each lists the gifts that are due and then works on one *)
(* after the other, in a transaction that looks again.                     *)

DueTo(op) ==
  {g \in Gifts :
     \/ op = "clean" /\ row[g].status = "redeemed" /\ clock[g] = "over"
     \/ op = "expire" /\ row[g].status = "purchased" /\ clock[g] = "over"
     \/ /\ op = "remind" /\ row[g].status = "redeemed" /\ clock[g] = "soon"
        /\ "reminded" \notin row[g].marks}

JobStarts(p) ==
  \E op \in {"clean", "expire", "remind"} :
    /\ DueTo(op) # {}
    /\ Begin(p, [Idle EXCEPT !.op = op, !.at = "next", !.todo = DueTo(op)])
    /\ NothingWritten

\* What is left of the list when the transaction on one gift has ended.
GoesOn(p, todo) ==
  job' = [job EXCEPT ![p] =
    IF todo = {} THEN Idle
    ELSE [Idle EXCEPT !.op = job[p].op, !.at = "next", !.todo = todo]]

\* Mutant of StillDue: an earlier reminder is not looked for again.
StillDueAsListed(op, gift) ==
  \/ op = "clean" /\ gift.status = "redeemed" /\ "consumed" \notin gift.marks
  \/ op = "remind" /\ gift.status = "redeemed" /\ gift.redeemer # NoMember

\* What the transaction finds under the lock on the gift.
StillDue(op, gift) ==
  \/ op = "clean" /\ gift.status = "redeemed" /\ "consumed" \notin gift.marks
  \/ op = "remind" /\ gift.status = "redeemed" /\ "reminded" \notin gift.marks
                   /\ gift.redeemer # NoMember

JobLocksGift(p, g) ==
  /\ job[p].op \in {"clean", "remind"} /\ job[p].at = "next"
  /\ g \in job[p].todo
  /\ GiftFree(g)
  /\ \/ /\ StillDue(job[p].op, row[g])
        /\ job' = [job EXCEPT ![p].at = "member", ![p].gift = g, ![p].seen = row[g],
                     ![p].todo = @ \ {g}]
     \/ /\ ~StillDue(job[p].op, row[g])
        /\ GoesOn(p, job[p].todo \ {g})
  /\ NothingWritten

\* processConsumed: the member of the gift is free again.
CleanWrites(p) ==
  LET g == job[p].gift
      m == job[p].seen.redeemer
  IN  /\ IsAt(p, "clean", "member")
      /\ row' = [row EXCEPT ![g] = Became(job[p].seen, "consumed")]
      /\ GoesOn(p, job[p].todo)
      /\ \/ /\ m # NoMember
            /\ MemberFree(m)
            /\ member[m].status = "gift"
            /\ Updatable(member[m], {})
            /\ member' = [member EXCEPT ![m] = GiftTaken(m, member[m])]
         \/ /\ m # NoMember => MemberFree(m) /\ member[m].status # "gift"
            /\ UNCHANGED member
      /\ Rest

\* processExpired
ExpireWrites(p, g) ==
  /\ IsAt(p, "expire", "next")
  /\ g \in job[p].todo
  /\ GiftFree(g)
  /\ GoesOn(p, job[p].todo \ {g})
  /\ \/ /\ row[g].status = "purchased"
        /\ row' = [row EXCEPT ![g] = Became(row[g], "expired")]
     \/ row[g].status # "purchased" /\ row' = row
  /\ UNCHANGED member
  /\ Rest

\* The reminder counts as sent before it is; an unreachable member gets none.
RemindWrites(p) ==
  LET g == job[p].gift
      m == job[p].seen.redeemer
  IN  /\ IsAt(p, "remind", "member")
      /\ MemberFree(m)
      /\ row' = [row EXCEPT ![g] = [job[p].seen EXCEPT !.marks = @ \cup {"reminded"}]]
      /\ \/ member[m].status # "absent" /\ Goto(p, "send")
         \/ GoesOn(p, job[p].todo)
      /\ UNCHANGED member
      /\ Rest

RemindSends(p) ==
  /\ IsAt(p, "remind", "send")
  /\ mails' = [mails EXCEPT ![job[p].gift].reminded = @ + 1]
  /\ GoesOn(p, job[p].todo)
  /\ UNCHANGED <<row, member, clock, activated, stray, bounds>>

\* An error, a deadlock the database breaks, a crash: the transaction is
\* rolled back and the rest of the run is left for the next one.
Aborts(p) ==
  /\ job[p] # Idle
  /\ Finish(p)
  /\ NothingWritten

-----------------------------------------------------------------------------
(* What else changes a member.                                             *)

Joins(m) ==
  /\ member[m].status = "absent"
  /\ member' = [member EXCEPT ![m] = FreeAccount]
  /\ UNCHANGED <<row, clock, job, activated, mails, stray, bounds>>

\* linkSubscription, of an active subscription.  The first row of a product
\* wins when it is new, and loses its expiry when it is told of again.
LinkActive(m) ==
  LET known == member[m].plan = "active"
      kept == {pr \in member[m].products : ~known \/ pr[1] # PlanTier}
  IN  /\ member[m].status # "absent"
      /\ MemberFree(m)
      /\ known \/ bounds.plans < MaxPlans
      /\ member' = [member EXCEPT ![m] =
           [status |-> "paid", plan |-> "active",
            products |-> IF PlanTier \in TierSet(kept) THEN kept
                         ELSE kept \cup {<<PlanTier, NoGift>>}]]
      /\ activated' = IF known THEN activated ELSE activated \cup {m}
      /\ bounds' = IF known THEN bounds ELSE [bounds EXCEPT !.plans = @ + 1]
      /\ UNCHANGED <<row, clock, job, mails, stray>>

\* The same of a subscription that has ended, which may be told of again.
LinkEnded(m) ==
  LET left == {pr \in member[m].products : pr[1] # PlanTier}
  IN  /\ member[m].plan \in {"active", "ended"}
      /\ MemberFree(m)
      /\ member' = [member EXCEPT ![m] =
           [status |-> IF left = {} THEN "free" ELSE "comped",
            plan |-> "ended", products |-> left]]
      /\ UNCHANGED <<row, clock, job, activated, mails, stray, bounds>>

\* clean-expired-comped: products past their expiry go, whoever has them.
Expired == {pr \in Tiers \X Gifts : clock[pr[2]] = "over"}

Sweeps ==
  LET hit == {m \in Members : member[m].products \cap Expired # {}}
  IN  /\ hit # {}
      /\ \A m \in hit : member[m].status = "comped" => MemberFree(m)
      /\ member' = [m \in Members |->
           IF m \notin hit THEN member[m]
           ELSE [member[m] EXCEPT !.products = @ \ Expired,
                   !.status = IF @ = "comped" THEN "free" ELSE @]]
      /\ stray' = stray \cup {m \in hit : member[m].status # "comped"}
      /\ UNCHANGED <<row, clock, job, activated, mails, bounds>>

\* The foreign key of the redeemer is set to null.
Deleted(m) ==
  /\ member[m].status # "absent"
  /\ MemberFree(m)
  /\ \A g \in Gifts : row[g].redeemer = m => GiftFree(g)
  /\ bounds.deletes < MaxDeletes
  /\ bounds' = [bounds EXCEPT !.deletes = @ + 1]
  /\ member' = [member EXCEPT ![m] = NoAccount]
  /\ row' = [g \in Gifts |->
       IF row[g].redeemer = m THEN [row[g] EXCEPT !.redeemer = NoMember] ELSE row[g]]
  /\ UNCHANGED <<clock, job, activated, mails, stray>>

\* Time passes: soon a redeemed gift needs its reminder, then it is over.  The
\* dates of a gift that has ended matter as long as a product expires with it.
Tick(g) ==
  /\ \/ /\ clock[g] = "early" /\ row[g].status = "redeemed" /\ g \in Reminding
        /\ clock' = [clock EXCEPT ![g] = "soon"]
     \/ /\ clock[g] # "over"
        /\ \/ row[g].status \in {"purchased", "redeemed"}
           \/ \E m \in Members : \E t \in Tiers : <<t, g>> \in member[m].products
        /\ clock' = [clock EXCEPT ![g] = "over"]
  /\ UNCHANGED <<row, member, job, activated, mails, stray, bounds>>

-----------------------------------------------------------------------------
Handler(p) ==
  \/ PurchaseWrites(p)
  \/ RedeemLocksGift(p) \/ RedeemWrites(p)
  \/ ReassignLocksGift(p) \/ ReassignWrites(p)
  \/ RefundReadsMember(p) \/ RefundWrites(p)
  \/ ConsumeWrites(p)
  \/ JobStarts(p) \/ CleanWrites(p) \/ RemindWrites(p) \/ RemindSends(p)
  \/ \E g \in Gifts : JobLocksGift(p, g) \/ ExpireWrites(p, g)
  \/ Aborts(p)

Request(p) ==
  \/ \E g \in Gifts : PurchaseStarts(p, g) \/ RefundReads(p, g)
  \/ \E m \in Members, g \in Gifts :
       RedeemLocksMember(p, m, g) \/ SignupLocksGift(p, m, g) \/ ReassignStarts(p, m, g)
  \/ \E m \in Members : ActivationStarts(p, m)

Account(m) ==
  Joins(m) \/ LinkActive(m) \/ LinkEnded(m) \/ Deleted(m) \/ EventLost(m)

Next ==
  \/ \E p \in Procs : Handler(p) \/ Request(p)
  \/ \E m \in Members : Account(m)
  \/ \E g \in Gifts : Tick(g)
  \/ Sweeps

Spec == Init /\ [][Next]_vars

-----------------------------------------------------------------------------
(* Properties.  Some steps act on what they have not looked at under a     *)
(* lock: an import that read before another gift was given, a refund whose *)
(* gift or member has changed since it was read or whose gift had ended,   *)
(* an activation handled when its subscription is over, a sweep of a       *)
(* product whose member is not comped.  What is said below of a member is  *)
(* said until then.                                                        *)

\* Nobody keeps the status "gift" when no gift backs it: redeeming, passing
\* on, refunding, consuming and deleting change the gift and its member
\* together, whatever else is under way (gift-service.ts, redeem to
\* processConsumed).
AccessBacked ==
  \A m \in Members \ stray : member[m].status = "gift" => ActiveGifts(m) # {}

\* The other way round: who never subscribed has the product of a gift as
\* long as the gift is theirs, with the status that goes with it, and no
\* product outlives its gift (memberRepository.update in the transaction
\* that begins or ends the gift, with the products to keep).
AccessWhileActive ==
  \A m \in Members \ stray : member[m].plan = "none" =>
    /\ \A g \in ActiveGifts(m) :
         member[m].status = "gift" /\ <<TierOf[g], g>> \in member[m].products
    /\ \A pr \in member[m].products : pr[2] \in ActiveGifts(m)

\* A member with an active subscription is changed by its webhooks and its
\* deletion only: no request or job for a gift takes away or dates what is
\* paid for (checkRedeemable, the status checks before every downgrade).
PayingMembersKept ==
  [][\A m \in Members \ stray' :
       member[m].plan = "active" /\ member'[m] # member[m] =>
         LinkActive(m) \/ LinkEnded(m) \/ Deleted(m)]_vars

\* Webhooks delivered twice and reminder jobs that overlap send one
\* confirmation and one reminder for a gift, never two (the unique checkout
\* session, the second look at consumesSoonReminderSentAt under the lock).
MailedOnce ==
  \A g \in Gifts : mails[g].confirmed <= 1 /\ mails[g].reminded <= 1

\* The life promised to who bought a gift and who received it.
StateOf(r) ==
  CASE r.status = "none" -> "none"
    [] r.status = "purchased" -> "open"
    [] r.status = "redeemed" -> "held"
    [] OTHER -> "over"
HolderOf(r) == IF r.status = "redeemed" THEN r.redeemer ELSE NoMember

StateOfGifts == [g \in Gifts |-> StateOf(row[g])]
HolderOfGifts == [g \in Gifts |-> HolderOf(row[g])]

Promise == INSTANCE GiftPromise WITH state <- StateOfGifts, holder <- HolderOfGifts

\* Every step keeps the promise of GiftPromise: a gift is redeemed once, by
\* one member, passes to another only when that one is gone, and never comes
\* back once it has ended, however requests, webhooks and jobs overlap.
ImplementsGiftPromise == Promise!Spec

=============================================================================
