------------------------ MODULE GiftLifecycle_proofs ------------------------
(***************************************************************************)
(* Theorems about GiftLifecycle, for every number of gifts, members,       *)
(* tiers, requests and jobs.                                               *)
(***************************************************************************)
EXTENDS GiftLifecycle, TLAPS

\* What a handler remembers when it is past its first step.
Sane(j) ==
  /\ j.op \in {"purchase", "redeem", "signup", "reassign", "refund", "consume"}
       => j.gift \in Gifts
  /\ j.op \in {"clean", "remind"} /\ j.at \in {"member", "send"} => j.gift \in Gifts
  /\ j.op \in {"redeem", "signup", "reassign"} => j.member \in Members
  /\ j.op = "refund" => Consistent(j.seen) /\ j.seen.status # "none"

JobsSane == \A p \in Procs : Sane(job[p])

\* Two transactions never hold the same gift.
LocksExclude ==
  \A p, q \in Procs, g \in Gifts : HoldsGift(p, g) /\ HoldsGift(q, g) => p = q

\* Under its lock a gift is still what was read, and was fit for the step.
SeenIsRow ==
  \A p \in Procs, g \in Gifts : HoldsGift(p, g) =>
    /\ job[p].seen = row[g]
    /\ row[g].status = IF job[p].op \in {"redeem", "signup"} THEN "purchased"
                       ELSE "redeemed"
    /\ job[p].op = "reassign" => row[g].redeemer = NoMember

\* What is refunded has been bought.
RefundsBought ==
  \A p \in Procs : job[p].op = "refund" => row[job[p].gift].status # "none"

IInv == TypeOK /\ JobsSane /\ LocksExclude /\ SeenIsRow /\ RefundsBought

\* What a step of one handler owes: p goes on with j; a row it changes is
\* held by nobody else; a gift it holds afterwards was free or its own.
Holds(j, g) ==
  /\ j.gift = g
  /\ \/ j.op \in {"redeem", "signup"} /\ j.at = "write"
     \/ j.op \in {"reassign", "clean", "remind"} /\ j.at = "member"

Fits(j, r) ==
  /\ j.seen = r
  /\ r.status = IF j.op \in {"redeem", "signup"} THEN "purchased" ELSE "redeemed"
  /\ j.op = "reassign" => r.redeemer = NoMember

Owes(p, j) ==
  /\ j \in Jobs /\ Sane(j)
  /\ job' = [job EXCEPT ![p] = j]
  /\ row' \in [Gifts -> Rows] /\ \A g \in Gifts : Consistent(row'[g])
  /\ \A g \in Gifts : row'[g] # row[g] =>
       row'[g].status # "none" /\ \A q \in Procs \ {p} : ~HoldsGift(q, g)
  /\ j.op = "refund" => row[j.gift].status # "none"
  /\ \A g \in Gifts : Holds(j, g) =>
       /\ row'[g] = row[g] /\ Fits(j, row[g])
       /\ \A q \in Procs \ {p} : ~HoldsGift(q, g)

-----------------------------------------------------------------------------
\* What a row may become keeps its shape.
LEMMA RowFacts ==
  /\ Absent \in Rows /\ Consistent(Absent)
  /\ Bought \in Rows /\ Consistent(Bought) /\ Bought.status = "purchased"
  /\ \A r \in Rows : \A s \in {"redeemed", "consumed", "expired", "refunded"} :
       /\ Became(r, s) \in Rows
       /\ Became(r, s).status = s
       /\ Became(r, s).redeemer = r.redeemer
       /\ Became(r, s).marks = r.marks \cup {s}
<1>1. Absent \in Rows /\ Consistent(Absent)
  BY DEF Absent, Rows, Statuses, Marks, Consistent
<1>2. Bought \in Rows /\ Consistent(Bought) /\ Bought.status = "purchased"
  BY DEF Bought, Absent, Rows, Statuses, Marks, Consistent
<1>3. ASSUME NEW r \in Rows, NEW s \in {"redeemed", "consumed", "expired", "refunded"}
      PROVE  /\ Became(r, s) \in Rows
             /\ Became(r, s).status = s
             /\ Became(r, s).redeemer = r.redeemer
             /\ Became(r, s).marks = r.marks \cup {s}
  BY DEF Became, Rows, Statuses, Marks
<1> QED
  BY <1>1, <1>2, <1>3

\* An update of a member gives an account again.
LEMMA AccountFacts ==
  /\ NoAccount \in Accounts /\ FreeAccount \in Accounts
  /\ \A current, seen \in Accounts, products \in Products, s \in {"free", "gift"} :
       Updated(current, seen, products, s) \in Accounts
  /\ \A g \in Gifts : GiftProducts(g) \in Products
<1>1. NoAccount \in Accounts /\ FreeAccount \in Accounts
  BY DEF NoAccount, FreeAccount, Accounts, Products
<1>2. ASSUME NEW current \in Accounts, NEW seen \in Accounts, NEW products \in Products,
             NEW s \in {"free", "gift"}
      PROVE  Updated(current, seen, products, s) \in Accounts
  <2> DEFINE tiers == TierSet(products)
             gone == TierSet(seen.products) \ tiers
             new == tiers \ TierSet(seen.products)
             kept == {pr \in current.products : pr[1] \notin gone \cup tiers}
             status == IF new # {} THEN s
                       ELSE IF gone # {} /\ tiers = {} THEN "free" ELSE current.status
  <2>1. kept \cup products \in Products
    BY DEF Accounts, Products
  <2>2. status \in {"absent", "free", "paid", "comped", "gift"}
    BY DEF Accounts
  <2>3. Updated(current, seen, products, s) =
          [current EXCEPT !.products = kept \cup products, !.status = status]
    BY DEF Updated
  <2> HIDE DEF kept, status
  <2> QED
    BY <2>1, <2>2, <2>3 DEF Accounts
<1>3. ASSUME NEW g \in Gifts PROVE GiftProducts(g) \in Products
  BY GiftAssumption DEF GiftProducts, Products
<1> QED
  BY <1>1, <1>2, <1>3

\* An idle handler, and what each handler starts with.
LEMMA IdleFacts == Idle \in Jobs /\ Sane(Idle)
<1>1. Absent \in Rows /\ NoAccount \in Accounts
  BY RowFacts, AccountFacts
<1> QED
  BY <1>1 DEF Idle, Jobs, Ops, Places, Sane

\* Such a step keeps the locks and what is known under them.
LEMMA HandlerStep ==
  ASSUME IInv, NEW p \in Procs, NEW j, Owes(p, j)
  PROVE  /\ row' \in [Gifts -> Rows] /\ \A g \in Gifts : Consistent(row'[g])
         /\ job' \in [Procs -> Jobs]
         /\ JobsSane' /\ LocksExclude' /\ SeenIsRow' /\ RefundsBought'
<1>1. job \in [Procs -> Jobs]
  BY DEF IInv, TypeOK
<1>2. \A q \in Procs : job'[q] = IF q = p THEN j ELSE job[q]
  BY <1>1 DEF Owes
<1>3. job' \in [Procs -> Jobs]
  BY <1>1 DEF Owes
<1>4. JobsSane'
  BY <1>2 DEF Owes, IInv, JobsSane, Sane
<1>5. \A q \in Procs, g \in Gifts : HoldsGift(q, g)' = Holds(job'[q], g)
  BY DEF HoldsGift, Holds
<1>6. \A q \in Procs, g \in Gifts : HoldsGift(q, g) = Holds(job[q], g)
  BY DEF HoldsGift, Holds
<1>7. LocksExclude'
  <2> SUFFICES ASSUME NEW q \in Procs, NEW r \in Procs, NEW g \in Gifts,
                      Holds(job'[q], g), Holds(job'[r], g), q # r
               PROVE  FALSE
    BY <1>5 DEF LocksExclude
  <2>1. CASE q # p /\ r # p
    BY <2>1, <1>2, <1>6 DEF IInv, LocksExclude
  <2>2. CASE q = p \/ r = p
    BY <2>2, <1>2, <1>6 DEF Owes
  <2> QED
    BY <2>1, <2>2
<1>8. SeenIsRow'
  <2> SUFFICES ASSUME NEW q \in Procs, NEW g \in Gifts, Holds(job'[q], g)
               PROVE  Fits(job'[q], row'[g])
    BY <1>5 DEF SeenIsRow, Fits
  <2>1. CASE q = p
    BY <2>1, <1>2 DEF Owes
  <2>2. CASE q # p
    <3>1. HoldsGift(q, g) /\ row'[g] = row[g] /\ job'[q] = job[q]
      BY <2>2, <1>2, <1>6 DEF Owes
    <3> QED
      BY <3>1 DEF IInv, SeenIsRow, Fits
  <2> QED
    BY <2>1, <2>2
<1>9. RefundsBought'
  <2> SUFFICES ASSUME NEW q \in Procs, job'[q].op = "refund"
               PROVE  row'[job'[q].gift].status # "none"
    BY DEF RefundsBought
  <2>1. job'[q].gift \in Gifts /\ row[job'[q].gift].status # "none"
    BY <1>2, <1>4 DEF Owes, IInv, RefundsBought, JobsSane, Sane
  <2> QED
    BY <2>1 DEF Owes
<1> QED
  BY <1>3, <1>4, <1>7, <1>8, <1>9 DEF Owes

\* A handler that holds no lock afterwards and writes no row owes little.
LEMMA QuietOwes ==
  ASSUME IInv, NEW p \in Procs, NEW j \in Jobs, Sane(j),
         \A g \in Gifts : ~Holds(j, g),
         j.op = "refund" => row[j.gift].status # "none",
         job' = [job EXCEPT ![p] = j], UNCHANGED row
  PROVE  Owes(p, j)
BY DEF Owes, IInv, TypeOK

\* The same of one that ends.
LEMMA FinishOwes ==
  ASSUME IInv, NEW p \in Procs, Finish(p),
         row' \in [Gifts -> Rows], \A g \in Gifts : Consistent(row'[g]),
         \A g \in Gifts : row'[g] # row[g] =>
           row'[g].status # "none" /\ \A q \in Procs \ {p} : ~HoldsGift(q, g)
  PROVE  Owes(p, Idle)
<1>1. Idle.op # "refund" /\ \A g \in Gifts : ~Holds(Idle, g)
  BY DEF Idle, Holds
<1> QED
  BY <1>1, IdleFacts DEF Owes, Finish

\* What is left of a list is a list.
LEMMA GoesOnFacts ==
  ASSUME IInv, NEW p \in Procs, NEW todo \in SUBSET Gifts, GoesOn(p, todo),
         job[p].op \in {"clean", "expire", "remind"}
  PROVE  \E j \in Jobs : /\ Sane(j) /\ \A g \in Gifts : ~Holds(j, g)
                         /\ j.op # "refund"
                         /\ job' = [job EXCEPT ![p] = j]
<1> DEFINE k == [Idle EXCEPT !.op = job[p].op, !.at = "next", !.todo = todo]
<1>1. Idle \in Jobs /\ Sane(Idle) /\ Idle.op # "refund" /\ \A g \in Gifts : ~Holds(Idle, g)
  BY IdleFacts DEF Idle, Holds
<1>2. job[p] \in Jobs
  BY DEF IInv, TypeOK
<1>3. k \in Jobs
  BY <1>1, <1>2 DEF Jobs, Places
<1>4. Sane(k) /\ k.op # "refund" /\ \A g \in Gifts : ~Holds(k, g)
  BY DEF Sane, Holds, Idle
<1> QED
  BY <1>1, <1>3, <1>4 DEF GoesOn

\* Requests: what they start with is sane, and the rows stay.
LEMMA RequestOwes ==
  ASSUME IInv, NEW p \in Procs, Request(p)
  PROVE  \E j : Owes(p, j)
<1> USE DEF Rest, NothingWritten
<1>0. /\ Idle \in Jobs /\ row \in [Gifts -> Rows] /\ job \in [Procs -> Jobs]
      /\ \A g \in Gifts : Consistent(row[g])
  BY IdleFacts DEF IInv, TypeOK
<1>1. CASE \E g \in Gifts : PurchaseStarts(p, g)
  <2>1. PICK g \in Gifts : PurchaseStarts(p, g)
    BY <1>1
  <2> DEFINE j == [Idle EXCEPT !.op = "purchase", !.at = "write", !.gift = g]
  <2>2. j \in Jobs /\ Sane(j) /\ j.op # "refund" /\ \A h \in Gifts : ~Holds(j, h)
    BY <1>0 DEF Jobs, Ops, Places, Sane, Holds, Idle
  <2> QED
    BY <2>1, <2>2, QuietOwes DEF PurchaseStarts, Begin
<1>2. CASE \E g \in Gifts : RefundReads(p, g)
  <2>1. PICK g \in Gifts : RefundReads(p, g)
    BY <1>2
  <2> DEFINE j == [Idle EXCEPT !.op = "refund", !.at = "snapshot", !.gift = g,
                     !.seen = row[g]]
  <2>2. j \in Jobs
    BY <1>0 DEF Jobs, Ops, Places
  <2>3. Sane(j) /\ \A h \in Gifts : ~Holds(j, h)
    BY <1>0, <2>1 DEF Sane, Holds, Idle, RefundReads
  <2>4. job' = [job EXCEPT ![p] = j] /\ UNCHANGED row /\ row[j.gift].status # "none"
    BY <2>1 DEF RefundReads, Begin, Idle
  <2> HIDE DEF j
  <2> QED
    BY <2>2, <2>3, <2>4, QuietOwes
<1>3. CASE \E m \in Members, g \in Gifts : RedeemLocksMember(p, m, g)
  <2>1. PICK m \in Members, g \in Gifts : RedeemLocksMember(p, m, g)
    BY <1>3
  <2> DEFINE j == [Idle EXCEPT !.op = "redeem", !.at = "gift", !.gift = g, !.member = m]
  <2>2. j \in Jobs /\ Sane(j) /\ j.op # "refund" /\ \A h \in Gifts : ~Holds(j, h)
    BY <1>0 DEF Jobs, Ops, Places, Sane, Holds, Idle
  <2> QED
    BY <2>1, <2>2, QuietOwes DEF RedeemLocksMember, Begin
<1>4. CASE \E m \in Members, g \in Gifts : SignupLocksGift(p, m, g)
  <2>1. PICK m \in Members, g \in Gifts : SignupLocksGift(p, m, g)
    BY <1>4
  <2> DEFINE j == [Idle EXCEPT !.op = "signup", !.at = "write", !.gift = g, !.member = m,
                     !.seen = row[g]]
  <2>2. j \in Jobs /\ Sane(j) /\ j.op # "refund"
    BY <1>0 DEF Jobs, Ops, Places, Sane, Idle
  <2>3. row[g].status = "purchased"
    BY <1>0, <2>1 DEF SignupLocksGift, Redeemable, Rows, Statuses, Consistent
  <2>4. \A h \in Gifts : Holds(j, h) => h = g /\ Fits(j, row[g])
    BY <2>3 DEF Holds, Fits, Idle
  <2>5. job' = [job EXCEPT ![p] = j] /\ UNCHANGED row /\ GiftFree(g)
    BY <2>1 DEF SignupLocksGift, Begin
  <2> HIDE DEF j
  <2> QED
    BY <1>0, <2>2, <2>4, <2>5 DEF Owes, GiftFree
<1>5. CASE \E m \in Members, g \in Gifts : ReassignStarts(p, m, g)
  <2>1. PICK m \in Members, g \in Gifts : ReassignStarts(p, m, g)
    BY <1>5
  <2> DEFINE j == [Idle EXCEPT !.op = "reassign", !.at = "gift", !.gift = g,
                     !.member = m, !.taken = ActiveGifts(m) \ {g} # {}]
  <2>2. (ActiveGifts(m) \ {g} # {}) \in BOOLEAN
    OBVIOUS
  <2>3. j \in Jobs /\ Sane(j) /\ j.op # "refund" /\ \A h \in Gifts : ~Holds(j, h)
    BY <1>0, <2>2 DEF Jobs, Ops, Places, Sane, Holds, Idle
  <2> QED
    BY <2>1, <2>3, QuietOwes DEF ReassignStarts, Begin
<1>6. CASE \E m \in Members : ActivationStarts(p, m)
  <2>1. PICK m \in Members : ActivationStarts(p, m)
    BY <1>6
  <2>2. CASE \E g \in ActiveGifts(m) :
               Begin(p, [Idle EXCEPT !.op = "consume", !.at = "gift", !.gift = g])
    <3>1. PICK g \in ActiveGifts(m) :
            Begin(p, [Idle EXCEPT !.op = "consume", !.at = "gift", !.gift = g])
      BY <2>2
    <3> DEFINE j == [Idle EXCEPT !.op = "consume", !.at = "gift", !.gift = g]
    <3>2. g \in Gifts
      BY DEF ActiveGifts
    <3>3. j \in Jobs /\ Sane(j) /\ j.op # "refund" /\ \A h \in Gifts : ~Holds(j, h)
      BY <1>0, <3>2 DEF Jobs, Ops, Places, Sane, Holds, Idle
    <3> QED
      BY <2>1, <3>1, <3>3, QuietOwes DEF ActivationStarts, Begin
  <2>3. CASE job[p] = Idle /\ job' = job
    <3>1. Finish(p)
      BY <1>0, <2>3 DEF Finish
    <3> QED
      BY <1>0, <2>1, <3>1, FinishOwes DEF ActivationStarts
  <2> QED
    BY <2>1, <2>2, <2>3 DEF ActivationStarts
<1> QED
  BY <1>1, <1>2, <1>3, <1>4, <1>5, <1>6 DEF Request

\* Later steps of a handler: who writes a row holds it or finds it free, and
\* writes a consistent row.
LEMMA HandlerOwes ==
  ASSUME IInv, NEW p \in Procs, Handler(p)
  PROVE  \E j : Owes(p, j)
<1> USE DEF Rest, NothingWritten
<1> DEFINE g == job[p].gift
           seen == job[p].seen
<1>0. /\ Idle \in Jobs /\ row \in [Gifts -> Rows] /\ job \in [Procs -> Jobs]
      /\ job[p] \in Jobs /\ Sane(job[p]) /\ seen \in Rows
      /\ \A h \in Gifts : Consistent(row[h])
  BY IdleFacts DEF IInv, TypeOK, JobsSane, Jobs
<1>a. ASSUME NEW h \in Gifts, HoldsGift(p, h)
      PROVE  /\ job[p].seen = row[h]
             /\ row[h].status = IF job[p].op \in {"redeem", "signup"} THEN "purchased"
                                ELSE "redeemed"
             /\ job[p].op = "reassign" => row[h].redeemer = NoMember
             /\ \A q \in Procs \ {p} : ~HoldsGift(q, h)
  BY <1>a DEF IInv, SeenIsRow, LocksExclude
\* One row changes, to r, and the handler holds nothing afterwards.
<1>b. ASSUME NEW h \in Gifts, NEW r \in Rows, Consistent(r), r.status # "none",
             row' = [row EXCEPT ![h] = r],
             \A q \in Procs \ {p} : ~HoldsGift(q, h)
      PROVE  /\ row' \in [Gifts -> Rows] /\ \A k \in Gifts : Consistent(row'[k])
             /\ \A k \in Gifts : row'[k] # row[k] =>
                  row'[k].status # "none" /\ \A q \in Procs \ {p} : ~HoldsGift(q, k)
  BY <1>0, <1>b
<1>1. CASE PurchaseWrites(p)
  <2>1. g \in Gifts
    BY <1>0, <1>1 DEF PurchaseWrites, IsAt, Sane
  <2>2. CASE row[g].status = "none" /\ row' = [row EXCEPT ![g] = Bought]
    <3>1. \A q \in Procs : ~HoldsGift(q, g)
      BY <2>1, <2>2 DEF IInv, SeenIsRow
    <3> QED
      BY <1>1, <2>1, <2>2, <3>1, <1>b, RowFacts, FinishOwes DEF PurchaseWrites
  <2>3. CASE UNCHANGED row
    BY <1>0, <1>1, <2>3, FinishOwes DEF PurchaseWrites
  <2> QED
    BY <1>1, <2>2, <2>3 DEF PurchaseWrites
<1>2. CASE RedeemLocksGift(p)
  <2>1. CASE Finish(p) /\ UNCHANGED row
    BY <1>0, <2>1, FinishOwes
  <2>2. CASE /\ Redeemable(row[g], member[job[p].member].status)
             /\ job' = [job EXCEPT ![p].seen = row[g], ![p].at = "write"]
    <3> DEFINE j == [job[p] EXCEPT !.seen = row[g], !.at = "write"]
    <3>1. g \in Gifts /\ job[p].op = "redeem"
      BY <1>0, <1>2 DEF RedeemLocksGift, IsAt, Sane
    <3>2. j \in Jobs /\ Sane(j) /\ j.gift = g /\ j.op = "redeem" /\ j.seen = row[g]
      BY <1>0, <3>1 DEF Jobs, Places, Sane
    <3>3. row[g].status = "purchased"
      BY <1>0, <2>2, <3>1 DEF Redeemable, Rows, Statuses, Consistent
    <3>4. job' = [job EXCEPT ![p] = j]
      BY <1>0, <2>2
    <3>5. UNCHANGED row /\ GiftFree(g)
      BY <1>2 DEF RedeemLocksGift
    <3>6. \A h \in Gifts : Holds(j, h) => h = g /\ Fits(j, row[g])
      BY <3>2, <3>3 DEF Holds, Fits
    <3> HIDE DEF j
    <3> QED
      BY <1>0, <3>2, <3>4, <3>5, <3>6 DEF Owes, GiftFree
  <2> QED
    BY <1>2, <2>1, <2>2 DEF RedeemLocksGift
<1>3. CASE RedeemWrites(p)
  <2>1. g \in Gifts /\ job[p].member \in Members /\ HoldsGift(p, g)
    BY <1>0, <1>3 DEF RedeemWrites, Sane, HoldsGift
  <2>2. CASE UNCHANGED row
    BY <1>0, <1>3, <2>2, FinishOwes DEF RedeemWrites
  <2> DEFINE r == [Became(seen, "redeemed") EXCEPT !.redeemer = job[p].member]
  <2>3. CASE row' = [row EXCEPT ![g] = r]
    <3>1. seen = row[g] /\ seen.status = "purchased" /\ seen.marks = {}
      BY <1>0, <1>3, <1>a, <2>1 DEF RedeemWrites, Consistent
    <3>2. r \in Rows
      BY <1>0, <2>1, RowFacts DEF Rows
    <3>3. r.status = "redeemed" /\ r.marks = {"redeemed"}
      BY <1>0, <3>1, RowFacts DEF Rows
    <3>4. Consistent(r)
      BY <3>3 DEF Consistent
    <3> HIDE DEF r
    <3> QED
      BY <1>3, <1>a, <1>b, <2>1, <2>3, <3>2, <3>3, <3>4, FinishOwes DEF RedeemWrites
  <2> QED
    BY <1>3, <2>2, <2>3 DEF RedeemWrites
<1>4. CASE ReassignLocksGift(p)
  <2>1. CASE Finish(p) /\ UNCHANGED row
    BY <1>0, <2>1, FinishOwes
  <2>2. CASE /\ Reassignable(row[g])
             /\ job' = [job EXCEPT ![p].seen = row[g], ![p].at = "member"]
    <3> DEFINE j == [job[p] EXCEPT !.seen = row[g], !.at = "member"]
    <3>1. g \in Gifts /\ job[p].op = "reassign"
      BY <1>0, <1>4 DEF ReassignLocksGift, IsAt, Sane
    <3>2. j \in Jobs /\ Sane(j) /\ j.gift = g /\ j.op = "reassign" /\ j.seen = row[g]
      BY <1>0, <3>1 DEF Jobs, Places, Sane
    <3>3. job' = [job EXCEPT ![p] = j]
      BY <1>0, <2>2
    <3>4. UNCHANGED row /\ GiftFree(g)
      BY <1>4 DEF ReassignLocksGift
    <3>5. \A h \in Gifts : Holds(j, h) => h = g /\ Fits(j, row[g])
      BY <2>2, <3>2 DEF Holds, Fits, Reassignable
    <3> HIDE DEF j
    <3> QED
      BY <1>0, <3>2, <3>3, <3>4, <3>5 DEF Owes, GiftFree
  <2> QED
    BY <1>4, <2>1, <2>2 DEF ReassignLocksGift
<1>5. CASE ReassignWrites(p)
  <2>1. g \in Gifts /\ job[p].member \in Members /\ HoldsGift(p, g)
    BY <1>0, <1>5 DEF ReassignWrites, IsAt, Sane, HoldsGift
  <2>2. CASE UNCHANGED row
    BY <1>0, <1>5, <2>2, FinishOwes DEF ReassignWrites
  <2> DEFINE r == [seen EXCEPT !.redeemer = job[p].member]
  <2>3. CASE row' = [row EXCEPT ![g] = r]
    <3>1. Consistent(seen) /\ seen.status = "redeemed"
      BY <1>0, <1>5, <1>a, <2>1 DEF ReassignWrites, IsAt
    <3>2. r \in Rows /\ Consistent(r) /\ r.status # "none"
      BY <1>0, <2>1, <3>1 DEF Rows, Consistent
    <3> HIDE DEF r
    <3> QED
      BY <1>5, <1>a, <1>b, <2>1, <2>3, <3>2, FinishOwes DEF ReassignWrites
  <2> QED
    BY <1>5, <2>2, <2>3 DEF ReassignWrites
<1>6. CASE RefundReadsMember(p)
  <2> DEFINE a == IF seen.redeemer = NoMember THEN NoAccount ELSE member[seen.redeemer]
             j == [job[p] EXCEPT !.at = "write", !.who = a]
  <2>1. a \in Accounts
    BY <1>0, AccountFacts DEF IInv, TypeOK, Rows
  <2>2. j \in Jobs /\ Sane(j) /\ j.op = "refund"
    BY <1>0, <1>6, <2>1 DEF Jobs, Places, Sane, RefundReadsMember, IsAt
  <2>3. \A h \in Gifts : ~Holds(j, h)
    BY <2>2 DEF Holds
  <2>4. job' = [job EXCEPT ![p] = j] /\ UNCHANGED row /\ row[j.gift].status # "none"
    BY <1>0, <1>6 DEF RefundReadsMember, IsAt, IInv, RefundsBought, Jobs
  <2> HIDE DEF j
  <2> QED
    BY <2>2, <2>3, <2>4, QuietOwes
<1>7. CASE RefundWrites(p)
  <2>1. g \in Gifts /\ Consistent(seen) /\ seen.status # "none"
    BY <1>0, <1>7 DEF RefundWrites, IsAt, Sane
  <2> DEFINE r == Became(seen, "refunded")
  <2>2. r \in Rows /\ r.status = "refunded" /\ r.redeemer = seen.redeemer
        /\ r.marks = seen.marks \cup {"refunded"}
    BY <1>0, RowFacts
  <2>3. Consistent(r)
    BY <2>1, <2>2 DEF Consistent
  <2>4. \A q \in Procs : ~HoldsGift(q, g)
    BY <1>7 DEF RefundWrites, GiftFree
  <2>5. row' = [row EXCEPT ![g] = r] /\ Finish(p)
    BY <1>7 DEF RefundWrites
  <2> HIDE DEF r
  <2> QED
    BY <1>b, <2>1, <2>2, <2>3, <2>4, <2>5, FinishOwes
<1>8. CASE ConsumeWrites(p)
  <2>1. g \in Gifts /\ \A q \in Procs : ~HoldsGift(q, g)
    BY <1>0, <1>8 DEF ConsumeWrites, IsAt, Sane, GiftFree
  <2>2. CASE UNCHANGED row
    BY <1>0, <1>8, <2>2, FinishOwes DEF ConsumeWrites
  <2> DEFINE r == Became(row[g], "consumed")
  <2>3. CASE row[g].status = "redeemed" /\ row' = [row EXCEPT ![g] = r]
    <3>1. r \in Rows /\ r.status = "consumed" /\ r.redeemer = row[g].redeemer
          /\ r.marks = row[g].marks \cup {"consumed"}
      BY <1>0, <2>1, RowFacts
    <3>2. Consistent(r)
      BY <1>0, <2>1, <2>3, <3>1 DEF Consistent
    <3> HIDE DEF r
    <3> QED
      BY <1>8, <1>b, <2>1, <2>3, <3>1, <3>2, FinishOwes DEF ConsumeWrites
  <2> QED
    BY <1>8, <2>2, <2>3 DEF ConsumeWrites
<1>9. CASE JobStarts(p)
  <2>1. PICK op \in {"clean", "expire", "remind"} :
          Begin(p, [Idle EXCEPT !.op = op, !.at = "next", !.todo = DueTo(op)])
    BY <1>9 DEF JobStarts
  <2> DEFINE j == [Idle EXCEPT !.op = op, !.at = "next", !.todo = DueTo(op)]
  <2>2. DueTo(op) \in SUBSET Gifts
    BY DEF DueTo
  <2>3. j \in Jobs
    BY <1>0, <2>2 DEF Jobs, Ops, Places
  <2>4. Sane(j) /\ j.op # "refund" /\ \A h \in Gifts : ~Holds(j, h)
    BY DEF Sane, Holds, Idle
  <2>5. job' = [job EXCEPT ![p] = j] /\ UNCHANGED row
    BY <1>9, <2>1 DEF JobStarts, Begin
  <2> QED
    BY <2>3, <2>4, <2>5, QuietOwes
<1>10. CASE \E h \in Gifts : JobLocksGift(p, h)
  <2>1. PICK h \in Gifts : JobLocksGift(p, h)
    BY <1>10
  <2>2. CASE GoesOn(p, job[p].todo \ {h}) /\ UNCHANGED row
    <3>1. job[p].todo \ {h} \in SUBSET Gifts
      BY <1>0 DEF Jobs
    <3> QED
      BY <2>1, <2>2, <3>1, GoesOnFacts, QuietOwes DEF JobLocksGift
  <2> DEFINE j == [job[p] EXCEPT !.at = "member", !.gift = h, !.seen = row[h],
                                 !.todo = job[p].todo \ {h}]
  <2>3. CASE StillDue(job[p].op, row[h]) /\ job' = [job EXCEPT ![p] = j]
    <3>1. job[p].op \in {"clean", "remind"} /\ UNCHANGED row /\ GiftFree(h)
      BY <2>1 DEF JobLocksGift
    <3>2. j \in Jobs /\ Sane(j) /\ j.gift = h /\ j.op = job[p].op /\ j.seen = row[h]
      BY <1>0, <3>1 DEF Jobs, Places, Sane
    <3>3. \A k \in Gifts : Holds(j, k) => k = h /\ Fits(j, row[h])
      BY <2>3, <3>1, <3>2 DEF Holds, Fits, StillDue
    <3> HIDE DEF j
    <3> QED
      BY <1>0, <2>3, <3>1, <3>2, <3>3 DEF Owes, GiftFree
  <2>4. UNCHANGED row
    BY <2>1 DEF JobLocksGift
  <2>5. \/ StillDue(job[p].op, row[h]) /\ job' = [job EXCEPT ![p] = j]
        \/ GoesOn(p, job[p].todo \ {h})
    BY <1>0, <2>1 DEF JobLocksGift
  <2> HIDE DEF j
  <2> QED
    BY <2>2, <2>3, <2>4, <2>5
<1>11. CASE CleanWrites(p)
  <2>1. g \in Gifts /\ HoldsGift(p, g) /\ job[p].todo \in SUBSET Gifts
    BY <1>0, <1>11 DEF CleanWrites, IsAt, Sane, HoldsGift, Jobs
  <2> DEFINE r == Became(seen, "consumed")
  <2>2. seen.status = "redeemed" /\ Consistent(seen)
    BY <1>0, <1>11, <1>a, <2>1 DEF CleanWrites, IsAt
  <2>3. r \in Rows /\ r.status = "consumed" /\ r.redeemer = seen.redeemer
        /\ r.marks = seen.marks \cup {"consumed"}
    BY <1>0, RowFacts
  <2>4. Consistent(r)
    BY <2>2, <2>3 DEF Consistent
  <2>5. row' = [row EXCEPT ![g] = r] /\ GoesOn(p, job[p].todo) /\ job[p].op = "clean"
    BY <1>11 DEF CleanWrites, IsAt
  <2>6. PICK j \in Jobs : /\ Sane(j) /\ \A h \in Gifts : ~Holds(j, h)
                          /\ j.op # "refund"
                          /\ job' = [job EXCEPT ![p] = j]
    BY <2>1, <2>5, GoesOnFacts
  <2> HIDE DEF r
  <2> QED
    BY <1>a, <1>b, <2>1, <2>3, <2>4, <2>5, <2>6 DEF Owes
<1>12. CASE \E h \in Gifts : ExpireWrites(p, h)
  <2>1. PICK h \in Gifts : ExpireWrites(p, h)
    BY <1>12
  <2>2. job[p].todo \ {h} \in SUBSET Gifts
    BY <1>0 DEF Jobs
  <2>3. /\ GoesOn(p, job[p].todo \ {h}) /\ job[p].op = "expire"
        /\ \A q \in Procs : ~HoldsGift(q, h)
    BY <2>1 DEF ExpireWrites, IsAt, GiftFree
  <2>4. PICK j \in Jobs : /\ Sane(j) /\ \A k \in Gifts : ~Holds(j, k)
                          /\ j.op # "refund"
                          /\ job' = [job EXCEPT ![p] = j]
    BY <2>2, <2>3, GoesOnFacts
  <2>5. CASE UNCHANGED row
    BY <2>4, <2>5, QuietOwes
  <2> DEFINE r == Became(row[h], "expired")
  <2>6. CASE row[h].status = "purchased" /\ row' = [row EXCEPT ![h] = r]
    <3>1. r \in Rows /\ r.status = "expired" /\ r.redeemer = row[h].redeemer
          /\ r.marks = row[h].marks \cup {"expired"}
      BY <1>0, RowFacts
    <3>2. Consistent(r)
      BY <1>0, <2>6, <3>1 DEF Consistent
    <3> HIDE DEF r
    <3> QED
      BY <1>b, <2>3, <2>4, <2>6, <3>1, <3>2 DEF Owes
  <2> QED
    BY <2>1, <2>5, <2>6 DEF ExpireWrites
<1>13. CASE RemindWrites(p)
  <2>1. g \in Gifts /\ HoldsGift(p, g) /\ job[p].todo \in SUBSET Gifts
        /\ job[p].op = "remind"
    BY <1>0, <1>13 DEF RemindWrites, IsAt, Sane, HoldsGift, Jobs
  <2> DEFINE r == [seen EXCEPT !.marks = seen.marks \cup {"reminded"}]
  <2>2. seen.status = "redeemed" /\ Consistent(seen)
    BY <1>0, <1>a, <2>1
  <2>3. r \in Rows /\ r.status = "redeemed" /\ r.redeemer = seen.redeemer
        /\ r.marks = seen.marks \cup {"reminded"}
    BY <1>0, <2>2 DEF Rows, Marks
  <2>4. Consistent(r)
    BY <2>2, <2>3 DEF Consistent
  <2>5. row' = [row EXCEPT ![g] = r]
    BY <1>13 DEF RemindWrites
  <2>6. PICK j \in Jobs : /\ Sane(j) /\ \A h \in Gifts : ~Holds(j, h)
                          /\ j.op # "refund"
                          /\ job' = [job EXCEPT ![p] = j]
    <3>1. CASE GoesOn(p, job[p].todo)
      BY <2>1, <3>1, GoesOnFacts
    <3>2. CASE Goto(p, "send")
      <4> DEFINE j == [job[p] EXCEPT !.at = "send"]
      <4>1. j \in Jobs /\ Sane(j) /\ j.at = "send" /\ j.op = "remind"
        BY <1>0, <2>1 DEF Jobs, Places, Sane
      <4>2. job' = [job EXCEPT ![p] = j] /\ \A h \in Gifts : ~Holds(j, h)
        BY <1>0, <3>2, <4>1 DEF Goto, Holds
      <4> HIDE DEF j
      <4> QED
        BY <4>1, <4>2
    <3> QED
      BY <1>13, <3>1, <3>2 DEF RemindWrites
  <2> HIDE DEF r
  <2> QED
    BY <1>a, <1>b, <2>1, <2>3, <2>4, <2>5, <2>6 DEF Owes
<1>14. CASE RemindSends(p)
  <2>1. job[p].todo \in SUBSET Gifts
    BY <1>0 DEF Jobs
  <2> QED
    BY <1>14, <2>1, GoesOnFacts, QuietOwes DEF RemindSends, IsAt
<1>15. CASE Aborts(p)
  BY <1>0, <1>15, FinishOwes DEF Aborts
<1> QED
  BY <1>1, <1>2, <1>3, <1>4, <1>5, <1>6, <1>7, <1>8, <1>9, <1>10, <1>11, <1>12,
     <1>13, <1>14, <1>15
  DEF Handler

\* Everything but the rows and the handlers.
Others ==
  /\ member \in [Members -> Accounts]
  /\ clock \in [Gifts -> {"early", "soon", "over"}]
  /\ activated \subseteq Members
  /\ mails \in [Gifts -> [confirmed : Nat, reminded : Nat]]
  /\ stray \subseteq Members
  /\ bounds \in [plans : 0..MaxPlans, deletes : 0..MaxDeletes]

LEMMA OthersTyped ==
  ASSUME IInv, NEW p \in Procs, Handler(p) \/ Request(p)
  PROVE  Others'
<1> USE DEF Rest, NothingWritten
<1> DEFINE g == job[p].gift
           seen == job[p].seen
<1>0. /\ Others /\ job[p] \in Jobs /\ Sane(job[p])
      /\ seen \in Rows /\ job[p].who \in Accounts
  BY DEF IInv, TypeOK, Others, JobsSane, Jobs
<1>1. \A m \in Members : \A h \in Gifts : GiftGiven(m, h) \in Accounts
  BY <1>0, AccountFacts DEF GiftGiven, Others
<1>2. \A m \in Members : \A a \in Accounts : GiftTaken(m, a) \in Accounts
  <2>1. {} \in Products
    BY DEF Products
  <2> QED
    BY <1>0, <2>1, AccountFacts DEF GiftTaken, Others
<1>3. CASE Request(p)
  <2>1. /\ UNCHANGED <<member, clock, mails, stray, bounds>>
        /\ activated' \subseteq activated
    BY <1>3 DEF Request, PurchaseStarts, RefundReads, RedeemLocksMember,
                SignupLocksGift, ReassignStarts, ActivationStarts
  <2> QED
    BY <1>0, <2>1 DEF Others
<1>4. CASE PurchaseWrites(p)
  <2>1. g \in Gifts
    BY <1>0, <1>4 DEF PurchaseWrites, IsAt, Sane
  <2>2. mails' \in [Gifts -> [confirmed : Nat, reminded : Nat]]
    BY <1>0, <1>4, <2>1 DEF PurchaseWrites, Others
  <2> QED
    BY <1>0, <1>4, <2>2 DEF PurchaseWrites, Others
<1>5. CASE RedeemWrites(p)
  <2>1. g \in Gifts /\ job[p].member \in Members
    BY <1>0, <1>5 DEF RedeemWrites, Sane
  <2>2. GiftGiven(job[p].member, g) \in Accounts
    BY <1>1, <2>1
  <2> QED
    BY <1>0, <1>5, <2>1, <2>2 DEF RedeemWrites, Others
<1>6. CASE ReassignWrites(p)
  <2>1. g \in Gifts /\ job[p].member \in Members
    BY <1>0, <1>6 DEF ReassignWrites, IsAt, Sane
  <2>2. GiftGiven(job[p].member, g) \in Accounts
    BY <1>1, <2>1
  <2> QED
    BY <1>0, <1>6, <2>1, <2>2 DEF ReassignWrites, Others
<1>7. CASE RefundWrites(p)
  <2>1. seen.redeemer # NoMember => seen.redeemer \in Members
    BY <1>0 DEF Rows
  <2>2. member' \in [Members -> Accounts]
    BY <1>0, <1>2, <1>7, <2>1 DEF RefundWrites, Others
  <2> QED
    BY <1>0, <1>7, <2>2 DEF RefundWrites, Others
<1>8. CASE ConsumeWrites(p)
  BY <1>0, <1>8 DEF ConsumeWrites, Others
<1>9. CASE CleanWrites(p)
  <2>1. seen.redeemer # NoMember => seen.redeemer \in Members
    BY <1>0 DEF Rows
  <2>2. \A m \in Members : GiftTaken(m, member[m]) \in Accounts
    BY <1>0, <1>2 DEF Others
  <2>3. member' \in [Members -> Accounts]
    BY <1>0, <1>9, <2>1, <2>2 DEF CleanWrites, Others
  <2> QED
    BY <1>0, <1>9, <2>3 DEF CleanWrites, Others
<1>10. CASE RemindSends(p)
  <2>1. g \in Gifts
    BY <1>0, <1>10 DEF RemindSends, IsAt, Sane
  <2>2. mails' \in [Gifts -> [confirmed : Nat, reminded : Nat]]
    BY <1>0, <1>10, <2>1 DEF RemindSends, Others
  <2> QED
    BY <1>0, <1>10, <2>2 DEF RemindSends, Others
<1>11. CASE \/ RedeemLocksGift(p) \/ ReassignLocksGift(p) \/ RefundReadsMember(p)
            \/ JobStarts(p) \/ RemindWrites(p) \/ Aborts(p)
            \/ \E h \in Gifts : JobLocksGift(p, h) \/ ExpireWrites(p, h)
  <2>1. UNCHANGED <<member, clock, activated, mails, stray, bounds>>
    BY <1>11 DEF RedeemLocksGift, ReassignLocksGift, RefundReadsMember, JobStarts,
                 RemindWrites, Aborts, JobLocksGift, ExpireWrites
  <2> QED
    BY <1>0, <2>1 DEF Others
<1> QED
  BY <1>3, <1>4, <1>5, <1>6, <1>7, <1>8, <1>9, <1>10, <1>11 DEF Handler

\* A member joins, is deleted, or is told of by Stripe.
LEMMA AccountKeeps ==
  ASSUME IInv, NEW m \in Members, Account(m)
  PROVE  IInv'
<1> USE GiftAssumption
<1>0. /\ Others /\ row \in [Gifts -> Rows] /\ \A g \in Gifts : Consistent(row[g])
      /\ job \in [Procs -> Jobs]
      /\ JobsSane /\ LocksExclude /\ SeenIsRow /\ RefundsBought
  BY DEF IInv, TypeOK, Others
<1>1. ASSUME UNCHANGED row, UNCHANGED job, Others' PROVE IInv'
  BY <1>0, <1>1 DEF IInv, TypeOK, Others, JobsSane, LocksExclude, SeenIsRow,
       RefundsBought, HoldsGift
<1>2. CASE Joins(m)
  <2>1. member' \in [Members -> Accounts]
    BY <1>0, <1>2, AccountFacts DEF Joins, Others
  <2> QED
    BY <1>0, <1>1, <1>2, <2>1 DEF Joins, Others
<1>3. CASE LinkActive(m)
  <2> DEFINE known == member[m].plan = "active"
             kept == {pr \in member[m].products : ~known \/ pr[1] # PlanTier}
             products == IF PlanTier \in TierSet(kept) THEN kept
                         ELSE kept \cup {<<PlanTier, NoGift>>}
  <2>1. products \in Products
    BY <1>0 DEF Others, Accounts, Products
  <2>2. member' = [member EXCEPT ![m] =
                     [status |-> "paid", plan |-> "active", products |-> products]]
    BY <1>3 DEF LinkActive
  <2> HIDE DEF products
  <2>3. member' \in [Members -> Accounts]
    BY <1>0, <2>1, <2>2 DEF Others, Accounts
  <2>4. bounds' \in [plans : 0..MaxPlans, deletes : 0..MaxDeletes]
    BY <1>0, <1>3 DEF LinkActive, Others
  <2> QED
    BY <1>0, <1>1, <1>3, <2>3, <2>4 DEF LinkActive, Others
<1>4. CASE LinkEnded(m)
  <2> DEFINE left == {pr \in member[m].products : pr[1] # PlanTier}
  <2>1. left \in Products
    BY <1>0 DEF Others, Accounts, Products
  <2>2. member' = [member EXCEPT ![m] =
                     [status |-> IF left = {} THEN "free" ELSE "comped",
                      plan |-> "ended", products |-> left]]
    BY <1>4 DEF LinkEnded
  <2> HIDE DEF left
  <2>3. member' \in [Members -> Accounts]
    BY <1>0, <2>1, <2>2 DEF Others, Accounts
  <2> QED
    BY <1>0, <1>1, <1>4, <2>3 DEF LinkEnded, Others
<1>5. CASE EventLost(m)
  BY <1>0, <1>1, <1>5 DEF EventLost, Others
<1>6. CASE Deleted(m)
  <2>1. member' \in [Members -> Accounts]
    BY <1>0, <1>6, AccountFacts DEF Deleted, Others
  <2>2. bounds' \in [plans : 0..MaxPlans, deletes : 0..MaxDeletes]
    BY <1>0, <1>6 DEF Deleted, Others
  <2>3. \A g \in Gifts : row'[g] = IF row[g].redeemer = m
                                   THEN [row[g] EXCEPT !.redeemer = NoMember] ELSE row[g]
    BY <1>6 DEF Deleted
  <2>4. row' \in [Gifts -> Rows]
    BY <1>0, <1>6 DEF Deleted, Rows
  <2>5. ASSUME NEW g \in Gifts PROVE Consistent(row'[g])
    <3>1. CASE row'[g] = row[g]
      BY <1>0, <3>1
    <3>2. CASE row'[g] = [row[g] EXCEPT !.redeemer = NoMember]
      <4>1. /\ row'[g].status = row[g].status /\ row'[g].marks = row[g].marks
            /\ row'[g].redeemer = NoMember /\ Consistent(row[g])
        BY <1>0, <3>2 DEF Rows
      <4> QED
        BY <4>1 DEF Consistent
    <3> QED
      BY <2>3, <3>1, <3>2
  <2>6. job' = job /\ UNCHANGED <<clock, activated, mails, stray>>
    BY <1>6 DEF Deleted
  <2>7. SeenIsRow'
    <3> SUFFICES ASSUME NEW p \in Procs, NEW g \in Gifts, HoldsGift(p, g)
                 PROVE  row'[g] = row[g]
      BY <1>0, <2>6 DEF SeenIsRow, HoldsGift
    <3>1. row[g].redeemer # m
      BY <1>6 DEF Deleted, GiftFree
    <3> QED
      BY <2>3, <3>1
  <2>9. RefundsBought'
    BY <1>0, <2>3, <2>4, <2>6 DEF RefundsBought, JobsSane, Sane, Rows
  <2>8. JobsSane' /\ LocksExclude'
    BY <1>0, <2>6 DEF JobsSane, LocksExclude, HoldsGift
  <2> QED
    BY <1>0, <2>1, <2>2, <2>4, <2>5, <2>6, <2>7, <2>8, <2>9 DEF IInv, TypeOK, Others
<1> QED
  BY <1>2, <1>3, <1>4, <1>5, <1>6 DEF Account

\* The sweep of expired products, and time.
LEMMA SweepsAndTicksKeep ==
  ASSUME IInv, Sweeps \/ \E g \in Gifts : Tick(g)
  PROVE  IInv'
<1>0. Others /\ job \in [Procs -> Jobs]
  BY DEF IInv, TypeOK, Others
<1>1. ASSUME UNCHANGED row, UNCHANGED job, Others' PROVE IInv'
  BY <1>1 DEF IInv, TypeOK, Others, JobsSane, LocksExclude, SeenIsRow,
       RefundsBought, HoldsGift
<1>2. CASE Sweeps
  <2>1. ASSUME NEW m \in Members
        PROVE  member'[m] \in Accounts
    <3>1. member[m].products \ Expired \in Products
      BY <1>0 DEF Others, Accounts, Products
    <3>2. \/ member'[m] = member[m]
          \/ member'[m] = [member[m] EXCEPT !.products = member[m].products \ Expired,
               !.status = IF member[m].status = "comped" THEN "free"
                          ELSE member[m].status]
      BY <1>2 DEF Sweeps
    <3> QED
      BY <1>0, <3>1, <3>2 DEF Others, Accounts
  <2>2. member' \in [Members -> Accounts]
    BY <1>2, <2>1 DEF Sweeps
  <2> QED
    BY <1>0, <1>1, <1>2, <2>2 DEF Sweeps, Others
<1>3. CASE \E g \in Gifts : Tick(g)
  BY <1>0, <1>1, <1>3 DEF Tick, Others
<1> QED
  BY <1>2, <1>3

-----------------------------------------------------------------------------
LEMMA InitIInv == Init => IInv
<1> SUFFICES ASSUME Init PROVE IInv
  OBVIOUS
<1>1. TypeOK
  <2>0. /\ Absent \in Rows /\ Consistent(Absent) /\ Idle \in Jobs
        /\ NoAccount \in Accounts /\ FreeAccount \in Accounts
    BY RowFacts, AccountFacts, IdleFacts
  <2>a. \A g \in Gifts : row[g] = Absent
    BY DEF Init
  <2>1. /\ row \in [Gifts -> Rows] /\ \A g \in Gifts : Consistent(row[g])
        /\ job \in [Procs -> Jobs] /\ member \in [Members -> Accounts]
    BY <2>0, <2>a DEF Init
  <2>2. bounds \in [plans : 0..MaxPlans, deletes : 0..MaxDeletes]
    BY GiftAssumption DEF Init
  <2>3. mails \in [Gifts -> [confirmed : Nat, reminded : Nat]]
    BY DEF Init
  <2>4. clock \in [Gifts -> {"early", "soon", "over"}] /\ activated = {} /\ stray = {}
    BY DEF Init
  <2> QED
    BY <2>1, <2>2, <2>3, <2>4 DEF TypeOK
<1>2. \A p \in Procs, g \in Gifts : ~HoldsGift(p, g)
  BY DEF Init, HoldsGift, Idle
<1> QED
  BY <1>1, <1>2, IdleFacts
  DEF Init, IInv, JobsSane, LocksExclude, SeenIsRow, RefundsBought, Idle

LEMMA NextIInv == IInv /\ [Next]_vars => IInv'
<1> SUFFICES ASSUME IInv, [Next]_vars PROVE IInv'
  OBVIOUS
<1>1. ASSUME NEW p \in Procs, Handler(p) \/ Request(p) PROVE IInv'
  <2>1. PICK j : Owes(p, j)
    BY <1>1, HandlerOwes, RequestOwes
  <2>2. Others'
    BY <1>1, OthersTyped
  <2> QED
    BY <2>1, <2>2, HandlerStep DEF IInv, TypeOK, Others
<1>2. CASE UNCHANGED vars
  BY <1>2 DEF vars, IInv, TypeOK, JobsSane, LocksExclude, SeenIsRow,
       RefundsBought, HoldsGift
<1> QED
  BY <1>1, <1>2, AccountKeeps, SweepsAndTicksKeep DEF Next

\* Types hold, and every row tells one story, in every reachable state.
THEOREM TypeCorrect == Spec => []TypeOK
<1>1. IInv => TypeOK
  BY DEF IInv
<1> QED
  BY <1>1, InitIInv, NextIInv, PTL DEF Spec

-----------------------------------------------------------------------------
(* GiftLifecycle implements GiftPromise: whoever writes a row holds it or  *)
(* finds it free, so the row changes from what SeenIsRow says to what is   *)
(* written.                                                                *)

\* The state and the holder of a gift, told from its row.
LEMMA RowsTold ==
  \A r \in Rows :
    /\ r.status = "none" => StateOf(r) = "none" /\ HolderOf(r) = NoMember
    /\ r.status = "purchased" => StateOf(r) = "open" /\ HolderOf(r) = NoMember
    /\ r.status = "redeemed" => StateOf(r) = "held" /\ HolderOf(r) = r.redeemer
    /\ r.status \in {"consumed", "expired", "refunded"} =>
         StateOf(r) = "over" /\ HolderOf(r) = NoMember
BY DEF StateOf, HolderOf

LEMMA GiftTold ==
  ASSUME row \in [Gifts -> Rows], NEW h \in Gifts
  PROVE  /\ row[h].status = "none" =>
              StateOfGifts[h] = "none" /\ HolderOfGifts[h] = NoMember
         /\ row[h].status = "purchased" =>
              StateOfGifts[h] = "open" /\ HolderOfGifts[h] = NoMember
         /\ row[h].status = "redeemed" =>
              StateOfGifts[h] = "held" /\ HolderOfGifts[h] = row[h].redeemer
         /\ row[h].status \in {"consumed", "expired", "refunded"} =>
              StateOfGifts[h] = "over" /\ HolderOfGifts[h] = NoMember
<1>1. StateOfGifts[h] = StateOf(row[h]) /\ HolderOfGifts[h] = HolderOf(row[h])
  BY DEF StateOfGifts, HolderOfGifts
<1> QED
  BY <1>1, RowsTold

\* One row changes, and so do the state and the holder of that gift.
LEMMA OneRow ==
  ASSUME row \in [Gifts -> Rows], NEW h \in Gifts, NEW r \in Rows,
         row' = [row EXCEPT ![h] = r]
  PROVE  /\ r.status = "purchased" =>
              /\ StateOfGifts' = [StateOfGifts EXCEPT ![h] = "open"]
              /\ HolderOfGifts' = [HolderOfGifts EXCEPT ![h] = NoMember]
         /\ r.status = "redeemed" =>
              /\ StateOfGifts' = [StateOfGifts EXCEPT ![h] = "held"]
              /\ HolderOfGifts' = [HolderOfGifts EXCEPT ![h] = r.redeemer]
         /\ r.status \in {"consumed", "expired", "refunded"} =>
              /\ StateOfGifts' = [StateOfGifts EXCEPT ![h] = "over"]
              /\ HolderOfGifts' = [HolderOfGifts EXCEPT ![h] = NoMember]
<1>1. \A k \in Gifts : row'[k] = IF k = h THEN r ELSE row[k]
  OBVIOUS
<1>2. StateOfGifts' = [k \in Gifts |-> StateOf(row'[k])]
  BY DEF StateOfGifts, StateOf
<1>3. HolderOfGifts' = [k \in Gifts |-> HolderOf(row'[k])]
  BY DEF HolderOfGifts, HolderOf
<1>4. /\ StateOfGifts' = [StateOfGifts EXCEPT ![h] = StateOf(r)]
      /\ HolderOfGifts' = [HolderOfGifts EXCEPT ![h] = HolderOf(r)]
  BY <1>1, <1>2, <1>3 DEF StateOfGifts, HolderOfGifts
<1> QED
  BY <1>4, RowsTold

\* A gift that has been bought ends, or had ended before.
LEMMA EndsWell ==
  ASSUME IInv, NEW h \in Gifts, NEW r \in Rows, row[h].status # "none",
         r.status \in {"consumed", "expired", "refunded"},
         row' = [row EXCEPT ![h] = r]
  PROVE  [Promise!Next]_(Promise!promise)
<1>1. row \in [Gifts -> Rows]
  BY DEF IInv, TypeOK
<1>2. /\ StateOfGifts' = [StateOfGifts EXCEPT ![h] = "over"]
      /\ HolderOfGifts' = [HolderOfGifts EXCEPT ![h] = NoMember]
  BY <1>1, OneRow
<1>3. CASE row[h].status \in {"purchased", "redeemed"}
  <2>1. Promise!End(h)
    BY <1>2, <1>3, <1>1, GiftTold DEF Promise!End
  <2> QED
    BY <2>1 DEF Promise!Next
<1>4. CASE row[h].status \in {"consumed", "expired", "refunded"}
  <2>1. StateOfGifts[h] = "over" /\ HolderOfGifts[h] = NoMember
    BY <1>4, <1>1, GiftTold
  <2>2. StateOfGifts' = StateOfGifts /\ HolderOfGifts' = HolderOfGifts
    BY <1>2, <2>1 DEF StateOfGifts, HolderOfGifts
  <2> QED
    BY <2>2 DEF Promise!promise
<1> QED
  BY <1>1, <1>3, <1>4 DEF Rows, Statuses

\* A step that leaves the rows alone changes nothing that was promised.
LEMMA RowsKept == ASSUME UNCHANGED row PROVE [Promise!Next]_(Promise!promise)
BY DEF StateOfGifts, HolderOfGifts, StateOf, HolderOf, Promise!promise

LEMMA HandlerKeepsPromise ==
  ASSUME IInv, NEW p \in Procs, Handler(p)
  PROVE  [Promise!Next]_(Promise!promise)
<1> USE DEF Rest, NothingWritten
<1> DEFINE g == job[p].gift
           seen == job[p].seen
           m == job[p].member
<1>0. /\ row \in [Gifts -> Rows] /\ job[p] \in Jobs /\ Sane(job[p]) /\ seen \in Rows
  BY DEF IInv, TypeOK, JobsSane, Jobs
<1>1. CASE PurchaseWrites(p)
  <2>1. g \in Gifts
    BY <1>0, <1>1 DEF PurchaseWrites, IsAt, Sane
  <2>2. CASE row[g].status = "none" /\ row' = [row EXCEPT ![g] = Bought]
    <3>1. /\ StateOfGifts' = [StateOfGifts EXCEPT ![g] = "open"]
          /\ HolderOfGifts' = [HolderOfGifts EXCEPT ![g] = NoMember]
      BY <1>0, <2>1, <2>2, OneRow, RowFacts
    <3>2. StateOfGifts[g] = "none" /\ HolderOfGifts[g] = NoMember
      BY <2>1, <2>2, <1>0, GiftTold
    <3>3. HolderOfGifts' = HolderOfGifts
      BY <2>1, <3>1, <3>2 DEF HolderOfGifts
    <3>4. Promise!Buy(g)
      BY <3>1, <3>2, <3>3 DEF Promise!Buy
    <3> QED
      BY <2>1, <3>4 DEF Promise!Next
  <2> QED
    BY <1>1, <2>2, RowsKept DEF PurchaseWrites
<1>2. CASE RedeemWrites(p)
  <2> DEFINE r == [Became(seen, "redeemed") EXCEPT !.redeemer = m]
  <2>1. g \in Gifts /\ m \in Members /\ HoldsGift(p, g)
    BY <1>0, <1>2 DEF RedeemWrites, Sane, HoldsGift
  <2>2. CASE row' = [row EXCEPT ![g] = r]
    <3>1. row[g].status = "purchased"
      BY <1>2, <2>1 DEF IInv, SeenIsRow, RedeemWrites
    <3>2. r \in Rows /\ r.status = "redeemed" /\ r.redeemer = m
      BY <1>0, <2>1, RowFacts DEF Rows
    <3> HIDE DEF r
    <3>3. /\ StateOfGifts' = [StateOfGifts EXCEPT ![g] = "held"]
          /\ HolderOfGifts' = [HolderOfGifts EXCEPT ![g] = m]
      <4>1. /\ StateOfGifts' = [StateOfGifts EXCEPT ![g] = "held"]
            /\ HolderOfGifts' = [HolderOfGifts EXCEPT ![g] = r.redeemer]
        BY <1>0, <2>1, <2>2, <3>2, OneRow
      <4> QED
        BY <3>2, <4>1
    <3>4. Promise!Redeem(g, m)
      BY <2>1, <3>1, <3>3, <1>0, GiftTold DEF Promise!Redeem
    <3> QED
      BY <2>1, <3>4 DEF Promise!Next
  <2> QED
    BY <1>2, <2>2, RowsKept DEF RedeemWrites
<1>3. CASE ReassignWrites(p)
  <2> DEFINE r == [seen EXCEPT !.redeemer = m]
  <2>1. g \in Gifts /\ m \in Members /\ HoldsGift(p, g)
    BY <1>0, <1>3 DEF ReassignWrites, IsAt, Sane, HoldsGift
  <2>2. CASE row' = [row EXCEPT ![g] = r]
    <3>1. seen = row[g] /\ row[g].status = "redeemed" /\ row[g].redeemer = NoMember
      BY <1>3, <2>1 DEF IInv, SeenIsRow, ReassignWrites, IsAt
    <3>2. r \in Rows /\ r.status = "redeemed" /\ r.redeemer = m
      BY <1>0, <2>1, <3>1 DEF Rows
    <3> HIDE DEF r
    <3>3. /\ StateOfGifts' = [StateOfGifts EXCEPT ![g] = "held"]
          /\ HolderOfGifts' = [HolderOfGifts EXCEPT ![g] = m]
      <4>1. /\ StateOfGifts' = [StateOfGifts EXCEPT ![g] = "held"]
            /\ HolderOfGifts' = [HolderOfGifts EXCEPT ![g] = r.redeemer]
        BY <1>0, <2>1, <2>2, <3>2, OneRow
      <4> QED
        BY <3>2, <4>1
    <3>4. StateOfGifts[g] = "held" /\ HolderOfGifts[g] = NoMember
      BY <2>1, <3>1, <1>0, GiftTold
    <3>5. StateOfGifts' = StateOfGifts
      BY <3>3, <3>4 DEF StateOfGifts
    <3>6. Promise!PassOn(g, m)
      BY <3>3, <3>4, <3>5 DEF Promise!PassOn
    <3> QED
      BY <2>1, <3>6 DEF Promise!Next
  <2> QED
    BY <1>3, <2>2, RowsKept DEF ReassignWrites
<1>4. CASE RefundWrites(p)
  <2>1. g \in Gifts /\ row[g].status # "none"
    BY <1>0, <1>4 DEF RefundWrites, IsAt, Sane, IInv, RefundsBought
  <2>2. Became(seen, "refunded") \in Rows /\ Became(seen, "refunded").status = "refunded"
    BY <1>0, RowFacts
  <2> QED
    BY <1>4, <2>1, <2>2, EndsWell DEF RefundWrites
<1>5. CASE ConsumeWrites(p)
  <2>1. g \in Gifts
    BY <1>0, <1>5 DEF ConsumeWrites, IsAt, Sane
  <2>2. Became(row[g], "consumed") \in Rows /\ Became(row[g], "consumed").status = "consumed"
    BY <1>0, <2>1, RowFacts
  <2> QED
    BY <1>5, <2>1, <2>2, EndsWell, RowsKept DEF ConsumeWrites
<1>6. CASE CleanWrites(p)
  <2>1. g \in Gifts /\ HoldsGift(p, g)
    BY <1>0, <1>6 DEF CleanWrites, IsAt, Sane, HoldsGift
  <2>2. row[g].status = "redeemed"
    BY <1>6, <2>1 DEF IInv, SeenIsRow, CleanWrites, IsAt
  <2>3. Became(seen, "consumed") \in Rows /\ Became(seen, "consumed").status = "consumed"
    BY <1>0, RowFacts
  <2> QED
    BY <1>6, <2>1, <2>2, <2>3, EndsWell DEF CleanWrites
<1>7. CASE \E h \in Gifts : ExpireWrites(p, h)
  <2>1. PICK h \in Gifts : ExpireWrites(p, h)
    BY <1>7
  <2>2. Became(row[h], "expired") \in Rows /\ Became(row[h], "expired").status = "expired"
    BY <1>0, RowFacts
  <2> QED
    BY <2>1, <2>2, EndsWell, RowsKept DEF ExpireWrites
<1>8. CASE RemindWrites(p)
  <2> DEFINE r == [seen EXCEPT !.marks = seen.marks \cup {"reminded"}]
  <2>1. g \in Gifts /\ HoldsGift(p, g)
    BY <1>0, <1>8 DEF RemindWrites, IsAt, Sane, HoldsGift
  <2>2. seen = row[g] /\ row[g].status = "redeemed"
    BY <1>8, <2>1 DEF IInv, SeenIsRow, RemindWrites, IsAt
  <2>3. r \in Rows /\ r.status = "redeemed" /\ r.redeemer = seen.redeemer
    BY <1>0, <2>2 DEF Rows, Marks
  <2>4. row' = [row EXCEPT ![g] = r]
    BY <1>8 DEF RemindWrites
  <2> HIDE DEF r
  <2>5. /\ StateOfGifts' = [StateOfGifts EXCEPT ![g] = "held"]
        /\ HolderOfGifts' = [HolderOfGifts EXCEPT ![g] = seen.redeemer]
    <3>1. /\ StateOfGifts' = [StateOfGifts EXCEPT ![g] = "held"]
          /\ HolderOfGifts' = [HolderOfGifts EXCEPT ![g] = r.redeemer]
      BY <1>0, <2>1, <2>3, <2>4, OneRow
    <3> QED
      BY <2>3, <3>1
  <2>6. StateOfGifts[g] = "held" /\ HolderOfGifts[g] = seen.redeemer
    BY <2>1, <2>2, <1>0, GiftTold
  <2>7. StateOfGifts' = StateOfGifts /\ HolderOfGifts' = HolderOfGifts
    BY <2>5, <2>6 DEF StateOfGifts, HolderOfGifts
  <2> QED
    BY <2>7 DEF Promise!promise
<1>9. CASE \/ RedeemLocksGift(p) \/ ReassignLocksGift(p) \/ RefundReadsMember(p)
           \/ JobStarts(p) \/ RemindSends(p) \/ Aborts(p)
           \/ \E h \in Gifts : JobLocksGift(p, h)
  BY <1>9, RowsKept
  DEF RedeemLocksGift, ReassignLocksGift, RefundReadsMember, JobStarts, RemindSends,
      Aborts, JobLocksGift
<1> QED
  BY <1>1, <1>2, <1>3, <1>4, <1>5, <1>6, <1>7, <1>8, <1>9 DEF Handler

\* A member who is deleted leaves the gift to nobody.
LEMMA DeletedKeepsPromise ==
  ASSUME IInv, NEW m \in Members, Deleted(m)
  PROVE  [Promise!Next]_(Promise!promise)
<1>1. row \in [Gifts -> Rows] /\ m # NoMember
  BY GiftAssumption DEF IInv, TypeOK
<1>2. \A g \in Gifts : row'[g] = IF row[g].redeemer = m
                                 THEN [row[g] EXCEPT !.redeemer = NoMember] ELSE row[g]
  BY DEF Deleted
<1>3. \A g \in Gifts :
        /\ row'[g].status = row[g].status
        /\ row'[g].redeemer = IF row[g].redeemer = m THEN NoMember ELSE row[g].redeemer
  BY <1>1, <1>2 DEF Rows
<1>4. StateOfGifts' = StateOfGifts
  BY <1>3 DEF StateOfGifts, StateOf
<1>5. HolderOfGifts' = [g \in Gifts |-> IF HolderOfGifts[g] = m THEN NoMember
                                        ELSE HolderOfGifts[g]]
  BY <1>1, <1>3 DEF HolderOfGifts, HolderOf
<1>6. Promise!Leave(m)
  BY <1>4, <1>5 DEF Promise!Leave
<1> QED
  BY <1>6 DEF Promise!Next

\* Requests, webhooks and jobs, however many overlap, keep the promise.
THEOREM KeepsPromise == Spec => ImplementsGiftPromise
<1>1. Init => Promise!Init
  <2> SUFFICES ASSUME Init PROVE Promise!Init
    OBVIOUS
  <2>1. \A g \in Gifts : row[g].status = "none"
    BY DEF Init, Absent
  <2> QED
    BY <2>1 DEF Promise!Init, StateOfGifts, HolderOfGifts, StateOf, HolderOf
<1>2. IInv /\ [Next]_vars => [Promise!Next]_(Promise!promise)
  <2> SUFFICES ASSUME IInv, [Next]_vars PROVE [Promise!Next]_(Promise!promise)
    OBVIOUS
  <2>1. ASSUME NEW p \in Procs, Request(p) PROVE UNCHANGED row
    BY <2>1 DEF Request, PurchaseStarts, RefundReads, RedeemLocksMember,
                SignupLocksGift, ReassignStarts, ActivationStarts, NothingWritten
  <2>2. ASSUME NEW m \in Members, Joins(m) \/ LinkActive(m) \/ LinkEnded(m) \/ EventLost(m)
        PROVE  UNCHANGED row
    BY <2>2 DEF Joins, LinkActive, LinkEnded, EventLost
  <2>3. CASE Sweeps \/ \E g \in Gifts : Tick(g)
    BY <2>3, RowsKept DEF Sweeps, Tick
  <2>4. CASE UNCHANGED vars
    BY <2>4, RowsKept DEF vars
  <2> QED
    BY <2>1, <2>2, <2>3, <2>4, RowsKept, HandlerKeepsPromise, DeletedKeepsPromise
    DEF Next, Account
<1> QED
  BY <1>1, <1>2, InitIInv, NextIInv, PTL DEF Spec, ImplementsGiftPromise, Promise!Spec

-----------------------------------------------------------------------------
(* Gift members have an active gift, AccessBacked.  It needs that they     *)
(* have a product as well: memberRepository.update sets a status only when *)
(* products come or go.                                                    *)

BackedMember(m) ==
  member[m].status = "gift" => member[m].products # {} /\ ActiveGifts(m) # {}

Backed == \A m \in Members \ stray : BackedMember(m)

\* Taking away all products of somebody who has some leaves a free member;
\* giving a gift leaves a product.
LEMMA UpdateFacts ==
  /\ \A a \in Accounts : a.products # {} => Updated(a, a, {}, "free").status = "free"
  /\ \A a \in Accounts, h \in Gifts :
       Updated(a, a, GiftProducts(h), "gift").products # {}
<1>1. ASSUME NEW a \in Accounts, a.products # {}
      PROVE  Updated(a, a, {}, "free").status = "free"
  <2>1. TierSet({}) = {} /\ TierSet(a.products) # {}
    BY <1>1 DEF TierSet
  <2>2. TierSet(a.products) \ TierSet({}) # {} /\ TierSet({}) \ TierSet(a.products) = {}
    BY <2>1
  <2> QED
    BY <2>1, <2>2 DEF Updated, Accounts
<1>2. ASSUME NEW a \in Accounts, NEW h \in Gifts
      PROVE  Updated(a, a, GiftProducts(h), "gift").products # {}
  <2> DEFINE gone == TierSet(a.products) \ TierSet(GiftProducts(h))
             kept == {pr \in a.products : pr[1] \notin gone \cup TierSet(GiftProducts(h))}
  <2>1. Updated(a, a, GiftProducts(h), "gift").products = kept \cup GiftProducts(h)
    BY DEF Updated, Accounts
  <2> QED
    BY <2>1 DEF GiftProducts
<1> QED
  BY <1>1, <1>2

\* A member whose account stays and whose gifts stay, or grow, stays backed.
LEMMA StaysBacked ==
  ASSUME NEW m \in Members, BackedMember(m), member'[m] = member[m],
         \A h \in ActiveGifts(m) : row'[h].status = "redeemed" /\ row'[h].redeemer = m
  PROVE  BackedMember(m)'
BY DEF BackedMember, ActiveGifts

LEMMA HandlerKeepsBacked ==
  ASSUME IInv, Backed, NEW p \in Procs, Handler(p)
  PROVE  Backed'
<1> USE DEF Rest, NothingWritten
<1> DEFINE g == job[p].gift
           seen == job[p].seen
<1>0. /\ row \in [Gifts -> Rows] /\ member \in [Members -> Accounts]
      /\ job[p] \in Jobs /\ Sane(job[p]) /\ seen \in Rows /\ job[p].who \in Accounts
  BY DEF IInv, TypeOK, JobsSane, Jobs
<1> SUFFICES ASSUME NEW m \in Members, m \notin stray' PROVE BackedMember(m)'
  BY DEF Backed
<1>s. m \notin stray => BackedMember(m)
  BY DEF Backed
<1>1. CASE PurchaseWrites(p)
  <2>1. \A h \in ActiveGifts(m) : row'[h] = row[h]
    BY <1>0, <1>1 DEF PurchaseWrites, ActiveGifts
  <2> QED
    BY <1>1, <1>s, <2>1, StaysBacked DEF PurchaseWrites, ActiveGifts
<1>2. CASE RedeemWrites(p)
  <2> DEFINE k == job[p].member
  <2>1. g \in Gifts /\ k \in Members /\ HoldsGift(p, g)
    BY <1>0, <1>2 DEF RedeemWrites, Sane, HoldsGift
  <2>2. m \notin stray
    BY <1>2 DEF RedeemWrites
  <2>3. CASE UNCHANGED <<row, member>>
    BY <1>s, <2>2, <2>3, StaysBacked DEF ActiveGifts
  <2> DEFINE r == [Became(seen, "redeemed") EXCEPT !.redeemer = k]
  <2>4. CASE row' = [row EXCEPT ![g] = r] /\ member' = [member EXCEPT ![k] = GiftGiven(k, g)]
    <3>1. row[g].status = "purchased"
      BY <1>2, <2>1 DEF IInv, SeenIsRow, RedeemWrites
    <3>2. r.status = "redeemed" /\ r.redeemer = k
      BY <1>0, <2>1, RowFacts DEF Rows
    <3> HIDE DEF r
    <3>3. CASE m = k
      <4>1. GiftGiven(k, g).products # {}
        BY <1>0, <2>1, UpdateFacts DEF GiftGiven
      <4>2. g \in ActiveGifts(m)'
        BY <1>0, <2>1, <2>4, <3>2, <3>3 DEF ActiveGifts
      <4> QED
        BY <1>0, <2>1, <2>4, <3>3, <4>1, <4>2 DEF BackedMember
    <3>4. CASE m # k
      <4>1. \A h \in ActiveGifts(m) : row'[h] = row[h]
        BY <1>0, <2>4, <3>1 DEF ActiveGifts
      <4>2. member'[m] = member[m]
        BY <1>0, <2>4, <3>4
      <4> QED
        BY <1>s, <2>2, <4>1, <4>2, StaysBacked DEF ActiveGifts
    <3> QED
      BY <3>3, <3>4
  <2> QED
    BY <1>2, <2>3, <2>4 DEF RedeemWrites
<1>3. CASE ReassignWrites(p)
  <2> DEFINE k == job[p].member
  <2>1. g \in Gifts /\ k \in Members /\ HoldsGift(p, g)
    BY <1>0, <1>3 DEF ReassignWrites, IsAt, Sane, HoldsGift
  <2>2. m \notin stray
    BY <1>3 DEF ReassignWrites
  <2>3. CASE UNCHANGED <<row, member>>
    BY <1>s, <2>2, <2>3, StaysBacked DEF ActiveGifts
  <2> DEFINE r == [seen EXCEPT !.redeemer = k]
  <2>4. CASE row' = [row EXCEPT ![g] = r] /\ member' = [member EXCEPT ![k] = GiftGiven(k, g)]
    <3>1. seen = row[g] /\ row[g].status = "redeemed" /\ row[g].redeemer = NoMember
      BY <1>3, <2>1 DEF IInv, SeenIsRow, ReassignWrites, IsAt
    <3>2. r.status = "redeemed" /\ r.redeemer = k
      BY <1>0, <2>1, <3>1 DEF Rows
    <3> HIDE DEF r
    <3>3. CASE m = k
      <4>1. GiftGiven(k, g).products # {}
        BY <1>0, <2>1, UpdateFacts DEF GiftGiven
      <4>2. g \in ActiveGifts(m)'
        BY <1>0, <2>1, <2>4, <3>2, <3>3 DEF ActiveGifts
      <4> QED
        BY <1>0, <2>1, <2>4, <3>3, <4>1, <4>2 DEF BackedMember
    <3>4. CASE m # k
      <4>1. \A h \in ActiveGifts(m) : row'[h] = row[h]
        BY <1>0, <2>4, <3>1, GiftAssumption DEF ActiveGifts
      <4>2. member'[m] = member[m]
        BY <1>0, <2>4, <3>4
      <4> QED
        BY <1>s, <2>2, <4>1, <4>2, StaysBacked DEF ActiveGifts
    <3> QED
      BY <3>3, <3>4
  <2> QED
    BY <1>3, <2>3, <2>4 DEF ReassignWrites
\* A gift that ends for a member that loses the status with it.
<1>4. ASSUME NEW h \in Gifts, NEW r \in Rows, row' = [row EXCEPT ![h] = r],
             m \notin stray,
             \/ member'[m] = member[m]
             \/ member'[m] = GiftTaken(m, member[m]) /\ member[m].status = "gift",
             row[h].redeemer = m /\ row[h].status = "redeemed" =>
               member'[m].status # "gift" \/ member'[m] = GiftTaken(m, member[m])
      PROVE  BackedMember(m)'
  <2>1. CASE member'[m] = GiftTaken(m, member[m]) /\ member[m].status = "gift"
    <3>1. member[m] \in Accounts /\ member[m].products # {}
      BY <1>0, <1>s, <1>4, <2>1 DEF BackedMember
    <3>2. GiftTaken(m, member[m]).status = "free"
      BY <3>1, UpdateFacts DEF GiftTaken
    <3> QED
      BY <2>1, <3>2 DEF BackedMember
  <2>2. CASE member'[m].status # "gift"
    BY <2>2 DEF BackedMember
  <2>3. CASE member'[m] = member[m] /\ ~(row[h].redeemer = m /\ row[h].status = "redeemed")
    <3>1. \A k \in ActiveGifts(m) : row'[k] = row[k]
      BY <1>0, <1>4, <2>3 DEF ActiveGifts
    <3> QED
      BY <1>s, <1>4, <2>3, <3>1, StaysBacked DEF ActiveGifts
  <2>4. CASE member'[m] = member[m] /\ member'[m] = GiftTaken(m, member[m])
    <3>1. CASE member[m].status = "gift"
      BY <2>1, <2>4, <3>1
    <3> QED
      BY <2>2, <2>4, <3>1
  <2> QED
    BY <1>4, <2>1, <2>2, <2>3, <2>4
<1>5. CASE RefundWrites(p)
  <2> DEFINE k == seen.redeemer
  <2>1. g \in Gifts /\ Became(seen, "refunded") \in Rows
    BY <1>0, <1>5, RowFacts DEF RefundWrites, IsAt, Sane
  <2>2. /\ m \notin stray
        /\ ~(m = row[g].redeemer /\ row[g] # seen)
        /\ m = k => member[m] = job[p].who
    BY <1>5 DEF RefundWrites
  <2>3. row' = [row EXCEPT ![g] = Became(seen, "refunded")]
    BY <1>5 DEF RefundWrites
  <2>4. CASE /\ k # NoMember /\ job[p].who.status = "gift"
             /\ member' = [member EXCEPT ![k] = GiftTaken(k, job[p].who)]
    <3>1. CASE m = k
      <4>1. member'[m] = GiftTaken(m, member[m]) /\ member[m].status = "gift"
        BY <1>0, <2>2, <2>4, <3>1
      <4> QED
        BY <1>4, <2>1, <2>2, <2>3, <4>1
    <3>2. CASE m # k
      <4>1. member'[m] = member[m] /\ row[g].redeemer # m
        BY <1>0, <2>2, <2>4, <3>2
      <4> QED
        BY <1>4, <2>1, <2>2, <2>3, <4>1
    <3> QED
      BY <3>1, <3>2
  <2>5. CASE UNCHANGED member /\ (k # NoMember => job[p].who.status # "gift")
    <3>1. row[g].redeemer = m => member'[m].status # "gift"
      BY <2>2, <2>5, GiftAssumption
    <3> QED
      BY <1>4, <2>1, <2>2, <2>3, <2>5, <3>1
  <2> QED
    BY <1>5, <2>4, <2>5 DEF RefundWrites
<1>6. CASE ConsumeWrites(p)
  <2>1. g \in Gifts /\ Became(row[g], "consumed") \in Rows
    BY <1>0, <1>6, RowFacts DEF ConsumeWrites, IsAt, Sane
  <2>2. CASE UNCHANGED <<row, stray>>
    BY <1>6, <1>s, <2>2, StaysBacked DEF ConsumeWrites, ActiveGifts
  <2>3. CASE /\ row' = [row EXCEPT ![g] = Became(row[g], "consumed")]
             /\ stray' = stray \cup {k \in Members :
                  k = row[g].redeemer /\ member[k].status = "gift"}
    BY <1>4, <1>6, <2>1, <2>3 DEF ConsumeWrites
  <2> QED
    BY <1>6, <2>2, <2>3 DEF ConsumeWrites
<1>7. CASE CleanWrites(p)
  <2> DEFINE k == seen.redeemer
  <2>1. g \in Gifts /\ HoldsGift(p, g) /\ Became(seen, "consumed") \in Rows
    BY <1>0, <1>7, RowFacts DEF CleanWrites, IsAt, Sane, HoldsGift
  <2>2. seen = row[g]
    BY <2>1 DEF IInv, SeenIsRow
  <2>3. m \notin stray /\ row' = [row EXCEPT ![g] = Became(seen, "consumed")]
    BY <1>7 DEF CleanWrites
  <2>4. CASE /\ k # NoMember /\ member[k].status = "gift"
             /\ member' = [member EXCEPT ![k] = GiftTaken(k, member[k])]
    <3>1. CASE m = k
      BY <1>0, <1>4, <2>1, <2>3, <2>4, <3>1
    <3>2. CASE m # k
      BY <1>0, <1>4, <2>1, <2>2, <2>3, <2>4, <3>2
    <3> QED
      BY <3>1, <3>2
  <2>5. CASE UNCHANGED member /\ (k # NoMember => member[k].status # "gift")
    <3>1. row[g].redeemer = m => member'[m].status # "gift"
      BY <2>2, <2>5, GiftAssumption
    <3> QED
      BY <1>4, <2>1, <2>3, <2>5, <3>1
  <2> QED
    BY <1>7, <2>4, <2>5 DEF CleanWrites
<1>8. CASE \E h \in Gifts : ExpireWrites(p, h)
  <2>1. PICK h \in Gifts : ExpireWrites(p, h)
    BY <1>8
  <2>2. \A k \in ActiveGifts(m) : row'[k] = row[k]
    BY <1>0, <2>1 DEF ExpireWrites, ActiveGifts
  <2> QED
    BY <1>s, <2>1, <2>2, StaysBacked DEF ExpireWrites, ActiveGifts
<1>9. CASE RemindWrites(p)
  <2>1. g \in Gifts /\ HoldsGift(p, g)
    BY <1>0, <1>9 DEF RemindWrites, IsAt, Sane, HoldsGift
  <2>2. seen = row[g]
    BY <2>1 DEF IInv, SeenIsRow
  <2>3. \A k \in Gifts : row'[k].status = row[k].status /\ row'[k].redeemer = row[k].redeemer
    BY <1>0, <1>9, <2>1, <2>2 DEF RemindWrites, Rows
  <2> QED
    BY <1>9, <1>s, <2>3, StaysBacked DEF RemindWrites, ActiveGifts
<1>10. CASE \/ RedeemLocksGift(p) \/ ReassignLocksGift(p) \/ RefundReadsMember(p)
            \/ JobStarts(p) \/ RemindSends(p) \/ Aborts(p)
            \/ \E h \in Gifts : JobLocksGift(p, h)
  <2>1. UNCHANGED <<row, member, stray>>
    BY <1>10 DEF RedeemLocksGift, ReassignLocksGift, RefundReadsMember, JobStarts,
                 RemindSends, Aborts, JobLocksGift
  <2> QED
    BY <1>s, <2>1, StaysBacked DEF ActiveGifts
<1> QED
  BY <1>1, <1>2, <1>3, <1>5, <1>6, <1>7, <1>8, <1>9, <1>10 DEF Handler

\* What changes a member from outside takes the status with the gift, or
\* leaves both.
LEMMA OutsideKeepsBacked ==
  ASSUME IInv, Backed,
         \/ \E p \in Procs : Request(p)
         \/ \E k \in Members : Account(k)
         \/ Sweeps
         \/ \E g \in Gifts : Tick(g)
  PROVE  Backed'
<1>0. row \in [Gifts -> Rows] /\ member \in [Members -> Accounts]
  BY DEF IInv, TypeOK
<1> SUFFICES ASSUME NEW m \in Members, m \notin stray' PROVE BackedMember(m)'
  BY DEF Backed
<1>s. m \notin stray => BackedMember(m)
  BY DEF Backed
<1>1. ASSUME UNCHANGED row, member'[m] = member[m], m \notin stray
      PROVE  BackedMember(m)'
  BY <1>s, <1>1, StaysBacked DEF ActiveGifts
<1>2. ASSUME NEW p \in Procs, Request(p) PROVE UNCHANGED <<row, member, stray>>
  BY <1>2 DEF Request, PurchaseStarts, RefundReads, RedeemLocksMember, SignupLocksGift,
              ReassignStarts, ActivationStarts, NothingWritten, Rest
<1>3. ASSUME NEW k \in Members, Joins(k) \/ LinkActive(k) \/ LinkEnded(k) \/ EventLost(k)
      PROVE  BackedMember(m)'
  <2>1. UNCHANGED <<row, stray>>
    BY <1>3 DEF Joins, LinkActive, LinkEnded, EventLost
  <2>2. CASE member'[m] = member[m]
    BY <1>1, <2>1, <2>2
  <2>3. CASE member'[m] # member[m]
    <3>1. member'[m].status \in {"free", "paid", "comped"}
      BY <1>0, <1>3, <2>3 DEF Joins, LinkActive, LinkEnded, EventLost, FreeAccount, NoAccount
    <3> QED
      BY <3>1 DEF BackedMember
  <2> QED
    BY <2>2, <2>3
<1>4. ASSUME NEW k \in Members, Deleted(k) PROVE BackedMember(m)'
  <2>1. UNCHANGED stray
    BY <1>4 DEF Deleted
  <2>2. CASE m = k
    <3>1. member'[m].status = "absent"
      BY <1>0, <1>4, <2>2 DEF Deleted, NoAccount
    <3> QED
      BY <3>1 DEF BackedMember
  <2>3. CASE m # k
    <3>1. member'[m] = member[m] /\ \A h \in ActiveGifts(m) : row'[h] = row[h]
      BY <1>0, <1>4, <2>3 DEF Deleted, ActiveGifts
    <3> QED
      BY <1>s, <2>1, <3>1, StaysBacked DEF ActiveGifts
  <2> QED
    BY <2>2, <2>3
<1>5. CASE Sweeps
  <2>1. UNCHANGED row /\ m \notin stray
    BY <1>5 DEF Sweeps
  <2>2. CASE member'[m] = member[m]
    BY <1>1, <2>1, <2>2
  <2>3. CASE member'[m] # member[m]
    <3>1. member[m].status = "comped"
      BY <1>5, <2>3 DEF Sweeps
    <3>2. member'[m].status = "free"
      BY <1>0, <1>5, <2>3, <3>1 DEF Sweeps, Accounts
    <3> QED
      BY <3>2 DEF BackedMember
  <2> QED
    BY <2>2, <2>3
<1>6. CASE \E g \in Gifts : Tick(g)
  BY <1>1, <1>6 DEF Tick
<1> QED
  BY <1>1, <1>2, <1>3, <1>4, <1>5, <1>6 DEF Account

\* No gift member without an active gift, unless a step has acted on the
\* member without looking.
THEOREM GiftMembersAreBacked == Spec => []AccessBacked
<1>1. Init => Backed
  <2> SUFFICES ASSUME Init, NEW m \in Members PROVE BackedMember(m)
    BY DEF Backed
  <2>1. member[m].status # "gift"
    BY DEF Init, NoAccount, FreeAccount
  <2> QED
    BY <2>1 DEF BackedMember
<1>2. IInv /\ Backed /\ [Next]_vars => Backed'
  <2> SUFFICES ASSUME IInv, Backed, [Next]_vars PROVE Backed'
    OBVIOUS
  <2>1. CASE UNCHANGED vars
    BY <2>1 DEF vars, Backed, BackedMember, ActiveGifts
  <2> QED
    BY <2>1, HandlerKeepsBacked, OutsideKeepsBacked DEF Next
<1>3. Backed => AccessBacked
  BY DEF Backed, BackedMember, AccessBacked
<1> QED
  BY <1>1, <1>2, <1>3, InitIInv, NextIInv, PTL DEF Spec

=============================================================================
