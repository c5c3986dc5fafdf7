-------------------------- MODULE GiftAccess_proofs --------------------------
(***************************************************************************)
(* What GiftLifecycle promises to the members: mails that go out once,     *)
(* access as long as a gift lasts, and nothing taken from who pays.        *)
(***************************************************************************)
EXTENDS GiftLifecycle_proofs

\* How a row may change in one step.
RowBought(g) == row[g].status = "none" /\ row'[g] = Bought
RowRedeemed(g) == row[g].status = "purchased" /\ row'[g].status = "redeemed"
RowKept(g) ==
  /\ row[g].status = "redeemed" /\ row'[g].status = "redeemed"
  /\ row[g].marks \subseteq row'[g].marks
RowEnded(g) ==
  row[g].status # "none" /\ row'[g].status \in {"consumed", "expired", "refunded"}
RowLeft(g) ==
  /\ row'[g].status = row[g].status /\ row'[g].marks = row[g].marks
  /\ row'[g].redeemer = NoMember

RowStep(g) ==
  row'[g] = row[g] \/ RowBought(g) \/ RowRedeemed(g) \/ RowKept(g) \/ RowEnded(g) \/ RowLeft(g)

LEMMA HandlerRowStep ==
  ASSUME IInv, NEW p \in Procs, Handler(p), NEW h \in Gifts
  PROVE  RowStep(h)
<1> USE DEF Rest, NothingWritten
<1> DEFINE g == job[p].gift
           seen == job[p].seen
<1>0. /\ row \in [Gifts -> Rows] /\ job[p] \in Jobs /\ Sane(job[p]) /\ seen \in Rows
  BY DEF IInv, TypeOK, JobsSane, Jobs
<1>1. CASE PurchaseWrites(p)
  BY <1>0, <1>1 DEF PurchaseWrites, RowStep, RowBought
<1>2. CASE RedeemWrites(p)
  <2>1. g \in Gifts /\ HoldsGift(p, g)
    BY <1>0, <1>2 DEF RedeemWrites, Sane, HoldsGift
  <2>2. row[g].status = "purchased"
    BY <1>2, <2>1 DEF IInv, SeenIsRow, RedeemWrites
  <2>3. [Became(seen, "redeemed") EXCEPT !.redeemer = job[p].member].status = "redeemed"
    BY <1>0, RowFacts DEF Rows
  <2> QED
    BY <1>0, <1>2, <2>1, <2>2, <2>3 DEF RedeemWrites, RowStep, RowRedeemed
<1>3. CASE ReassignWrites(p)
  <2>1. g \in Gifts /\ HoldsGift(p, g)
    BY <1>0, <1>3 DEF ReassignWrites, IsAt, Sane, HoldsGift
  <2>2. seen = row[g] /\ row[g].status = "redeemed"
    BY <1>3, <2>1 DEF IInv, SeenIsRow, ReassignWrites, IsAt
  <2>3. /\ [seen EXCEPT !.redeemer = job[p].member].status = seen.status
        /\ [seen EXCEPT !.redeemer = job[p].member].marks = seen.marks
    BY <1>0 DEF Rows
  <2> QED
    BY <1>0, <1>3, <2>1, <2>2, <2>3 DEF ReassignWrites, RowStep, RowKept
<1>4. CASE RefundWrites(p)
  <2>1. g \in Gifts /\ row[g].status # "none"
    BY <1>0, <1>4 DEF RefundWrites, IsAt, Sane, IInv, RefundsBought
  <2>2. Became(seen, "refunded").status = "refunded"
    BY <1>0, RowFacts
  <2> QED
    BY <1>0, <1>4, <2>1, <2>2 DEF RefundWrites, RowStep, RowEnded
<1>5. CASE ConsumeWrites(p)
  <2>1. g \in Gifts /\ Became(row[g], "consumed").status = "consumed"
    BY <1>0, <1>5, RowFacts DEF ConsumeWrites, IsAt, Sane
  <2> QED
    BY <1>0, <1>5, <2>1 DEF ConsumeWrites, RowStep, RowEnded
<1>6. CASE CleanWrites(p)
  <2>1. g \in Gifts /\ HoldsGift(p, g)
    BY <1>0, <1>6 DEF CleanWrites, IsAt, Sane, HoldsGift
  <2>2. row[g].status = "redeemed"
    BY <1>6, <2>1 DEF IInv, SeenIsRow, CleanWrites, IsAt
  <2>3. Became(seen, "consumed").status = "consumed"
    BY <1>0, RowFacts
  <2> QED
    BY <1>0, <1>6, <2>1, <2>2, <2>3 DEF CleanWrites, RowStep, RowEnded
<1>7. CASE \E k \in Gifts : ExpireWrites(p, k)
  <2>1. PICK k \in Gifts : ExpireWrites(p, k)
    BY <1>7
  <2>2. Became(row[k], "expired").status = "expired"
    BY <1>0, RowFacts
  <2> QED
    BY <1>0, <2>1, <2>2 DEF ExpireWrites, RowStep, RowEnded
<1>8. CASE RemindWrites(p)
  <2>1. g \in Gifts /\ HoldsGift(p, g)
    BY <1>0, <1>8 DEF RemindWrites, IsAt, Sane, HoldsGift
  <2>2. seen = row[g] /\ row[g].status = "redeemed"
    BY <1>8, <2>1 DEF IInv, SeenIsRow, RemindWrites, IsAt
  <2> QED
    BY <1>0, <1>8, <2>1, <2>2 DEF RemindWrites, RowStep, RowKept, Rows
<1>9. CASE \/ RedeemLocksGift(p) \/ ReassignLocksGift(p) \/ RefundReadsMember(p)
           \/ JobStarts(p) \/ RemindSends(p) \/ Aborts(p)
           \/ \E k \in Gifts : JobLocksGift(p, k)
  BY <1>9
  DEF RedeemLocksGift, ReassignLocksGift, RefundReadsMember, JobStarts, RemindSends,
      Aborts, JobLocksGift, RowStep
<1> QED
  BY <1>1, <1>2, <1>3, <1>4, <1>5, <1>6, <1>7, <1>8, <1>9 DEF Handler

\* Whatever happens, a row changes in one of these ways.
LEMMA NextRowStep ==
  ASSUME IInv, [Next]_vars, NEW g \in Gifts
  PROVE  RowStep(g)
<1>1. ASSUME NEW p \in Procs, Request(p) PROVE UNCHANGED row
  BY <1>1 DEF Request, PurchaseStarts, RefundReads, RedeemLocksMember,
              SignupLocksGift, ReassignStarts, ActivationStarts, NothingWritten
<1>2. ASSUME NEW m \in Members, Joins(m) \/ LinkActive(m) \/ LinkEnded(m) \/ EventLost(m)
      PROVE  UNCHANGED row
  BY <1>2 DEF Joins, LinkActive, LinkEnded, EventLost
<1>3. CASE Sweeps \/ \E h \in Gifts : Tick(h)
  BY <1>3 DEF Sweeps, Tick, RowStep
<1>4. ASSUME NEW m \in Members, Deleted(m) PROVE RowStep(g)
  BY <1>4 DEF Deleted, RowStep, RowLeft, IInv, TypeOK, Rows
<1>5. CASE UNCHANGED vars
  BY <1>5 DEF vars, RowStep
<1> QED
  BY <1>1, <1>2, <1>3, <1>4, <1>5, HandlerRowStep DEF Next, Account, RowStep

-----------------------------------------------------------------------------
(* One confirmation and one reminder, MailedOnce.  A reminder may go out   *)
(* long after the transaction that decided on it; from that transaction on *)
(* the gift is settled, whatever becomes of its row, and nobody decides on *)
(* another.                                                                *)

Settled(g) ==
  "reminded" \in row[g].marks \/ row[g].status \in {"consumed", "expired", "refunded"}

Sending(p, g) == IsAt(p, "remind", "send") /\ job[p].gift = g

\* Under its lock a gift to remind of has not been reminded of.
RemindersDue ==
  \A p \in Procs : IsAt(p, "remind", "member") => "reminded" \notin job[p].seen.marks

ConfirmedOnce ==
  \A g \in Gifts :
    mails[g].confirmed <= 1 /\ (row[g].status = "none" => mails[g].confirmed = 0)

RemindedOnce ==
  \A g \in Gifts :
    /\ mails[g].reminded <= 1
    /\ mails[g].reminded > 0 => Settled(g) /\ \A p \in Procs : ~Sending(p, g)
    /\ \A p, q \in Procs : Sending(p, g) => Settled(g) /\ (Sending(q, g) => p = q)

MailInv == RemindersDue /\ ConfirmedOnce /\ RemindedOnce

\* A settled gift stays settled.
LEMMA SettledStays ==
  ASSUME IInv, [Next]_vars, NEW g \in Gifts, Settled(g)
  PROVE  Settled(g)'
<1>1. RowStep(g) /\ Consistent(row[g]) /\ row[g] \in Rows
  BY NextRowStep DEF IInv, TypeOK
<1>2. ~(RowBought(g) \/ RowRedeemed(g))
  BY <1>1 DEF RowBought, RowRedeemed, Settled, Consistent
<1> QED
  BY <1>1, <1>2 DEF RowStep, RowKept, RowEnded, RowLeft, Settled

\* A job comes to remind somebody by locking the gift, and to send the mail
\* by noting so in the row.
LEMMA HandlerReminds ==
  ASSUME IInv, NEW p \in Procs, Handler(p), NEW q \in Procs,
         job'[q].op = "remind", job'[q].at \in {"member", "send"}
  PROVE  \/ job'[q] = job[q] /\ q # p
         \/ (\E g \in Gifts : JobLocksGift(q, g)) /\ job'[q].at = "member"
         \/ RemindWrites(q) /\ job'[q] = [job[q] EXCEPT !.at = "send"]
<1>0. job \in [Procs -> Jobs] /\ job[p] \in Jobs
  BY DEF IInv, TypeOK
<1>1. ASSUME NEW j, job' = [job EXCEPT ![p] = j]
      PROVE  job'[q] = IF q = p THEN j ELSE job[q]
  BY <1>0, <1>1
<1>2. ASSUME Finish(p) PROVE job'[q] = job[q] /\ q # p
  BY <1>1, <1>2 DEF Finish, Idle
<1>3. ASSUME NEW todo, GoesOn(p, todo) PROVE job'[q] = job[q] /\ q # p
  BY <1>1, <1>3 DEF GoesOn, Idle
<1>4. CASE \/ PurchaseWrites(p) \/ RedeemWrites(p) \/ ReassignWrites(p)
           \/ RefundWrites(p) \/ ConsumeWrites(p) \/ Aborts(p)
  BY <1>2, <1>4 DEF PurchaseWrites, RedeemWrites, ReassignWrites, RefundWrites,
                    ConsumeWrites, Aborts
<1>5. CASE CleanWrites(p) \/ RemindSends(p) \/ \E g \in Gifts : ExpireWrites(p, g)
  BY <1>3, <1>5 DEF CleanWrites, RemindSends, ExpireWrites
<1>6. CASE RedeemLocksGift(p) \/ ReassignLocksGift(p) \/ RefundReadsMember(p)
  BY <1>0, <1>1, <1>2, <1>6
  DEF RedeemLocksGift, ReassignLocksGift, RefundReadsMember, IsAt, Jobs
<1>7. CASE JobStarts(p)
  BY <1>0, <1>1, <1>7 DEF JobStarts, Begin, Idle
<1>8. CASE \E g \in Gifts : JobLocksGift(p, g)
  <2>1. PICK g \in Gifts : JobLocksGift(p, g)
    BY <1>8
  <2>2. CASE ~StillDue(job[p].op, row[g])
    BY <1>3, <2>1, <2>2 DEF JobLocksGift
  <2>3. CASE StillDue(job[p].op, row[g])
    <3>1. job' = [job EXCEPT ![p] = [job[p] EXCEPT !.at = "member", !.gift = g,
                    !.seen = row[g], !.todo = job[p].todo \ {g}]]
      BY <1>0, <2>1, <2>3 DEF JobLocksGift
    <3> QED
      BY <1>0, <2>1, <3>1 DEF Jobs
  <2> QED
    BY <2>2, <2>3
<1>9. CASE RemindWrites(p)
  <2>1. CASE Goto(p, "send")
    BY <1>0, <1>9, <2>1 DEF Goto, Jobs
  <2>2. CASE GoesOn(p, job[p].todo)
    BY <1>3, <2>2
  <2> QED
    BY <1>9, <2>1, <2>2 DEF RemindWrites
<1> QED
  BY <1>4, <1>5, <1>6, <1>7, <1>8, <1>9 DEF Handler

LEMMA NextReminds ==
  ASSUME IInv, [Next]_vars, NEW q \in Procs,
         job'[q].op = "remind", job'[q].at \in {"member", "send"}
  PROVE  \/ job'[q] = job[q]
         \/ (\E g \in Gifts : JobLocksGift(q, g)) /\ job'[q].at = "member"
         \/ RemindWrites(q) /\ job'[q] = [job[q] EXCEPT !.at = "send"]
<1>0. job \in [Procs -> Jobs]
  BY DEF IInv, TypeOK
<1>1. ASSUME NEW p \in Procs, Request(p) PROVE job'[q] = job[q]
  <2>1. \/ UNCHANGED job
        \/ \E j : j.op # "remind" /\ job' = [job EXCEPT ![p] = j]
    <3>1. ASSUME NEW j, Begin(p, j), j.op # "remind"
          PROVE  \E k : k.op # "remind" /\ job' = [job EXCEPT ![p] = k]
      BY <3>1 DEF Begin
    <3> QED
      BY <1>1, <3>1
      DEF Request, PurchaseStarts, RefundReads, RedeemLocksMember, SignupLocksGift,
          ReassignStarts, ActivationStarts, Idle
  <2> QED
    BY <1>0, <2>1
<1>2. ASSUME NEW m \in Members, Account(m) PROVE UNCHANGED job
  BY <1>2 DEF Account, Joins, LinkActive, LinkEnded, Deleted, EventLost
<1>3. CASE Sweeps \/ \E g \in Gifts : Tick(g)
  BY <1>3 DEF Sweeps, Tick
<1>4. CASE UNCHANGED vars
  BY <1>4 DEF vars
<1> QED
  BY <1>1, <1>2, <1>3, <1>4, HandlerReminds DEF Next

\* Mails go out in two steps only.
LEMMA NextMails ==
  ASSUME IInv, [Next]_vars
  PROVE  \/ UNCHANGED mails
         \/ \E p \in Procs :
              /\ PurchaseWrites(p) /\ row[job[p].gift].status = "none"
              /\ row' = [row EXCEPT ![job[p].gift] = Bought]
              /\ mails' = [mails EXCEPT ![job[p].gift].confirmed = @ + 1]
         \/ \E p \in Procs : RemindSends(p)
<1>1. ASSUME NEW p \in Procs, Handler(p), ~RemindSends(p), mails' # mails
      PROVE  PurchaseWrites(p)
  BY <1>1 DEF Handler, RedeemLocksGift, RedeemWrites, ReassignLocksGift, ReassignWrites,
              RefundReadsMember, RefundWrites, ConsumeWrites, JobStarts, CleanWrites,
              RemindWrites, JobLocksGift, ExpireWrites, Aborts, NothingWritten, Rest
<1>2. ASSUME NEW p \in Procs, Request(p) PROVE UNCHANGED mails
  BY <1>2 DEF Request, PurchaseStarts, RefundReads, RedeemLocksMember, SignupLocksGift,
              ReassignStarts, ActivationStarts, NothingWritten, Rest
<1>3. ASSUME NEW m \in Members, Account(m) PROVE UNCHANGED mails
  BY <1>3 DEF Account, Joins, LinkActive, LinkEnded, Deleted, EventLost
<1>4. CASE Sweeps \/ \E g \in Gifts : Tick(g)
  BY <1>4 DEF Sweeps, Tick
<1>5. CASE UNCHANGED vars
  BY <1>5 DEF vars
<1> QED
  BY <1>1, <1>2, <1>3, <1>4, <1>5 DEF Next, PurchaseWrites

\* Who notes a reminder holds the gift, which was not settled, and leaves it
\* settled.
LEMMA RemindWritesFacts ==
  ASSUME IInv, RemindersDue, NEW q \in Procs, RemindWrites(q)
  PROVE  \E g \in Gifts : g = job[q].gift /\ ~Settled(g) /\ Settled(g)'
<1> DEFINE g == job[q].gift
<1>1. /\ row \in [Gifts -> Rows] /\ job[q] \in Jobs /\ g \in Gifts /\ HoldsGift(q, g)
      /\ job[q].seen \in Rows
  BY DEF IInv, TypeOK, JobsSane, Sane, RemindWrites, IsAt, HoldsGift, Jobs
<1>2. job[q].seen = row[g] /\ row[g].status = "redeemed"
  BY <1>1 DEF IInv, SeenIsRow, RemindWrites, IsAt
<1>3. "reminded" \notin row[g].marks
  BY <1>2 DEF RemindersDue, RemindWrites
<1>4. "reminded" \in row'[g].marks
  BY <1>1 DEF RemindWrites, Rows
<1> QED
  BY <1>1, <1>2, <1>3, <1>4 DEF Settled

\* Only one does so in a step.
LEMMA RemindWritesMoves ==
  ASSUME IInv, NEW p \in Procs, NEW q \in Procs, RemindWrites(p), RemindWrites(q)
  PROVE  p = q
<1>1. job \in [Procs -> Jobs] /\ job[p] \in Jobs
  BY DEF IInv, TypeOK
<1>2. ASSUME NEW j, job' = [job EXCEPT ![p] = j], j.at # "member" PROVE p = q
  <2> SUFFICES ASSUME p # q PROVE FALSE
    OBVIOUS
  <2>1. job'[q] = job[q]
    BY <1>1, <1>2
  <2>2. job[q].at = "member" /\ job'[p].at # "member"
    BY <1>1, <1>2 DEF RemindWrites, IsAt
  <2>3. job'[q].at # "member"
    <3>1. CASE Goto(q, "send")
      BY <1>1, <3>1 DEF Goto, Jobs, IInv, TypeOK
    <3>2. CASE GoesOn(q, job[q].todo)
      BY <1>1, <3>2 DEF GoesOn, Idle
    <3> QED
      BY <3>1, <3>2 DEF RemindWrites
  <2> QED
    BY <2>1, <2>2, <2>3
<1>3. CASE Goto(p, "send")
  <2>1. job' = [job EXCEPT ![p] = [job[p] EXCEPT !.at = "send"]]
    BY <1>3 DEF Goto
  <2>2. [job[p] EXCEPT !.at = "send"].at # "member"
    BY <1>1 DEF Jobs
  <2> QED
    BY <1>2, <2>1, <2>2
<1>4. CASE GoesOn(p, job[p].todo)
  <2> DEFINE j == IF job[p].todo = {} THEN Idle
                  ELSE [Idle EXCEPT !.op = job[p].op, !.at = "next", !.todo = job[p].todo]
  <2>1. job' = [job EXCEPT ![p] = j]
    BY <1>4 DEF GoesOn
  <2>2. j.at # "member"
    BY DEF Idle
  <2> HIDE DEF j
  <2> QED
    BY <1>2, <2>1, <2>2
<1> QED
  BY <1>3, <1>4 DEF RemindWrites

LEMMA RemindersDueStep ==
  ASSUME IInv, MailInv, [Next]_vars
  PROVE  RemindersDue'
<1> SUFFICES ASSUME NEW q \in Procs, job'[q].op = "remind", job'[q].at = "member"
             PROVE  "reminded" \notin job'[q].seen.marks
  BY DEF RemindersDue, IsAt
<1>1. CASE job'[q] = job[q]
  BY <1>1 DEF MailInv, RemindersDue, IsAt
<1>2. CASE \E g \in Gifts : JobLocksGift(q, g)
  <2>1. PICK g \in Gifts : JobLocksGift(q, g)
    BY <1>2
  <2>2. job \in [Procs -> Jobs] /\ job[q] \in Jobs
    BY DEF IInv, TypeOK
  <2>3. CASE ~StillDue(job[q].op, row[g])
    <3> DEFINE todo == job[q].todo \ {g}
    <3>1. job'[q] = IF todo = {} THEN Idle
                    ELSE [Idle EXCEPT !.op = job[q].op, !.at = "next", !.todo = todo]
      BY <2>1, <2>2, <2>3 DEF JobLocksGift, GoesOn
    <3> HIDE DEF todo
    <3>2. job'[q].at # "member"
      BY <3>1 DEF Idle
    <3> QED
      BY <3>2
  <2>4. CASE StillDue(job[q].op, row[g])
    <3>1. job'[q].op = job[q].op /\ job'[q].seen = row[g]
      BY <2>1, <2>2, <2>4 DEF JobLocksGift, Jobs
    <3> QED
      BY <2>4, <3>1 DEF StillDue
  <2> QED
    BY <2>3, <2>4
<1>3. CASE job'[q] = [job[q] EXCEPT !.at = "send"]
  BY <1>3 DEF IInv, TypeOK, Jobs
<1> QED
  BY <1>1, <1>2, <1>3, NextReminds

LEMMA ConfirmedOnceStep ==
  ASSUME IInv, MailInv, [Next]_vars
  PROVE  ConfirmedOnce'
<1> SUFFICES ASSUME NEW g \in Gifts
             PROVE  /\ mails'[g].confirmed <= 1
                    /\ row'[g].status = "none" => mails'[g].confirmed = 0
  BY DEF ConfirmedOnce
<1>1. /\ mails \in [Gifts -> [confirmed : Nat, reminded : Nat]] /\ row \in [Gifts -> Rows]
      /\ mails[g].confirmed <= 1
      /\ row[g].status = "none" => mails[g].confirmed = 0
  BY DEF IInv, TypeOK, MailInv, ConfirmedOnce
<1>2. row'[g].status = "none" => row[g].status = "none"
  <2>1. RowStep(g) /\ Bought.status = "purchased"
    BY NextRowStep, RowFacts
  <2> QED
    BY <2>1 DEF RowStep, RowBought, RowRedeemed, RowKept, RowEnded, RowLeft
<1>3. CASE mails'[g].confirmed = mails[g].confirmed
  BY <1>1, <1>2, <1>3
<1>4. CASE \E p \in Procs :
             /\ row[job[p].gift].status = "none"
             /\ row' = [row EXCEPT ![job[p].gift] = Bought]
             /\ mails' = [mails EXCEPT ![job[p].gift].confirmed = @ + 1]
  <2>1. PICK p \in Procs :
          /\ row[job[p].gift].status = "none"
          /\ row' = [row EXCEPT ![job[p].gift] = Bought]
          /\ mails' = [mails EXCEPT ![job[p].gift].confirmed = @ + 1]
    BY <1>4
  <2>2. CASE job[p].gift # g
    BY <1>1, <1>3, <2>1, <2>2
  <2>3. CASE job[p].gift = g
    <3>1. mails[g].confirmed = 0 /\ mails'[g].confirmed = mails[g].confirmed + 1
      BY <1>1, <2>1, <2>3
    <3>2. row'[g].status = "purchased"
      BY <1>1, <2>1, <2>3, RowFacts
    <3> QED
      BY <3>1, <3>2
  <2> QED
    BY <2>2, <2>3
<1>5. CASE \E p \in Procs : RemindSends(p)
  <2>1. mails'[g].confirmed = mails[g].confirmed
    BY <1>1, <1>5 DEF RemindSends
  <2> QED
    BY <1>3, <2>1
<1> QED
  BY <1>3, <1>4, <1>5, NextMails

LEMMA RemindedOnceStep ==
  ASSUME IInv, MailInv, [Next]_vars
  PROVE  RemindedOnce'
<1> SUFFICES ASSUME NEW g \in Gifts
             PROVE  /\ mails'[g].reminded <= 1
                    /\ mails'[g].reminded > 0 =>
                         Settled(g)' /\ \A p \in Procs : ~Sending(p, g)'
                    /\ \A p, q \in Procs :
                         Sending(p, g)' => Settled(g)' /\ (Sending(q, g)' => p = q)
  BY DEF RemindedOnce
<1>1. /\ mails \in [Gifts -> [confirmed : Nat, reminded : Nat]] /\ job \in [Procs -> Jobs]
      /\ mails[g].reminded <= 1
      /\ mails[g].reminded > 0 => Settled(g) /\ \A p \in Procs : ~Sending(p, g)
      /\ \A p, q \in Procs : Sending(p, g) => Settled(g) /\ (Sending(q, g) => p = q)
  BY DEF IInv, TypeOK, MailInv, RemindedOnce
<1>2. Settled(g) => Settled(g)'
  BY SettledStays
\* Who sends next was sending, or decides now, and then alone.
<1>3. ASSUME NEW q \in Procs, Sending(q, g)'
      PROVE  Sending(q, g) \/ (~Settled(g) /\ Settled(g)' /\ RemindWrites(q))
  <2>1. job'[q] = job[q] \/ (RemindWrites(q) /\ job'[q] = [job[q] EXCEPT !.at = "send"])
    BY <1>3, NextReminds DEF Sending, IsAt
  <2>2. CASE job'[q] = job[q]
    BY <1>3, <2>2 DEF Sending, IsAt
  <2>3. CASE RemindWrites(q) /\ job'[q] = [job[q] EXCEPT !.at = "send"]
    <3>1. job[q].gift = g
      BY <1>1, <1>3, <2>3 DEF Sending, Jobs
    <3> QED
      BY <2>3, <3>1, RemindWritesFacts DEF MailInv
  <2> QED
    BY <2>1, <2>2, <2>3
<1>4. ASSUME NEW p \in Procs, NEW q \in Procs, Sending(p, g)'
      PROVE  Settled(g)' /\ (Sending(q, g)' => p = q)
  <2>1. RemindWrites(p) /\ RemindWrites(q) => p = q
    BY RemindWritesMoves
  <2> QED
    BY <1>1, <1>2, <1>3, <1>4, <2>1
<1>5. CASE mails'[g].reminded = mails[g].reminded
  BY <1>1, <1>2, <1>3, <1>4, <1>5
<1>6. CASE \E p \in Procs : RemindSends(p)
  <2>1. PICK p \in Procs : RemindSends(p)
    BY <1>6
  <2>2. CASE job[p].gift # g
    <3>1. mails'[g].reminded = mails[g].reminded
      BY <1>1, <2>1, <2>2 DEF RemindSends
    <3> QED
      BY <1>5, <3>1
  <2>3. CASE job[p].gift = g
    <3>1. Sending(p, g) /\ mails[g].reminded = 0
      BY <1>1, <2>1, <2>3 DEF RemindSends, Sending
    <3>2. mails'[g].reminded = 1
      BY <1>1, <2>1, <2>3, <3>1 DEF RemindSends
    <3>3. ASSUME NEW q \in Procs, Sending(q, g)' PROVE FALSE
      <4>1. Settled(g)
        BY <1>1, <3>1
      <4>2. Sending(q, g)
        BY <1>3, <3>3, <4>1
      <4>3. q = p
        BY <1>1, <3>1, <4>2
      <4>4. ~IsAt(p, "remind", "send")'
        BY <1>1, <2>1 DEF RemindSends, GoesOn, IsAt, Idle
      <4> QED
        BY <3>3, <4>3, <4>4 DEF Sending
    <3> QED
      BY <1>1, <1>2, <1>4, <3>1, <3>2, <3>3
  <2> QED
    BY <2>2, <2>3
<1>7. CASE \E p \in Procs :
             mails' = [mails EXCEPT ![job[p].gift].confirmed = @ + 1]
  <2>1. mails'[g].reminded = mails[g].reminded
    BY <1>1, <1>7
  <2> QED
    BY <1>5, <2>1
<1> QED
  BY <1>5, <1>6, <1>7, NextMails

\* Webhooks delivered twice and jobs that overlap: one confirmation and one
\* reminder of a gift.
THEOREM MailsGoOutOnce == Spec => []MailedOnce
<1>1. Init => MailInv
  BY DEF Init, Idle, Absent, MailInv, RemindersDue, ConfirmedOnce, RemindedOnce, Sending,
         Settled, IsAt
<1>2. IInv /\ MailInv /\ [Next]_vars => MailInv'
  BY RemindersDueStep, ConfirmedOnceStep, RemindedOnceStep DEF MailInv
<1>3. MailInv => MailedOnce
  BY DEF MailInv, ConfirmedOnce, RemindedOnce, MailedOnce
<1> QED
  BY <1>1, <1>2, <1>3, InitIInv, NextIInv, PTL DEF Spec

-----------------------------------------------------------------------------
(* What the handlers do to a member, as long as none has acted on the      *)
(* member without looking: a gift is given to who is free or new, and      *)
(* taken from who has the status "gift".  The lock on the member keeps the *)
(* status that a redemption has checked.                                   *)

MemberLocksExclude ==
  \A p, q \in Procs, m \in Members : HoldsMember(p, m) /\ HoldsMember(q, m) => p = q

\* A redemption has found its member there, and free before it goes on.
HeldIsFree ==
  \A p \in Procs, m \in Members \ stray : HoldsMember(p, m) =>
    /\ member[m].status # "absent"
    /\ job[p].at = "write" => member[m].status = "free"

PayingIsPaid ==
  \A m \in Members \ stray : member[m].plan = "active" => member[m].status = "paid"

PayInv == MemberLocksExclude /\ HeldIsFree /\ PayingIsPaid

\* How an account may change in a step of a handler.
Given(m) ==
  /\ member[m].status \in {"absent", "free"}
  /\ \E g \in Gifts :
       /\ member'[m] = GiftGiven(m, g)
       /\ row'[g].status = "redeemed" /\ row'[g].redeemer = m
       /\ \A h \in Gifts \ {g} : row'[h] = row[h]
Taken(m) ==
  member[m].status = "gift" /\ member'[m] = GiftTaken(m, member[m])

\* Products and status of who is given a gift, or loses it.
LEMMA GiveAndTake ==
  /\ \A a \in Accounts, h \in Gifts :
       LET b == Updated(a, a, GiftProducts(h), "gift")
       IN  /\ b.plan = a.plan /\ b.status \in {"gift", a.status}
           /\ a.products = {} => b.products = GiftProducts(h) /\ b.status = "gift"
  /\ \A a \in Accounts :
       LET b == Updated(a, a, {}, "free")
       IN  /\ b.plan = a.plan /\ b.status \in {"free", a.status} /\ b.products = {}
           /\ a.products # {} => b.status = "free"
<1>1. ASSUME NEW a \in Accounts, NEW h \in Gifts
      PROVE  LET b == Updated(a, a, GiftProducts(h), "gift")
             IN  /\ b.plan = a.plan /\ b.status \in {"gift", a.status}
                 /\ a.products = {} => b.products = GiftProducts(h) /\ b.status = "gift"
  <2>1. TierSet(GiftProducts(h)) = {TierOf[h]} /\ TierSet({}) = {}
    BY DEF TierSet, GiftProducts
  <2> QED
    BY <2>1 DEF Updated, Accounts
<1>2. ASSUME NEW a \in Accounts
      PROVE  LET b == Updated(a, a, {}, "free")
             IN  /\ b.plan = a.plan /\ b.status \in {"free", a.status} /\ b.products = {}
                 /\ a.products # {} => b.status = "free"
  <2> DEFINE b == Updated(a, a, {}, "free")
  <2>1. TierSet({}) = {}
    BY DEF TierSet
  <2>2. \A pr \in a.products : pr[1] \in TierSet(a.products)
    BY DEF TierSet
  <2>3. /\ b.products = {pr \in a.products : pr[1] \notin TierSet(a.products)}
        /\ b.plan = a.plan /\ b.status \in {"free", a.status}
    BY <2>1 DEF Updated, Accounts
  <2>4. b.products = {}
    BY <2>2, <2>3
  <2> QED
    BY <2>3, <2>4, UpdateFacts
<1> QED
  BY <1>1, <1>2

\* Handlers give and take, and change no account in another way.
LEMMA HandlerMembers ==
  ASSUME IInv, Backed, PayInv, NEW p \in Procs, Handler(p), NEW m \in Members, m \notin stray'
  PROVE  \/ member'[m] = member[m]
         \/ Given(m) \/ Taken(m)
<1> USE DEF Rest, NothingWritten
<1> DEFINE g == job[p].gift
           seen == job[p].seen
<1>0. /\ row \in [Gifts -> Rows] /\ member \in [Members -> Accounts]
      /\ job[p] \in Jobs /\ Sane(job[p]) /\ seen \in Rows
  BY DEF IInv, TypeOK, JobsSane, Jobs
<1>1. CASE RedeemWrites(p) /\ member'[m] # member[m]
  <2> DEFINE r == [Became(seen, "redeemed") EXCEPT !.redeemer = job[p].member]
  <2>1. g \in Gifts /\ m = job[p].member /\ MayRedeem(p) /\ m \notin stray
    BY <1>0, <1>1 DEF RedeemWrites, Sane
  <2>2. member[m].status \in {"absent", "free"}
    <3>1. CASE job[p].op = "signup"
      BY <2>1, <3>1 DEF MayRedeem
    <3>2. CASE job[p].op = "redeem"
      BY <1>1, <2>1, <3>2 DEF PayInv, HeldIsFree, HoldsMember, RedeemWrites
    <3> QED
      BY <1>1, <3>1, <3>2 DEF RedeemWrites
  <2>3. r.status = "redeemed" /\ r.redeemer = m
    BY <1>0, <2>1, RowFacts DEF Rows
  <2>4. member'[m] = GiftGiven(m, g) /\ row' = [row EXCEPT ![g] = r]
    BY <1>0, <1>1, <2>1 DEF RedeemWrites
  <2> HIDE DEF r
  <2> QED
    BY <1>0, <2>1, <2>2, <2>3, <2>4 DEF Given
<1>2. CASE ReassignWrites(p) /\ member'[m] # member[m]
  <2> DEFINE r == [seen EXCEPT !.redeemer = job[p].member]
  <2>1. g \in Gifts /\ HoldsGift(p, g) /\ m = job[p].member
    BY <1>0, <1>2 DEF ReassignWrites, IsAt, Sane, HoldsGift
  <2>2. MayReassign(p) /\ m \notin stray /\ ActiveGifts(m) = {}
    BY <1>2, <2>1 DEF ReassignWrites
  <2>3. member[m].status \in {"absent", "free"}
    BY <2>1, <2>2 DEF MayReassign, Backed, BackedMember
  <2>4. seen.status = "redeemed"
    BY <1>2, <2>1 DEF IInv, SeenIsRow, ReassignWrites, IsAt
  <2>5. r.status = "redeemed" /\ r.redeemer = m
    BY <1>0, <2>1, <2>4 DEF Rows
  <2>6. member'[m] = GiftGiven(m, g) /\ row' = [row EXCEPT ![g] = r]
    BY <1>0, <1>2, <2>1, <2>2 DEF ReassignWrites
  <2> HIDE DEF r
  <2> QED
    BY <1>0, <2>1, <2>3, <2>5, <2>6 DEF Given
<1>3. CASE RefundWrites(p) /\ member'[m] # member[m]
  <2>1. m = seen.redeemer /\ job[p].who.status = "gift" /\ member'[m] = GiftTaken(m, job[p].who)
    BY <1>0, <1>3 DEF RefundWrites
  <2>2. member[m] = job[p].who
    BY <1>3, <2>1 DEF RefundWrites
  <2> QED
    BY <2>1, <2>2 DEF Taken
<1>4. CASE CleanWrites(p) /\ member'[m] # member[m]
  BY <1>0, <1>4 DEF CleanWrites, Taken
<1>5. CASE \/ PurchaseWrites(p) \/ RedeemLocksGift(p) \/ ReassignLocksGift(p)
           \/ RefundReadsMember(p) \/ ConsumeWrites(p) \/ JobStarts(p)
           \/ RemindWrites(p) \/ RemindSends(p) \/ Aborts(p)
           \/ \E h \in Gifts : JobLocksGift(p, h) \/ ExpireWrites(p, h)
  BY <1>5 DEF PurchaseWrites, RedeemLocksGift, ReassignLocksGift, RefundReadsMember,
              ConsumeWrites, JobStarts, RemindWrites, RemindSends, Aborts, JobLocksGift,
              ExpireWrites
<1> QED
  BY <1>1, <1>2, <1>3, <1>4, <1>5 DEF Handler

\* Products of a complimentary member that have expired.
Swept(m) ==
  /\ member[m].status = "comped"
  /\ member'[m] = [member[m] EXCEPT !.products = @ \ Expired, !.status = "free"]

\* Whatever happens, an account changes in one of these ways.
LEMMA NextMembers ==
  ASSUME IInv, Backed, PayInv, [Next]_vars, NEW m \in Members, m \notin stray'
  PROVE  \/ member'[m] = member[m]
         \/ Given(m) \/ Taken(m) \/ Swept(m)
         \/ Joins(m) \/ LinkActive(m) \/ LinkEnded(m) \/ Deleted(m)
<1>0. member \in [Members -> Accounts]
  BY DEF IInv, TypeOK
<1>1. ASSUME NEW p \in Procs, Request(p) PROVE UNCHANGED member
  BY <1>1 DEF Request, PurchaseStarts, RefundReads, RedeemLocksMember, SignupLocksGift,
              ReassignStarts, ActivationStarts, NothingWritten
<1>2. ASSUME NEW k \in Members, Account(k), k # m PROVE member'[m] = member[m]
  BY <1>0, <1>2 DEF Account, Joins, LinkActive, LinkEnded, Deleted, EventLost
<1>3. ASSUME Account(m)
      PROVE  \/ member'[m] = member[m]
             \/ Joins(m) \/ LinkActive(m) \/ LinkEnded(m) \/ Deleted(m)
  BY <1>3 DEF Account, EventLost
<1>4. CASE Sweeps /\ member'[m] # member[m]
  <2>1. member[m].products \cap Expired # {} /\ member[m].status = "comped"
    BY <1>0, <1>4 DEF Sweeps
  <2>2. member'[m] = [member[m] EXCEPT !.products = @ \ Expired,
                        !.status = IF @ = "comped" THEN "free" ELSE @]
    BY <1>0, <1>4, <2>1 DEF Sweeps
  <2> QED
    BY <2>1, <2>2 DEF Swept
<1>5. CASE \E g \in Gifts : Tick(g)
  BY <1>5 DEF Tick
<1>6. CASE UNCHANGED vars
  BY <1>6 DEF vars
<1> QED
  BY <1>1, <1>2, <1>3, <1>4, <1>5, <1>6, HandlerMembers DEF Next

\* A redemption comes to hold a member by locking it when nobody does, and
\* goes on with the gift.
LEMMA HandlerHolds ==
  ASSUME IInv, NEW p \in Procs, Handler(p), NEW q \in Procs,
         job'[q].op = "redeem", job'[q].at \in {"gift", "write"}
  PROVE  \/ job'[q] = job[q] /\ q # p
         \/ RedeemLocksGift(q) /\ Redeemable(row[job[q].gift], member[job[q].member].status)
            /\ job'[q].member = job[q].member
<1>0. job \in [Procs -> Jobs] /\ job[p] \in Jobs
  BY DEF IInv, TypeOK
<1>1. ASSUME NEW j, job' = [job EXCEPT ![p] = j]
      PROVE  job'[q] = IF q = p THEN j ELSE job[q]
  BY <1>0, <1>1
<1>2. ASSUME Finish(p) PROVE job'[q] = job[q] /\ q # p
  BY <1>1, <1>2 DEF Finish, Idle
<1>3. ASSUME NEW todo, GoesOn(p, todo) PROVE job'[q] = job[q] /\ q # p
  BY <1>1, <1>3 DEF GoesOn, Idle
<1>4. CASE \/ PurchaseWrites(p) \/ RedeemWrites(p) \/ ReassignWrites(p)
           \/ RefundWrites(p) \/ ConsumeWrites(p) \/ Aborts(p)
  BY <1>2, <1>4 DEF PurchaseWrites, RedeemWrites, ReassignWrites, RefundWrites,
                    ConsumeWrites, Aborts
<1>5. CASE CleanWrites(p) \/ RemindSends(p) \/ \E g \in Gifts : ExpireWrites(p, g)
  BY <1>3, <1>5 DEF CleanWrites, RemindSends, ExpireWrites
<1>6. CASE RedeemLocksGift(p)
  BY <1>0, <1>1, <1>2, <1>6 DEF RedeemLocksGift, IsAt, Jobs
<1>7. CASE ReassignLocksGift(p) \/ RefundReadsMember(p)
  BY <1>0, <1>1, <1>2, <1>7 DEF ReassignLocksGift, RefundReadsMember, IsAt, Jobs
<1>8. CASE JobStarts(p)
  BY <1>0, <1>1, <1>8 DEF JobStarts, Begin, Idle
<1>9. CASE \E g \in Gifts : JobLocksGift(p, g)
  BY <1>0, <1>1, <1>3, <1>9 DEF JobLocksGift, Jobs
<1>10. CASE RemindWrites(p)
  BY <1>0, <1>1, <1>3, <1>10 DEF RemindWrites, IsAt, Goto, Jobs
<1> QED
  BY <1>4, <1>5, <1>6, <1>7, <1>8, <1>9, <1>10 DEF Handler

LEMMA NextHolds ==
  ASSUME IInv, [Next]_vars, NEW q \in Procs, NEW m \in Members, HoldsMember(q, m)'
  PROVE  \/ job'[q] = job[q] /\ HoldsMember(q, m)
         \/ /\ HoldsMember(q, m) /\ member[m].status \in {"absent", "free"}
            /\ RedeemLocksGift(q)
         \/ /\ \E g \in Gifts : RedeemLocksMember(q, m, g)
            /\ job'[q].at = "gift" /\ \A p \in Procs \ {q} : job'[p] = job[p]
<1>0. job \in [Procs -> Jobs]
  BY DEF IInv, TypeOK
<1>1. CASE job'[q] = job[q]
  BY <1>1 DEF HoldsMember
<1>2. ASSUME NEW p \in Procs, Handler(p)
      PROVE  \/ job'[q] = job[q]
             \/ /\ HoldsMember(q, m) /\ member[m].status \in {"absent", "free"}
                /\ RedeemLocksGift(q)
  BY <1>2, HandlerHolds DEF HoldsMember, RedeemLocksGift, IsAt, Redeemable
<1>3. ASSUME NEW p \in Procs, Request(p), p # q PROVE job'[q] = job[q]
  <2>1. UNCHANGED job \/ \E j : job' = [job EXCEPT ![p] = j]
    BY <1>3 DEF Request, PurchaseStarts, RefundReads, RedeemLocksMember, SignupLocksGift,
                ReassignStarts, ActivationStarts, Begin
  <2> QED
    BY <1>0, <1>3, <2>1
<1>4. ASSUME Request(q)
      PROVE  \/ job'[q] = job[q]
             \/ /\ \E g \in Gifts : RedeemLocksMember(q, m, g)
                /\ job'[q].at = "gift" /\ \A p \in Procs \ {q} : job'[p] = job[p]
  <2>1. ASSUME NEW k \in Members, NEW g \in Gifts, RedeemLocksMember(q, k, g)
        PROVE  k = m /\ job'[q].at = "gift" /\ \A p \in Procs \ {q} : job'[p] = job[p]
    BY <1>0, <2>1 DEF RedeemLocksMember, Begin, HoldsMember, Idle
  <2>2. ASSUME NEW j, Begin(q, j), j.op # "redeem" PROVE FALSE
    BY <1>0, <2>2 DEF Begin, HoldsMember
  <2>3. CASE \E g \in Gifts : PurchaseStarts(q, g) \/ RefundReads(q, g)
    BY <2>2, <2>3 DEF PurchaseStarts, RefundReads, Idle
  <2>4. CASE \E k \in Members, g \in Gifts : SignupLocksGift(q, k, g) \/ ReassignStarts(q, k, g)
    BY <2>2, <2>4 DEF SignupLocksGift, ReassignStarts, Idle
  <2>5. CASE \E k \in Members : ActivationStarts(q, k)
    BY <2>2, <2>5 DEF ActivationStarts, Idle
  <2> QED
    BY <1>4, <2>1, <2>3, <2>4, <2>5 DEF Request
<1>5. ASSUME NEW k \in Members, Account(k) PROVE UNCHANGED job
  BY <1>5 DEF Account, Joins, LinkActive, LinkEnded, Deleted, EventLost
<1>6. CASE Sweeps \/ \E g \in Gifts : Tick(g)
  BY <1>1, <1>6 DEF Sweeps, Tick
<1>7. CASE UNCHANGED vars
  BY <1>1, <1>7 DEF vars
<1> QED
  BY <1>1, <1>2, <1>3, <1>4, <1>5, <1>6, <1>7 DEF Next

\* Members are never taken off the list.
LEMMA StrayGrows ==
  ASSUME [Next]_vars
  PROVE  stray \subseteq stray'
<1>1. ASSUME NEW p \in Procs, Handler(p) PROVE stray \subseteq stray'
  BY <1>1
  DEF Handler, PurchaseWrites, RedeemLocksGift, RedeemWrites, ReassignLocksGift,
      ReassignWrites, RefundReadsMember, RefundWrites, ConsumeWrites, JobStarts,
      CleanWrites, RemindWrites, RemindSends, JobLocksGift, ExpireWrites, Aborts,
      NothingWritten, Rest
<1>2. ASSUME NEW p \in Procs, Request(p) PROVE UNCHANGED stray
  BY <1>2 DEF Request, PurchaseStarts, RefundReads, RedeemLocksMember, SignupLocksGift,
              ReassignStarts, ActivationStarts, NothingWritten, Rest
<1>3. ASSUME NEW k \in Members, Account(k) PROVE UNCHANGED stray
  BY <1>3 DEF Account, Joins, LinkActive, LinkEnded, Deleted, EventLost
<1>4. CASE Sweeps \/ \E g \in Gifts : Tick(g)
  BY <1>4 DEF Sweeps, Tick
<1>5. CASE UNCHANGED vars
  BY <1>5 DEF vars
<1> QED
  BY <1>1, <1>2, <1>3, <1>4, <1>5 DEF Next

\* Who holds a member keeps everybody else from changing it.
LEMMA HeldStays ==
  ASSUME IInv, PayInv, [Next]_vars, NEW q \in Procs, NEW m \in Members,
         HoldsMember(q, m)', m \notin stray'
  PROVE  member'[m] = member[m]
<1>0. member \in [Members -> Accounts] /\ job \in [Procs -> Jobs] /\ m \notin stray
  BY StrayGrows DEF IInv, TypeOK
<1>1. CASE RedeemLocksGift(q) \/ \E g \in Gifts : RedeemLocksMember(q, m, g)
  BY <1>1 DEF RedeemLocksGift, RedeemLocksMember, NothingWritten
<1>2. CASE job'[q] = job[q] /\ HoldsMember(q, m)
  <2>1. ~MemberFree(m) /\ member[m].status # "absent"
    BY <1>0, <1>2 DEF MemberFree, PayInv, HeldIsFree
  <2>2. ASSUME NEW p \in Procs, Handler(p) PROVE member'[m] = member[m]
    <3>1. CASE RedeemWrites(p)
      <4>1. p # q
        BY <1>0, <1>2, <3>1 DEF RedeemWrites, Finish, HoldsMember, Idle
      <4>2. CASE job[p].op = "signup"
        BY <1>0, <2>1, <3>1, <4>2 DEF RedeemWrites, MayRedeem, NothingWritten
      <4>3. CASE job[p].op = "redeem"
        <5>1. job[p].member # m
          BY <1>2, <3>1, <4>1, <4>3 DEF PayInv, MemberLocksExclude, HoldsMember, RedeemWrites
        <5> QED
          BY <1>0, <3>1, <5>1 DEF RedeemWrites, NothingWritten
      <4> QED
        BY <3>1, <4>2, <4>3 DEF RedeemWrites
    <3>2. CASE ReassignWrites(p) \/ RefundWrites(p) \/ CleanWrites(p)
      BY <1>0, <2>1, <3>2 DEF ReassignWrites, RefundWrites, CleanWrites, NothingWritten
    <3>3. CASE \/ PurchaseWrites(p) \/ RedeemLocksGift(p) \/ ReassignLocksGift(p)
               \/ RefundReadsMember(p) \/ ConsumeWrites(p) \/ JobStarts(p)
               \/ RemindWrites(p) \/ RemindSends(p) \/ Aborts(p)
               \/ \E h \in Gifts : JobLocksGift(p, h) \/ ExpireWrites(p, h)
      BY <3>3 DEF PurchaseWrites, RedeemLocksGift, ReassignLocksGift, RefundReadsMember,
                  ConsumeWrites, JobStarts, RemindWrites, RemindSends, Aborts,
                  JobLocksGift, ExpireWrites, NothingWritten
    <3> QED
      BY <2>2, <3>1, <3>2, <3>3 DEF Handler
  <2>3. ASSUME NEW p \in Procs, Request(p) PROVE UNCHANGED member
    BY <2>3 DEF Request, PurchaseStarts, RefundReads, RedeemLocksMember, SignupLocksGift,
                ReassignStarts, ActivationStarts, NothingWritten
  <2>4. ASSUME NEW k \in Members, Account(k) PROVE member'[m] = member[m]
    BY <1>0, <2>1, <2>4 DEF Account, Joins, LinkActive, LinkEnded, Deleted, EventLost
  <2>5. CASE Sweeps
    BY <1>0, <2>1, <2>5 DEF Sweeps
  <2>6. CASE UNCHANGED vars \/ \E g \in Gifts : Tick(g)
    BY <2>6 DEF vars, Tick
  <2> QED
    BY <2>2, <2>3, <2>4, <2>5, <2>6 DEF Next
<1> QED
  BY <1>1, <1>2, NextHolds

LEMMA PayInvStep ==
  ASSUME IInv, Backed, PayInv, [Next]_vars
  PROVE  PayInv'
<1>0. member \in [Members -> Accounts] /\ stray \subseteq stray'
  BY StrayGrows DEF IInv, TypeOK
<1>1. MemberLocksExclude'
  <2> SUFFICES ASSUME NEW p \in Procs, NEW q \in Procs, NEW m \in Members,
                      HoldsMember(p, m)', HoldsMember(q, m)', p # q
               PROVE  FALSE
    BY DEF MemberLocksExclude
  <2>1. ASSUME NEW r \in Procs, NEW s \in Procs, r # s, HoldsMember(s, m)',
               \E g \in Gifts : RedeemLocksMember(r, m, g),
               \A k \in Procs \ {r} : job'[k] = job[k]
        PROVE  FALSE
    BY <2>1 DEF RedeemLocksMember, MemberFree, HoldsMember
  <2>2. HoldsMember(p, m) /\ HoldsMember(q, m)
    BY <2>1, NextHolds
  <2> QED
    BY <2>2 DEF PayInv, MemberLocksExclude
<1>2. HeldIsFree'
  <2> SUFFICES ASSUME NEW q \in Procs, NEW m \in Members, m \notin stray', HoldsMember(q, m)'
               PROVE  /\ member'[m].status # "absent"
                      /\ job'[q].at = "write" => member'[m].status = "free"
    BY DEF HeldIsFree
  <2>1. member'[m] = member[m] /\ m \notin stray
    BY <1>0, HeldStays
  <2>2. CASE HoldsMember(q, m) /\ (job'[q] = job[q] \/ member[m].status \in {"absent", "free"})
    BY <2>1, <2>2 DEF PayInv, HeldIsFree
  <2>3. CASE (\E g \in Gifts : RedeemLocksMember(q, m, g)) /\ job'[q].at = "gift"
    BY <2>1, <2>3 DEF RedeemLocksMember
  <2> QED
    BY <2>2, <2>3, NextHolds
<1>3. PayingIsPaid'
  <2> SUFFICES ASSUME NEW m \in Members, m \notin stray', member'[m].plan = "active"
               PROVE  member'[m].status = "paid"
    BY DEF PayingIsPaid
  <2>1. member[m] \in Accounts /\ (member[m].plan = "active" => member[m].status = "paid")
    BY <1>0 DEF PayInv, PayingIsPaid
  <2>2. ~Given(m)
    BY <2>1, GiveAndTake DEF Given, GiftGiven
  <2>3. ~Taken(m)
    BY <2>1, GiveAndTake DEF Taken, GiftTaken
  <2>4. ~Swept(m)
    BY <2>1 DEF Swept, Accounts
  <2>5. ~Joins(m) /\ ~LinkEnded(m) /\ ~Deleted(m)
    BY <1>0 DEF Joins, LinkEnded, Deleted, FreeAccount, NoAccount
  <2>6. LinkActive(m) => member'[m].status = "paid"
    BY <1>0 DEF LinkActive
  <2> QED
    BY <2>1, <2>2, <2>3, <2>4, <2>5, <2>6, NextMembers
<1> QED
  BY <1>1, <1>2, <1>3 DEF PayInv

\* Backed is an invariant of the specification by the theorem before; here it
\* is needed as one step of the induction.
LEMMA NextBacked ==
  ASSUME IInv, Backed, [Next]_vars
  PROVE  Backed'
<1>1. CASE UNCHANGED vars
  BY <1>1 DEF vars, Backed, BackedMember, ActiveGifts
<1> QED
  BY <1>1, HandlerKeepsBacked, OutsideKeepsBacked DEF Next

LEMMA InitBackedPay ==
  ASSUME Init
  PROVE  Backed /\ PayInv
<1>1. \A m \in Members : member[m].status \in {"absent", "free"} /\ member[m].plan = "none"
  BY DEF Init, NoAccount, FreeAccount
<1>2. \A p \in Procs : job[p].op = "idle"
  BY DEF Init, Idle
<1> QED
  BY <1>1, <1>2 DEF Backed, BackedMember, PayInv, MemberLocksExclude, HeldIsFree,
                    PayingIsPaid, HoldsMember

\* Requests and jobs for gifts leave the members alone who pay.
THEOREM WhoPaysIsLeftAlone == Spec => PayingMembersKept
<1>1. IInv /\ Backed /\ PayInv /\ [Next]_vars => Backed' /\ PayInv'
  BY NextBacked, PayInvStep
<1>2. IInv /\ Backed /\ PayInv /\ [Next]_vars =>
        [\A m \in Members \ stray' :
           member[m].plan = "active" /\ member'[m] # member[m] =>
             LinkActive(m) \/ LinkEnded(m) \/ Deleted(m)]_vars
  <2> SUFFICES ASSUME IInv, Backed, PayInv, [Next]_vars, NEW m \in Members, m \notin stray',
                      member[m].plan = "active", member'[m] # member[m]
               PROVE  LinkActive(m) \/ LinkEnded(m) \/ Deleted(m)
    OBVIOUS
  <2>1. member[m].status = "paid"
    BY StrayGrows DEF PayInv, PayingIsPaid
  <2> QED
    BY <2>1, NextMembers DEF Given, Taken, Swept, Joins
<1> QED
  BY <1>1, <1>2, InitBackedPay, InitIInv, NextIInv, PTL DEF Spec, PayingMembersKept

-----------------------------------------------------------------------------
(* Access as long as the gift lasts, AccessWhileActive.  Who never had a   *)
(* subscription is free with no product, or has the status "gift", one     *)
(* active gift and its product, no other.                                  *)

ExactMember(m) ==
  member[m].plan = "none" =>
    /\ member[m].status \in {"absent", "free", "gift"}
    /\ member[m].status = "gift" => ActiveGifts(m) # {}
    /\ \A g \in ActiveGifts(m) :
         member[m].status = "gift" /\ <<TierOf[g], g>> \in member[m].products
    /\ \A g, h \in ActiveGifts(m) : g = h
    /\ \A pr \in member[m].products : pr[2] \in ActiveGifts(m)

Exact == \A m \in Members \ stray : ExactMember(m)

\* Nothing changes for who keeps the account and the gifts.
LEMMA ExactStays ==
  ASSUME NEW m \in Members, ExactMember(m), member'[m] = member[m],
         \A g \in Gifts :
           (row'[g].status = "redeemed" /\ row'[g].redeemer = m)
             <=> (row[g].status = "redeemed" /\ row[g].redeemer = m)
  PROVE  ExactMember(m)'
<1>1. ActiveGifts(m)' = ActiveGifts(m)
  BY DEF ActiveGifts
<1> QED
  BY <1>1 DEF ExactMember

\* Who is free is given the gift, its product and its status.
LEMMA ExactGiven ==
  ASSUME IInv, NEW m \in Members, ExactMember(m), Given(m)
  PROVE  ExactMember(m)'
<1> SUFFICES ASSUME member'[m].plan = "none" PROVE ExactMember(m)'
  BY DEF ExactMember
<1>0. row \in [Gifts -> Rows] /\ member[m] \in Accounts
  BY DEF IInv, TypeOK
<1>1. PICK g \in Gifts :
        /\ member'[m] = Updated(member[m], member[m], GiftProducts(g), "gift")
        /\ row'[g].status = "redeemed" /\ row'[g].redeemer = m
        /\ \A h \in Gifts \ {g} : row'[h] = row[h]
  BY DEF Given, GiftGiven
<1>2. member[m].plan = "none"
  BY <1>0, <1>1, GiveAndTake
<1>3. ActiveGifts(m) = {} /\ member[m].products = {}
  BY <1>2 DEF ExactMember, Given
<1>4. member'[m].products = GiftProducts(g) /\ member'[m].status = "gift"
  BY <1>0, <1>1, <1>3, GiveAndTake
<1>5. ActiveGifts(m)' = {g}
  BY <1>1, <1>3 DEF ActiveGifts
<1> QED
  BY <1>4, <1>5 DEF ExactMember, GiftProducts

\* Who loses the gift loses its product and its status.
LEMMA ExactTaken ==
  ASSUME IInv, NEW m \in Members, ExactMember(m), Taken(m), NEW g \in Gifts,
         row[g].status = "redeemed", row[g].redeemer = m, row'[g].status # "redeemed",
         \A h \in Gifts \ {g} : row'[h] = row[h]
  PROVE  ExactMember(m)'
<1> SUFFICES ASSUME member'[m].plan = "none" PROVE ExactMember(m)'
  BY DEF ExactMember
<1>0. member[m] \in Accounts
  BY DEF IInv, TypeOK
<1>1. member'[m] = Updated(member[m], member[m], {}, "free")
  BY DEF Taken, GiftTaken
<1>2. member[m].plan = "none"
  BY <1>0, <1>1, GiveAndTake
<1>3. g \in ActiveGifts(m)
  BY DEF ActiveGifts
<1>4. ActiveGifts(m) = {g} /\ member[m].products # {}
  BY <1>2, <1>3 DEF ExactMember
<1>5. member'[m].products = {} /\ member'[m].status = "free"
  BY <1>0, <1>1, <1>4, GiveAndTake
<1>6. ActiveGifts(m)' = {}
  BY <1>4 DEF ActiveGifts
<1> QED
  BY <1>5, <1>6 DEF ExactMember

LEMMA HandlerKeepsExact ==
  ASSUME IInv, Backed, PayInv, Exact, NEW p \in Procs, Handler(p), [Next]_vars,
         NEW m \in Members, m \notin stray'
  PROVE  ExactMember(m)'
<1> USE DEF Rest, NothingWritten
<1> DEFINE g == job[p].gift
           seen == job[p].seen
<1>0. /\ row \in [Gifts -> Rows] /\ member \in [Members -> Accounts]
      /\ job[p] \in Jobs /\ Sane(job[p]) /\ seen \in Rows
  BY DEF IInv, TypeOK, JobsSane, Jobs
<1>s. m \notin stray /\ ExactMember(m)
  BY StrayGrows DEF Exact
<1>a. CASE Given(m)
  BY <1>s, <1>a, ExactGiven
\* One gift ends; if it was the member's, so does its access.
<1>b. ASSUME NEW h \in Gifts, NEW r \in Rows, row' = [row EXCEPT ![h] = r],
             r.status \notin {"purchased", "redeemed"},
             row[h].status = "redeemed" /\ row[h].redeemer = m =>
               Taken(m) \/ member[m].status # "gift",
             ~(row[h].status = "redeemed" /\ row[h].redeemer = m) => member'[m] = member[m]
      PROVE  ExactMember(m)'
  <2>1. \A k \in Gifts \ {h} : row'[k] = row[k]
    BY <1>0, <1>b
  <2>2. row'[h].status # "redeemed"
    BY <1>0, <1>b
  <2>3. CASE row[h].status = "redeemed" /\ row[h].redeemer = m /\ Taken(m)
    BY <1>s, <2>1, <2>2, <2>3, ExactTaken
  <2>4. CASE /\ row[h].status = "redeemed" /\ row[h].redeemer = m
             /\ ~Taken(m) /\ member[m].status # "gift"
    <3>1. h \in ActiveGifts(m)
      BY <2>4 DEF ActiveGifts
    <3>2. member[m].plan # "none"
      BY <1>s, <2>4, <3>1 DEF ExactMember
    <3>3. member'[m] = member[m] \/ Given(m)
      BY <2>4, HandlerMembers
    <3> QED
      BY <1>a, <3>2, <3>3 DEF ExactMember
  <2>5. CASE ~(row[h].status = "redeemed" /\ row[h].redeemer = m)
    <3>1. member'[m] = member[m]
      BY <1>b, <2>5
    <3> QED
      BY <1>s, <2>1, <2>2, <2>5, <3>1, ExactStays
  <2> QED
    BY <1>b, <2>3, <2>4, <2>5
\* No gift comes to the member or goes.
<1>c. ASSUME member'[m] = member[m],
             \A h \in Gifts : row'[h] # row[h] =>
               /\ ~(row[h].status = "redeemed" /\ row[h].redeemer = m)
               /\ ~(row'[h].status = "redeemed" /\ row'[h].redeemer = m)
      PROVE  ExactMember(m)'
  BY <1>s, <1>c, ExactStays
<1>1. CASE RedeemWrites(p)
  <2> DEFINE r == [Became(seen, "redeemed") EXCEPT !.redeemer = job[p].member]
  <2>1. g \in Gifts /\ HoldsGift(p, g) /\ job[p].member \in Members
    BY <1>0, <1>1 DEF RedeemWrites, Sane, HoldsGift
  <2>2. row[g].status = "purchased"
    BY <1>1, <2>1 DEF IInv, SeenIsRow, RedeemWrites
  <2>3. CASE UNCHANGED <<row, member>>
    BY <1>c, <2>3
  <2>4. CASE MayRedeem(p) /\ m # job[p].member
    <3>1. r.redeemer = job[p].member
      BY <1>0, RowFacts DEF Rows
    <3>2. row' = [row EXCEPT ![g] = r] /\ member'[m] = member[m]
      BY <1>0, <1>1, <2>1, <2>4 DEF RedeemWrites
    <3> HIDE DEF r
    <3> QED
      BY <1>0, <1>c, <2>1, <2>2, <2>4, <3>1, <3>2
  <2>5. CASE MayRedeem(p) /\ m = job[p].member
    <3>1. row'[g].status = "redeemed" /\ row'[g].redeemer = m
      <4>1. r.redeemer = job[p].member /\ r.status = "redeemed"
        BY <1>0, RowFacts DEF Rows
      <4>2. row' = [row EXCEPT ![g] = r]
        BY <1>1, <2>5 DEF RedeemWrites
      <4> HIDE DEF r
      <4> QED
        BY <1>0, <2>1, <2>5, <4>1, <4>2
    <3>2. member'[m] = GiftGiven(m, g) /\ \A h \in Gifts \ {g} : row'[h] = row[h]
      BY <1>0, <1>1, <2>5 DEF RedeemWrites
    <3>3. member[m].status \in {"absent", "free"}
      BY <1>1, <1>s, <2>1, <2>5
      DEF MayRedeem, PayInv, HeldIsFree, HoldsMember, RedeemWrites
    <3> QED
      BY <1>a, <2>1, <3>1, <3>2, <3>3 DEF Given
  <2> QED
    BY <1>1, <2>3, <2>4, <2>5 DEF RedeemWrites
<1>2. CASE ReassignWrites(p)
  <2> DEFINE r == [seen EXCEPT !.redeemer = job[p].member]
  <2>1. g \in Gifts /\ HoldsGift(p, g) /\ job[p].member \in Members
    BY <1>0, <1>2 DEF ReassignWrites, IsAt, Sane, HoldsGift
  <2>2. row[g].redeemer = NoMember /\ seen.status = "redeemed"
    BY <1>2, <2>1 DEF IInv, SeenIsRow, ReassignWrites, IsAt
  <2>3. CASE UNCHANGED <<row, member>>
    BY <1>c, <2>3
  <2>4. r.redeemer = job[p].member /\ r.status = "redeemed"
    BY <1>0, <2>2 DEF Rows
  <2>5. CASE MayReassign(p) /\ m # job[p].member
    <3>1. row' = [row EXCEPT ![g] = r] /\ member'[m] = member[m]
      BY <1>0, <1>2, <2>1, <2>5 DEF ReassignWrites
    <3> HIDE DEF r
    <3> QED
      BY <1>0, <1>c, <2>1, <2>2, <2>4, <2>5, <3>1, GiftAssumption
  <2>6. CASE MayReassign(p) /\ m = job[p].member
    <3>1. row' = [row EXCEPT ![g] = r] /\ member'[m] = GiftGiven(m, g)
      BY <1>0, <1>2, <2>1, <2>6 DEF ReassignWrites
    <3>2. ActiveGifts(m) = {} /\ member[m].status \in {"absent", "free"}
      BY <1>2, <1>s, <2>6 DEF ReassignWrites, MayReassign, Backed, BackedMember
    <3> HIDE DEF r
    <3> QED
      BY <1>0, <1>a, <2>1, <2>4, <2>6, <3>1, <3>2 DEF Given
  <2> QED
    BY <1>2, <2>3, <2>5, <2>6 DEF ReassignWrites
<1>3. CASE RefundWrites(p)
  <2> DEFINE k == seen.redeemer
  <2>1. /\ g \in Gifts /\ Became(seen, "refunded") \in Rows
        /\ Became(seen, "refunded").status = "refunded"
        /\ row' = [row EXCEPT ![g] = Became(seen, "refunded")]
    BY <1>0, <1>3, RowFacts DEF RefundWrites, IsAt, Sane
  <2>2. /\ m \in {k, row[g].redeemer} => row[g] = seen
        /\ m = k => member[m] = job[p].who
                    /\ (seen.status = "redeemed" \/ member[m].status # "gift")
    BY <1>3 DEF RefundWrites
  <2>3. m # k => member'[m] = member[m]
    BY <1>0, <1>3 DEF RefundWrites
  <2>4. m = k /\ member[m].status = "gift" => Taken(m)
    BY <1>0, <1>3, <2>2, GiftAssumption DEF RefundWrites, Taken
  <2>5. m = k /\ member[m].status # "gift" => member'[m] = member[m]
    BY <1>0, <1>3, <2>2 DEF RefundWrites
  <2> QED
    BY <1>b, <2>1, <2>2, <2>3, <2>4, <2>5
<1>4. CASE ConsumeWrites(p)
  <2>1. /\ g \in Gifts /\ Became(row[g], "consumed") \in Rows
        /\ Became(row[g], "consumed").status = "consumed"
    BY <1>0, <1>4, RowFacts DEF ConsumeWrites, IsAt, Sane
  <2>2. member' = member
    BY <1>4 DEF ConsumeWrites
  <2>3. CASE row' = row
    BY <1>c, <2>2, <2>3
  <2>4. CASE /\ row' = [row EXCEPT ![g] = Became(row[g], "consumed")]
             /\ m = row[g].redeemer => member[m].status # "gift"
    BY <1>b, <2>1, <2>2, <2>4
  <2> QED
    BY <1>4, <2>3, <2>4 DEF ConsumeWrites
<1>5. CASE CleanWrites(p)
  <2> DEFINE k == seen.redeemer
  <2>1. /\ g \in Gifts /\ HoldsGift(p, g) /\ Became(seen, "consumed") \in Rows
        /\ Became(seen, "consumed").status = "consumed"
        /\ row' = [row EXCEPT ![g] = Became(seen, "consumed")]
    BY <1>0, <1>5, RowFacts DEF CleanWrites, IsAt, Sane, HoldsGift
  <2>2. seen = row[g] /\ row[g].status = "redeemed"
    BY <1>5, <2>1 DEF IInv, SeenIsRow, CleanWrites, IsAt
  <2>3. m # k => member'[m] = member[m]
    BY <1>0, <1>5 DEF CleanWrites
  <2>4. m = k => Taken(m) \/ member[m].status # "gift"
    BY <1>0, <1>5, GiftAssumption DEF CleanWrites, Taken
  <2> QED
    BY <1>b, <2>1, <2>2, <2>3, <2>4
<1>6. CASE \E h \in Gifts : ExpireWrites(p, h)
  <2>1. PICK h \in Gifts : ExpireWrites(p, h)
    BY <1>6
  <2>2. Became(row[h], "expired").status = "expired"
    BY <1>0, RowFacts
  <2> QED
    BY <1>0, <1>c, <2>1, <2>2 DEF ExpireWrites
<1>7. CASE RemindWrites(p)
  <2>1. g \in Gifts /\ HoldsGift(p, g)
    BY <1>0, <1>7 DEF RemindWrites, IsAt, Sane, HoldsGift
  <2>2. seen = row[g]
    BY <2>1 DEF IInv, SeenIsRow
  <2>3. \A h \in Gifts : row'[h].status = row[h].status /\ row'[h].redeemer = row[h].redeemer
    BY <1>0, <1>7, <2>1, <2>2 DEF RemindWrites, Rows
  <2> QED
    BY <1>7, <1>s, <2>3, ExactStays DEF RemindWrites
<1>8. CASE PurchaseWrites(p)
  BY <1>0, <1>8, <1>c, RowFacts DEF PurchaseWrites
<1>9. CASE \/ RedeemLocksGift(p) \/ ReassignLocksGift(p) \/ RefundReadsMember(p)
           \/ JobStarts(p) \/ RemindSends(p) \/ Aborts(p)
           \/ \E h \in Gifts : JobLocksGift(p, h)
  BY <1>9, <1>c DEF RedeemLocksGift, ReassignLocksGift, RefundReadsMember, JobStarts,
                    RemindSends, Aborts, JobLocksGift
<1> QED
  BY <1>1, <1>2, <1>3, <1>4, <1>5, <1>6, <1>7, <1>8, <1>9 DEF Handler

\* A deleted account keeps no subscription.
AbsentHasNoPlan ==
  \A m \in Members \ stray : member[m].status = "absent" => member[m].plan = "none"

LEMMA AbsentHasNoPlanStep ==
  ASSUME IInv, Backed, PayInv, AbsentHasNoPlan, [Next]_vars
  PROVE  AbsentHasNoPlan'
<1>0. member \in [Members -> Accounts] /\ stray \subseteq stray'
  BY StrayGrows DEF IInv, TypeOK
<1> SUFFICES ASSUME NEW m \in Members, m \notin stray', member'[m].status = "absent"
             PROVE  member'[m].plan = "none"
  BY DEF AbsentHasNoPlan
<1>1. member[m] \in Accounts /\ (member[m].status = "absent" => member[m].plan = "none")
  BY <1>0 DEF AbsentHasNoPlan
<1>2. Given(m) => member'[m].plan = "none"
  BY <1>1, GiveAndTake DEF Given, GiftGiven
<1>3. ~Taken(m)
  BY <1>1, GiveAndTake DEF Taken, GiftTaken
<1>4. ~Swept(m)
  BY <1>1 DEF Swept, Accounts
<1>5. ~Joins(m) /\ ~LinkActive(m) /\ ~LinkEnded(m)
  BY <1>0 DEF Joins, LinkActive, LinkEnded, FreeAccount, NoAccount
<1>6. Deleted(m) => member'[m].plan = "none"
  BY <1>0 DEF Deleted, NoAccount
<1> QED
  BY <1>1, <1>2, <1>3, <1>4, <1>5, <1>6, NextMembers

LEMMA NextKeepsExact ==
  ASSUME IInv, Backed, PayInv, AbsentHasNoPlan, Exact, [Next]_vars
  PROVE  Exact'
<1> SUFFICES ASSUME NEW m \in Members, m \notin stray' PROVE ExactMember(m)'
  BY DEF Exact
<1>0. /\ row \in [Gifts -> Rows] /\ member \in [Members -> Accounts] /\ m # NoMember
      /\ m \notin stray /\ ExactMember(m)
      /\ member[m].status = "absent" => member[m].plan = "none"
  BY StrayGrows, GiftAssumption DEF IInv, TypeOK, Exact, AbsentHasNoPlan
<1>1. ASSUME UNCHANGED row, member'[m] = member[m] PROVE ExactMember(m)'
  BY <1>0, <1>1, ExactStays
<1>2. ASSUME NEW p \in Procs, Handler(p) PROVE ExactMember(m)'
  BY <1>2, HandlerKeepsExact
<1>3. ASSUME NEW p \in Procs, Request(p) PROVE UNCHANGED <<row, member>>
  BY <1>3 DEF Request, PurchaseStarts, RefundReads, RedeemLocksMember, SignupLocksGift,
              ReassignStarts, ActivationStarts, NothingWritten
<1>4. ASSUME NEW k \in Members, Joins(k) PROVE ExactMember(m)'
  <2>1. CASE k # m
    BY <1>0, <1>1, <1>4, <2>1 DEF Joins
  <2>2. CASE k = m
    <3>1. ActiveGifts(m) = {}
      BY <1>0, <1>4, <2>2 DEF Joins, ExactMember
    <3>2. member'[m] = FreeAccount /\ ActiveGifts(m)' = {}
      BY <1>0, <1>4, <2>2, <3>1 DEF Joins, ActiveGifts
    <3> QED
      BY <3>2 DEF ExactMember, FreeAccount, NoAccount
  <2> QED
    BY <2>1, <2>2
<1>5. ASSUME NEW k \in Members, LinkActive(k) \/ LinkEnded(k) PROVE ExactMember(m)'
  <2>1. CASE k # m
    BY <1>0, <1>1, <1>5, <2>1 DEF LinkActive, LinkEnded
  <2>2. CASE k = m
    <3>1. member'[m].plan \in {"active", "ended"}
      BY <1>0, <1>5, <2>2 DEF LinkActive, LinkEnded
    <3> QED
      BY <3>1 DEF ExactMember
  <2> QED
    BY <2>1, <2>2
<1>6. ASSUME NEW k \in Members, Deleted(k) PROVE ExactMember(m)'
  <2>0. k # NoMember /\ \A g \in Gifts :
          row'[g] = IF row[g].redeemer = k THEN [row[g] EXCEPT !.redeemer = NoMember]
                    ELSE row[g]
    BY <1>6, GiftAssumption DEF Deleted
  <2>1. \A g \in Gifts : /\ row'[g].status = row[g].status
                         /\ row'[g].redeemer = IF row[g].redeemer = k THEN NoMember
                                               ELSE row[g].redeemer
    BY <1>0, <2>0 DEF Rows
  <2>2. CASE k # m
    <3>1. member'[m] = member[m]
      BY <1>0, <1>6, <2>2 DEF Deleted
    <3> QED
      BY <1>0, <2>1, <2>2, <3>1, ExactStays
  <2>3. CASE k = m
    <3>1. member'[m] = NoAccount /\ ActiveGifts(m)' = {}
      BY <1>0, <1>6, <2>1, <2>3 DEF Deleted, ActiveGifts
    <3> QED
      BY <3>1 DEF ExactMember, NoAccount
  <2> QED
    BY <2>2, <2>3
<1>7. CASE Sweeps
  <2>1. UNCHANGED row
    BY <1>7 DEF Sweeps
  <2>2. CASE member'[m] = member[m]
    BY <1>1, <2>1, <2>2
  <2>3. CASE member'[m] # member[m]
    <3>1. member[m].status = "comped" /\ member'[m].plan = member[m].plan
      BY <1>0, <1>7, <2>3 DEF Sweeps, Accounts
    <3> QED
      BY <1>0, <3>1 DEF ExactMember
  <2> QED
    BY <2>2, <2>3
<1>8. CASE UNCHANGED vars \/ \E g \in Gifts : Tick(g)
  BY <1>1, <1>8 DEF vars, Tick
<1>9. ASSUME NEW k \in Members, EventLost(k) PROVE ExactMember(m)'
  BY <1>1, <1>9 DEF EventLost
<1> QED
  BY <1>1, <1>2, <1>3, <1>4, <1>5, <1>6, <1>7, <1>8, <1>9 DEF Next, Account

\* Status, products and gifts of a member go together, however many gifts
\* there are and whatever overlaps.
THEOREM AccessGoesWithTheGift == Spec => []AccessWhileActive
<1>1. Init => Exact /\ AbsentHasNoPlan
  <2> SUFFICES ASSUME Init, NEW m \in Members
               PROVE  ExactMember(m) /\ member[m].plan = "none"
    BY DEF Exact, AbsentHasNoPlan
  <2>1. /\ member[m].status \in {"absent", "free"} /\ member[m].plan = "none"
        /\ member[m].products = {}
    BY DEF Init, NoAccount, FreeAccount
  <2>2. ActiveGifts(m) = {}
    BY DEF Init, Absent, ActiveGifts
  <2> QED
    BY <2>1, <2>2 DEF ExactMember
<1>2. IInv /\ (Backed /\ PayInv) /\ (Exact /\ AbsentHasNoPlan) /\ [Next]_vars =>
        (Backed /\ PayInv)' /\ (Exact /\ AbsentHasNoPlan)'
  BY NextBacked, PayInvStep, NextKeepsExact, AbsentHasNoPlanStep
<1>3. Exact => AccessWhileActive
  BY DEF Exact, ExactMember, AccessWhileActive
<1> QED
  BY <1>1, <1>2, <1>3, InitBackedPay, InitIInv, NextIInv, PTL DEF Spec

=============================================================================
