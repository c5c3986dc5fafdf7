----------------------------- MODULE GiftPromise -----------------------------
(***************************************************************************)
(* What a gift subscription promises, whatever runs at the same time: it   *)
(* is bought, is redeemed once, belongs to one member, and ends for good.  *)
(***************************************************************************)
CONSTANTS Gifts, Members, NoMember

VARIABLES
  state,    \* "none", "open" (bought), "held" (redeemed) or "over"
  holder    \* the member a held gift belongs to

promise == <<state, holder>>

Init ==
  /\ state = [g \in Gifts |-> "none"]
  /\ holder = [g \in Gifts |-> NoMember]

Buy(g) ==
  /\ state[g] = "none"
  /\ state' = [state EXCEPT ![g] = "open"]
  /\ UNCHANGED holder

Redeem(g, m) ==
  /\ state[g] = "open"
  /\ state' = [state EXCEPT ![g] = "held"]
  /\ holder' = [holder EXCEPT ![g] = m]

\* The gift of a member who is gone is given to another.
PassOn(g, m) ==
  /\ state[g] = "held" /\ holder[g] = NoMember
  /\ holder' = [holder EXCEPT ![g] = m]
  /\ UNCHANGED state

\* Used up, not redeemed in time, or refunded.
End(g) ==
  /\ state[g] \in {"open", "held"}
  /\ state' = [state EXCEPT ![g] = "over"]
  /\ holder' = [holder EXCEPT ![g] = NoMember]

\* The member is deleted.
Leave(m) ==
  /\ holder' = [g \in Gifts |-> IF holder[g] = m THEN NoMember ELSE holder[g]]
  /\ UNCHANGED state

Next ==
  \/ \E g \in Gifts : Buy(g) \/ End(g)
  \/ \E g \in Gifts, m \in Members : Redeem(g, m) \/ PassOn(g, m)
  \/ \E m \in Members : Leave(m)

Spec == Init /\ [][Next]_promise

=============================================================================
