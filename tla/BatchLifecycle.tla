--------------------------- MODULE BatchLifecycle ---------------------------
(***************************************************************************)
(* What sending promises about each batch of an email, with containers,    *)
(* jobs, workers, locks and queues left out.  A batch row is added once;   *)
(* only a claimed batch reaches the provider; while claimed it is accepted *)
(* once per answer that gets lost and once more at most; and the outcome   *)
(* written to the row is the true one: 'submitted' if the provider holds   *)
(* the batch and Ghost knows, 'failed' only if no known delivery exists.   *)
(* A claimed batch may also stay claimed for ever.                         *)
(***************************************************************************)
EXTENDS Naturals

CONSTANT Batches

VARIABLES batch, accepted, lost

vars == <<batch, accepted, lost>>

Init ==
  /\ batch = [b \in Batches |-> "absent"]
  /\ accepted = [b \in Batches |-> 0]
  /\ lost = [b \in Batches |-> 0]

\* An accepted call is outstanding or known: the provider holds the batch.
Delivered(b) == accepted[b] = lost[b] + 1

Becomes(b, status) ==
  /\ batch' = [batch EXCEPT ![b] = status]
  /\ UNCHANGED <<accepted, lost>>

Add(b)             == batch[b] = "absent" /\ Becomes(b, "pending")
Claim(b)           == batch[b] \in {"pending", "failed"} /\ Becomes(b, "submitting")
RecordSubmitted(b) == batch[b] = "submitting" /\ Delivered(b) /\ Becomes(b, "submitted")
RecordFailed(b)    == batch[b] = "submitting" /\ accepted[b] = lost[b] /\ Becomes(b, "failed")

Deliver(b) ==
  /\ batch[b] = "submitting"
  /\ accepted[b] = lost[b]
  /\ accepted' = [accepted EXCEPT ![b] = @ + 1]
  /\ UNCHANGED <<batch, lost>>

LoseReply(b) ==
  /\ batch[b] = "submitting"
  /\ Delivered(b)
  /\ lost' = [lost EXCEPT ![b] = @ + 1]
  /\ UNCHANGED <<batch, accepted>>

Next ==
  \E b \in Batches :
    \/ Add(b) \/ Claim(b) \/ Deliver(b) \/ LoseReply(b)
    \/ RecordSubmitted(b) \/ RecordFailed(b)

Spec == Init /\ [][Next]_vars

=============================================================================
