-------------------------- MODULE MCNewsletterSend --------------------------
(* Instances of NewsletterSend for TLC: interchangeable containers and       *)
(* requests, and the worker pair of MAX_SENDING_CONCURRENCY.                 *)
EXTENDS NewsletterSend, TLC

CONSTANTS p1, p2, q1, q2, w1, w2

\* Safety runs only: a symmetry set is unsound for liveness.
Symmetry == Permutations(Procs) \cup Permutations(Requests)
              \cup Permutations(Workers)

=============================================================================
