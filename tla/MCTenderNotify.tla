---------------------------- MODULE MCTenderNotify ----------------------------
(* Instances of TenderNotify for TLC.                                       *)
EXTENDS TenderNotify, TLC

CONSTANTS p1, p2, m1, t1, t2

\* One alert, on both channels.
OneAlert == [m \in Members |-> {{"telegram", "email"}}]

Symmetry == Permutations(Procs) \cup Permutations(Tenders)

=============================================================================
