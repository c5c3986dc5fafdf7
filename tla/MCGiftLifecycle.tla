--------------------------- MODULE MCGiftLifecycle ---------------------------
(* Instances of GiftLifecycle for TLC: one gift of the tier that is also    *)
(* sold by subscription, one of another tier.                               *)
EXTENDS GiftLifecycle, TLC

CONSTANTS p1, p2, g1, g2, m1, m2, basic, extra

MCTierOf == [g \in Gifts |-> IF g = g1 THEN basic ELSE extra]

\* Handlers and members are interchangeable, the two gifts are not.
Symmetry == Permutations(Procs) \cup Permutations(Members)

=============================================================================
