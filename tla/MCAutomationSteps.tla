------------------------- MODULE MCAutomationSteps -------------------------
(* Instances of AutomationSteps for TLC: an automation of a wait and an       *)
(* email, which an editor may reorder.                                        *)
EXTENDS AutomationSteps, TLC

CONSTANTS p1, p2, r1, r2, mail, wait

MailFirst == {<<mail, wait>>}
BothOrders == {<<mail, wait>>, <<wait, mail>>}

\* Safety runs only: a symmetry set is unsound for liveness.
Symmetry == Permutations(Procs) \cup Permutations(Runs)

=============================================================================
