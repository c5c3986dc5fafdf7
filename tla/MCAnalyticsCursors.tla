------------------------ MODULE MCAnalyticsCursors ------------------------
(* Instances of AnalyticsCursors for TLC.                                  *)
EXTENDS AnalyticsCursors

OneDomain == [e \in Events |-> 1]

=============================================================================
