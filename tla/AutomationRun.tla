---------------------------- MODULE AutomationRun ----------------------------
(***************************************************************************)
(* What an automation promises about each member that enters it, with      *)
(* step rows, locks, polls and timers left out.  A run begins at the first *)
(* action, stands at one action at a time, goes on to the action that      *)
(* follows in the path as it is when the current one ends, and once over   *)
(* stays over.  An automation that is switched off lets no run begin or go *)
(* on; what an editor does to the path shows at the next move.             *)
(***************************************************************************)
EXTENDS Naturals, Sequences

CONSTANTS Runs, Paths, NoAction

VARIABLES active, path, stage, at

vars == <<active, path, stage, at>>

Init ==
  /\ active \in BOOLEAN
  /\ path \in Paths
  /\ stage = [r \in Runs |-> "none"]
  /\ at = [r \in Runs |-> NoAction]

Moves(r, to, action) ==
  /\ stage' = [stage EXCEPT ![r] = to]
  /\ at' = [at EXCEPT ![r] = action]
  /\ UNCHANGED <<active, path>>

Begin(r) ==
  /\ active
  /\ stage[r] = "none"
  /\ Moves(r, "on", path[1])

GoOn(r) ==
  /\ active
  /\ stage[r] = "on"
  /\ \E i \in 1..(Len(path) - 1) :
       path[i] = at[r] /\ Moves(r, "on", path[i + 1])

\* The last action was done, the member left, the action failed for good, ...
End(r) ==
  /\ stage[r] = "on"
  /\ Moves(r, "over", NoAction)

\* Switching the automation off ends runs, those that wait.
Edit ==
  /\ active' \in BOOLEAN
  /\ path' \in Paths
  /\ \E S \in SUBSET {r \in Runs : stage[r] = "on"} :
       /\ active' => S = {}
       /\ stage' = [r \in Runs |-> IF r \in S THEN "over" ELSE stage[r]]
       /\ at' = [r \in Runs |-> IF r \in S THEN NoAction ELSE at[r]]

Next == Edit \/ \E r \in Runs : Begin(r) \/ GoOn(r) \/ End(r)

Spec == Init /\ [][Next]_vars

=============================================================================
