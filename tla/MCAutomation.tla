---------------------------- MODULE MCAutomation ----------------------------
(* Small instances of Automation.                                            *)
EXTENDS AutomationProofs, TLC

CONSTANTS r1, r2

ContactRule == [r \in Rules |-> "contact"]

(* Rule r1 reacts to everything, r2 to what rules publish. *)
Chained == {<<r, e>> \in Rules \X Events : r = r1 \/ e \notin People \cup Timed}

(* Replicas are interchangeable. *)
Replicas == Permutations(Consumers) \cup Permutations(WaitJobs)
=============================================================================
