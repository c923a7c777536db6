------------------------------ MODULE MCInbox ------------------------------
(* The inbox on a small instance. *)
EXTENDS Inbox, TLC

AgentSymmetry == {p @@ q : p \in Permutations(Agents), q \in Permutations(Teams)}
=============================================================================
