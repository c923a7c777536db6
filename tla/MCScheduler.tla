---------------------------- MODULE MCScheduler ----------------------------
(* A small instance of Scheduler: a run may take one unit, two, or longer.    *)
EXTENDS Scheduler

Timeouts == [j \in Jobs |-> 2]
=============================================================================
