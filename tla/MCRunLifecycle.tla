---------------------------- MODULE MCRunLifecycle ----------------------------
(* Small instances of RunLifecycle for TLC. *)
EXTENDS RunLifecycle

CONSTANTS wide, bare   \* a plan that delegates one step, a plan that delegates none

MCPlans == {wide, bare}
MCSubSteps == [p \in MCPlans |-> IF p = wide THEN 1 ELSE 0]
===============================================================================
