-------------------------- MODULE MCGoalExecution --------------------------
(* TLC instances of GoalExecution. *)
EXTENDS GoalExecution, TLC

\* The properties are safety properties and tell no goal from another.
Symmetry == Permutations(Goals)
=============================================================================
