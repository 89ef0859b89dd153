-------------------------- MODULE MCScheduleBatch --------------------------
(* TLC instances of ScheduleBatch. *)
EXTENDS ScheduleBatch

CONSTANTS r1, r2

OneRover == {r1}
TwoRovers == {r1, r2}
TwoTimes == {1, 2}
OneTime == {1}

=============================================================================
