---------------------------- MODULE MCRoverCycle ----------------------------
(* TLC instances of RoverCycle. *)
EXTENDS RoverCycle

CONSTANTS r1, r2

TwoRovers == {r1, r2}

\* The flag of the request in README.md, a flag with a case and one that
\* handle_add_request does not let through.
SomeFlags == {POWER_REQUEST, LOW_BATTERY, 11}
=============================================================================
