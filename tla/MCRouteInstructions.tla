------------------------- MODULE MCRouteInstructions -------------------------
(* TLC instances of RouteInstructions. *)
EXTENDS RouteInstructions

CONSTANTS s1, s2

TwoSectors == {s1, s2}
SomeWaits == {-1, 0, 1, 2}
=============================================================================
