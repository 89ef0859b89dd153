---------------------------- MODULE MCObjectives ----------------------------
(* TLC instances of Objectives. *)
EXTENDS Objectives, TLC

CONSTANTS depot, rim

TwoOrigins == {depot, rim}

\* Objectives 1 to 3 are of the first level, 4 of the second.  Rovers ask from
\* the depot and from the rim, where objective 3 is.
FourObjectives == <<0, 0, 0, 1>>
FourDistances ==
    (depot :> <<1, 2, 3, 1>>) @@ (rim :> <<4, 2, 0, 2>>)
=============================================================================
