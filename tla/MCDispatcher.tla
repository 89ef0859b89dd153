---------------------------- MODULE MCDispatcher ----------------------------
(* TLC instances of Dispatcher. *)
EXTENDS Dispatcher

\* The instance is one in which the grid is long enough for the rounds.
ASSUME GridOutlastsRounds
=============================================================================
