-------------------------- MODULE MCServerProcess --------------------------
(* TLC instances of ServerProcess. *)
EXTENDS ServerProcess
=============================================================================
