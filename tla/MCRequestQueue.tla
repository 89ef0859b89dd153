-------------------------- MODULE MCRequestQueue --------------------------
(* TLC instances of RequestQueue. *)
EXTENDS RequestQueue

CONSTANTS Service, Main     \* the service's spin thread, the main loop

ServiceAndMain == {Service, Main}
=============================================================================
