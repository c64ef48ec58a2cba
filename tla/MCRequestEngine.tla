--------------------------- MODULE MCRequestEngine ---------------------------
(* The cfgs give the constants of RequestEngine their values: two workers,  *)
(* so that one can serve while the other stops the engine or is blocked.    *)
EXTENDS RequestEngine
=============================================================================
