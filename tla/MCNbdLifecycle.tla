---------------------------- MODULE MCNbdLifecycle ----------------------------
(* The cfg gives the bounds of NbdLifecycle their values: two requests, one  *)
(* pending while the other is replied to, and two signals.                   *)
EXTENDS NbdLifecycle
=============================================================================
