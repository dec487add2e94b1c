------------------------- MODULE MCSessionReattach -------------------------
(* TLC instances of SessionReattach. *)
EXTENDS SessionReattach
=============================================================================
