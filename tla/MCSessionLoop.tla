--------------------------- MODULE MCSessionLoop ---------------------------
(* Instances of SessionLoop for TLC. *)
EXTENDS SessionLoop

CONSTANTS s1, s2
=============================================================================
