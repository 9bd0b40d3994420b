--------------------------- MODULE MCSessionTurns ---------------------------
(* A small instance of the observed session machine for TLC. *)
EXTENDS SessionTurns

CONSTANTS w1

OneText == {w1}
=============================================================================
