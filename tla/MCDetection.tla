---------------------------- MODULE MCDetection ----------------------------
(* Small instances of the detectors under the session machine for TLC. *)
EXTENDS Detection

CONSTANTS w1
OneText == {w1}
=============================================================================
