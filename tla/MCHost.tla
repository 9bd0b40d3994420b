------------------------------- MODULE MCHost -------------------------------
(* A small instance of the pipeline and one client for TLC. *)
EXTENDS Host, TLC
=============================================================================
