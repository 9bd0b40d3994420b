----------------------------- MODULE MCPipeline -----------------------------
(* Small instances of the pipeline for TLC. *)
EXTENDS Pipeline

Utterances == {turns \cup {} : turns \in SUBSET (1..MaxTurn)}
=============================================================================
