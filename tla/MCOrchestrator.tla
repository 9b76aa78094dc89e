--------------------------- MODULE MCOrchestrator ---------------------------
(* Orchestrator for TLC: two launches with ids of their own.               *)
EXTENDS Orchestrator, TLC

UniqueIds == [r \in Requests |-> r]

Interchangeable == Permutations(Requests)
=============================================================================
