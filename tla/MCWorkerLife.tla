---------------------------- MODULE MCWorkerLife ----------------------------
(* WorkerLife for TLC.                                                     *)
EXTENDS WorkerLife, TLC

Interchangeable == Permutations(Workers)
=============================================================================
