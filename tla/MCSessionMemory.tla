---------------------------- MODULE MCSessionMemory ----------------------------
(* Small instances of SessionMemory for TLC. *)
EXTENDS SessionMemory, TLC

\* Runs and workers are interchangeable; no action orders them.
Symmetry == Permutations(Runs) \cup Permutations(Workers)
===============================================================================
