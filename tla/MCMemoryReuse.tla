----------------------------- MODULE MCMemoryReuse -----------------------------
(* Small instances of MemoryReuse for TLC. *)
EXTENDS MemoryReuse, TLC

\* Runs are interchangeable; no action orders them.
Symmetry == Permutations(Runs)
===============================================================================
