------------------------------ MODULE MCRunStream ------------------------------
(* Small instances of RunStream for TLC. *)
EXTENDS RunStream, TLC

\* Clients are interchangeable; the loop's queue orders them only by arrival.
Symmetry == Permutations(Clients)
===============================================================================
