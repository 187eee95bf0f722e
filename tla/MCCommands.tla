------------------------------- MODULE MCCommands -------------------------------
(* Small instances of Commands for TLC. *)
EXTENDS Commands, TLC

\* Processes are interchangeable.
Symmetry == Permutations(Processes)
===============================================================================
