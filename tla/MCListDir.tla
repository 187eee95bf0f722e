------------------------------- MODULE MCListDir -------------------------------
(* Small instances of ListDir for TLC. *)
EXTENDS ListDir

\* Keywords that nothing, some of the paths, and all of them match.
MCMatching == {{}, {2, 3, 5}, 1..Nodes}
===============================================================================
