----------------------------- MODULE RecordWindow -----------------------------
(***************************************************************************)
(* The part of a record sequence that is handed to the model word for      *)
(* word.  memory.py keeps the last ten records, newest first, and stops    *)
(* when its character budget is spent (6000 characters, at most about 1200 *)
(* per record), so a fixed number of the newest records always fits.       *)
(***************************************************************************)
EXTENDS Integers, Sequences

CONSTANT Window   \* how many of the newest records fit the fallback budget

ASSUME WindowAssumption == Window \in Nat \ {0}

(***************************************************************************)
(* The records among the last Window positions of s.                       *)
(***************************************************************************)
Newest(s) == {s[i] : i \in {j \in 1..Len(s) : j + Window > Len(s)}}

(***************************************************************************)
(* The records at the first k positions of s.                              *)
(***************************************************************************)
FirstOf(s, k) == {s[i] : i \in {j \in 1..Len(s) : j <= k}}
===============================================================================
