------------------------------ MODULE SessionLog ------------------------------
(***************************************************************************)
(* What a session's memory promises, without saying how: a log of finished *)
(* runs and, at every moment, a context for the next run made of a digest  *)
(* of the k oldest runs, for some k, and of the newest of the others.      *)
(* Nothing recent is ever missing, nothing foreign appears, and the        *)
(* digested part has no gap.                                               *)
(*                                                                         *)
(* A save may fail, and leave its run in the log or not.  Only behind such *)
(* a failure may a later save be lost, may the failed one disappear again, *)
(* and may the session break, so that nothing is told of it any more.      *)
(***************************************************************************)
EXTENDS RecordWindow

CONSTANT Runs     \* the runs that may finish in the session

VARIABLES log,       \* the remembered runs, oldest first
          context,   \* the runs the next agent run is told about
          failed,    \* the runs whose save was reported as failed
          broken     \* nothing is promised any more

vars == <<log, context, failed, broken>>

(***************************************************************************)
(* The contexts the promise allows for the log l.                          *)
(***************************************************************************)
ContextsOf(l) ==
  {FirstOf(l, k) \cup Newest(SubSeq(l, k + 1, Len(l))) : k \in 0..Len(l)}

Init ==
  /\ log = << >>
  /\ context = {}
  /\ failed = {}
  /\ broken = FALSE

Saved(r) == \E i \in 1..Len(log) : log[i] = r

\* The newest record disappears again, if its save had failed.
LastFailed == log # << >> /\ log[Len(log)] \in failed
Retract == LastFailed /\ log' = SubSeq(log, 1, Len(log) - 1)

(***************************************************************************)
(* A run is remembered; it is part of the very next context.               *)
(***************************************************************************)
Save(r) ==
  /\ ~Saved(r)
  /\ log' = Append(log, r)
  /\ UNCHANGED failed

\* Behind a failed save, one is lost that returned.
SaveBehind ==
  /\ failed # {}
  /\ Retract \/ log' = log
  /\ UNCHANGED failed

SaveFails(r) ==
  /\ r \notin failed
  /\ \/ Retract \/ log' = log
     \/ ~Saved(r) /\ log' = Append(log, r)
  /\ failed' = failed \cup {r}

(***************************************************************************)
(* The digest is extended, lost or rebuilt behind the readers' back.       *)
(***************************************************************************)
Redigest == UNCHANGED <<log, failed>>

Next ==
  /\ Redigest \/ SaveBehind \/ \E r \in Runs : Save(r) \/ SaveFails(r)
  /\ broken => broken'
  /\ broken' => failed' # {}
  /\ IF broken' THEN context' = {} ELSE context' \in ContextsOf(log')

Spec == Init /\ [][Next]_vars
===============================================================================
