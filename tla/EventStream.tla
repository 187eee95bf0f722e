------------------------------ MODULE EventStream ------------------------------
(***************************************************************************)
(* What the daemon promises to the CLI that started a run: it is shown     *)
(* what the run published, from the first event on, in order and without a *)
(* gap, and exits with the code of the first verdict it is shown; or it    *)
(* stops early and never claims success.                                   *)
(***************************************************************************)
EXTENDS RunEvents

CONSTANT Clients      \* each starts one run, which bears its name

VARIABLES published,  \* the events of each run, oldest first
          seen,       \* those of its own run that a client has printed
          code        \* a client's exit code

Init ==
  /\ published = [c \in Clients |-> << >>]
  /\ seen = [c \in Clients |-> << >>]
  /\ code = [c \in Clients |-> StillRunning]

\* Two events when the daemon reports a run that ended with an exception.
Publish(c) ==
  /\ \E more \in {<<e>> : e \in EventTypes} \cup {<<"agent.error", "failed">>} :
       published' = [published EXCEPT ![c] = @ \o more]
  /\ UNCHANGED <<seen, code>>

Show(c) ==
  /\ code[c] = StillRunning
  /\ LET n == Len(seen[c]) + 1
     IN /\ n <= Len(published[c])
        /\ seen' = [seen EXCEPT ![c] = Append(@, published[c][n])]
        /\ code' = IF published[c][n] \in Verdicts
                   THEN [code EXCEPT ![c] = ExitOf(published[c][n])] ELSE code
  /\ UNCHANGED published

GiveUp(c) ==
  /\ code[c] = StillRunning
  /\ code' \in {[code EXCEPT ![c] = x] : x \in {"error", "interrupted"}}
  /\ UNCHANGED <<published, seen>>

Next == \E c \in Clients : Publish(c) \/ Show(c) \/ GiveUp(c)

Spec == Init /\ [][Next]_<<published, seen, code>>
===============================================================================
