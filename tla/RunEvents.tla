------------------------------- MODULE RunEvents -------------------------------
(***************************************************************************)
(* What a run announces and what `sorrow run` makes of it.  The event      *)
(* run.finished is split by its status: "finished" and "failed" are the    *)
(* run's verdicts, every other type is an event on the way.                *)
(***************************************************************************)
EXTENDS Naturals, Sequences

Verdicts == {"finished", "failed"}
\* An event of the engine whose text cannot be encoded, whatever its type.
Garbled == "garbled"
EventTypes == Verdicts \cup
  {"run.started", "agent.progress", Garbled, "agent.memory.failed", "agent.answer", "agent.error"}

\* The exit codes 0, 1 and 130 of the CLI, and a CLI that has not exited.
ExitCodes == {"ok", "error", "interrupted"}
StillRunning == "running"
ExitOf(verdict) == IF verdict = "finished" THEN "ok" ELSE "error"

VerdictsIn(events) == {i \in DOMAIN events : events[i] \in Verdicts}
===============================================================================
