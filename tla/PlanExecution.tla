----------------------------- MODULE PlanExecution -----------------------------
(***************************************************************************)
(* What an agent run promises about its plan, without the graph, the ReAct *)
(* loop, signals, tools or budgets that get it there: a plan is worked off *)
(* from the front, one step at a time; planning again keeps the completed  *)
(* part and its answers unless the whole plan is thrown away, and both     *)
(* kinds happen a bounded number of times; a run that finishes has         *)
(* answered every step of its last plan.                                   *)
(***************************************************************************)
EXTENDS Integers, Sequences

CONSTANTS Ids, MaxPlanSteps, MaxReplanCount, MaxStepReplanCount

VARIABLES plan,      \* the present plan; empty before there is one
          whole,     \* how many whole plans were made
          partial,   \* how often the rest of a plan was replaced
          verdict    \* "running", "finished" or "failed"

vars == <<plan, whole, partial, verdict>>

Unanswered == [rev |-> 0, pos |-> 0]
Fresh(id, position) ==
  [id |-> id, task |-> [rev |-> whole + partial + 1, pos |-> position],
   done |-> FALSE, answer |-> Unanswered]

\* The first n steps are answered, and no other.
Answered(n) == \A i \in 1..Len(plan) : plan[i].done <=> i <= n

\* Any task posed so far.
Posed == [rev : 1..whole + partial, pos : 1..MaxPlanSteps * (1 + MaxStepReplanCount)]

Init ==
  /\ plan = << >>
  /\ whole = 0
  /\ partial = 0
  /\ verdict = "running"

PlanWhole ==
  /\ whole <= MaxReplanCount
  /\ \E n \in 1..MaxPlanSteps : \E ids \in [1..n -> Ids] :
       plan' = [i \in 1..n |-> Fresh(ids[i], i)]
  /\ whole' = whole + 1
  /\ UNCHANGED <<partial, verdict>>

PlanRest ==
  /\ partial < MaxStepReplanCount
  /\ \E kept \in 0..Len(plan) - 1 : \E n \in 1..MaxPlanSteps :
       /\ Answered(kept)
       /\ plan' = SubSeq(plan, 1, kept) \o [i \in 1..n |-> Fresh(kept + i, kept + i)]
  /\ partial' = partial + 1
  /\ UNCHANGED <<whole, verdict>>

Answer ==
  /\ \E next \in 1..Len(plan) : \E task \in Posed :
       /\ Answered(next - 1)
       /\ plan' = [plan EXCEPT ![next].done = TRUE, ![next].answer = task]
  /\ UNCHANGED <<whole, partial, verdict>>

Finish ==
  /\ plan # << >>
  /\ Answered(Len(plan))
  /\ verdict' = "finished"
  /\ UNCHANGED <<plan, whole, partial>>

GiveUp ==
  /\ verdict' = "failed"
  /\ UNCHANGED <<plan, whole, partial>>

Next ==
  /\ verdict = "running"
  /\ PlanWhole \/ PlanRest \/ Answer \/ Finish \/ GiveUp

Spec == Init /\ [][Next]_vars
===============================================================================
