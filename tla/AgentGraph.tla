------------------------------ MODULE AgentGraph ------------------------------
(***************************************************************************)
(* One agent run: the outer graph of AgentEngine.py (cycle gate, planner,  *)
(* step selection, finalization) around the ReAct loop of                  *)
(* nodes/agent_loop.py with its signals, its turn budget and the subagent  *)
(* that a recoverable tool error starts.  What the model answers is        *)
(* nondeterministic; what the program does with it is not.                 *)
(*                                                                         *)
(* A step is named by the id the planner gave it (any id, also one used    *)
(* before) and by its task, here the revision and position it was planned  *)
(* at.  The answer to a task is that task, so that an answer reused for    *)
(* another task is told apart from its own.                                *)
(***************************************************************************)
EXTENDS Integers, Sequences

CONSTANTS PlannerIds,         \* step ids the planner's model may choose
          Tools,              \* registered tools
          MaxPlanSteps, MaxReplanCount, MaxStepReplanCount,
          MaxReactTurns,      \* decisions of one ReAct loop
          ThinkLimit,         \* consecutive thinks that count as overthinking
          FindingMissingThreshold

\* The id step_i is the number i; a plan never grows past the last of them.
Ids == 1..MaxPlanSteps * (1 + MaxStepReplanCount)

ASSUME AgentGraphAssumption ==
  /\ PlannerIds # {} /\ PlannerIds \subseteq Ids
  /\ MaxPlanSteps \in Nat \ {0}
  /\ MaxReplanCount \in Nat
  /\ MaxStepReplanCount \in Nat
  /\ MaxReactTurns \in Nat \ {0}
  /\ ThinkLimit \in Nat \ {0}
  /\ FindingMissingThreshold \in Nat \ {0}

VARIABLES
  pc,            \* the graph node that runs next, or how the run ended
  iterations,    \* graph_iteration_count
  plan,          \* the plan's steps; empty until the planner answered
  mode,          \* planner_mode
  revision,      \* plan_revision
  cursor,        \* current_step_index, from 1; 0 before a step was selected
  replans,       \* replan_count
  stepReplans,   \* step_replan_count
  depth,         \* 1 while the subagent runs
  frame,         \* per depth: the ReAct loop's locals and its OneRunMemory
  calls          \* model calls made for the current selection of a step

vars == <<pc, iterations, plan, mode, revision, cursor, replans, stepReplans,
          depth, frame, calls>>

\* Mutant: the iterations that plan are left out of the limit.
MaxIterationsOfSteps == MaxPlanSteps * (1 + MaxReplanCount + MaxStepReplanCount)

MaxIterations == MaxPlanSteps * (1 + MaxReplanCount + MaxStepReplanCount) + 3

\* [rev, pos]; rev is 0 for the task nobody planned.
NoTask == [rev |-> 0, pos |-> 0]

\* overthinks and noFinding count per step id; answers holds, per step id, the
\* newest entry of step_results.
EmptyFrame ==
  [turn |-> 0, thinks |-> 0, failed |-> {},
   overthinks |-> [i \in Ids |-> 0],
   noFinding |-> [i \in Ids |-> 0],
   answers |-> [i \in Ids |-> NoTask]]

Init ==
  /\ pc = "gate"
  /\ iterations = 0
  /\ plan = << >>
  /\ mode = "initial"
  /\ revision = 0
  /\ cursor = 0
  /\ replans = 0
  /\ stepReplans = 0
  /\ depth = 0
  /\ frame = [d \in 0..1 |-> EmptyFrame]
  /\ calls = 0

Step == plan[cursor]
Current == frame[depth]

\* Every failure ends the run: each node raises through the graph.
Fail == pc' = "failed"

-------------------------------------------------------------------------------
(* The outer graph.                                                        *)

(***************************************************************************)
(* _cycle_gate and _route_cycle.                                           *)
(***************************************************************************)
NeedsPlan == mode \in {"replan", "step_replan"} \/ plan = << >>

CycleGate ==
  /\ pc = "gate"
  /\ IF iterations + 1 > MaxIterations
     THEN Fail /\ UNCHANGED iterations
     ELSE /\ iterations' = iterations + 1
          /\ pc' = IF NeedsPlan THEN "planning" ELSE "selecting"
  /\ UNCHANGED <<plan, mode, revision, cursor, replans, stepReplans, depth, frame, calls>>

NewStep(id, position) ==
  [id |-> id, task |-> [rev |-> revision + 1, pos |-> position],
   done |-> FALSE, answer |-> NoTask]

(***************************************************************************)
(* planner_node, modes initial and replan: a whole new plan with the       *)
(* planner's ids.                                                          *)
(***************************************************************************)
Plan ==
  /\ pc = "planning" /\ mode \in {"initial", "replan"}
  /\ \E n \in 1..MaxPlanSteps : \E ids \in [1..n -> PlannerIds] :
       plan' = [i \in 1..n |-> NewStep(ids[i], i)]
  /\ revision' = revision + 1
  /\ mode' = "initial"
  /\ IF mode = "replan"
     THEN /\ cursor' = 1
          /\ frame' = [frame EXCEPT ![0].noFinding = [i \in Ids |-> 0]]
     ELSE UNCHANGED <<cursor, frame>>
  /\ pc' = "gate"
  /\ UNCHANGED <<iterations, replans, stepReplans, depth, calls>>

\* Mutant: the remainder replaces the whole plan.
PlanRemainderOnly ==
  /\ pc = "planning" /\ mode = "step_replan"
  /\ \E n \in 1..MaxPlanSteps : plan' = [i \in 1..n |-> NewStep(i, i)]
  /\ revision' = revision + 1
  /\ mode' = "initial"
  /\ frame' = [frame EXCEPT ![0].noFinding = [i \in Ids |-> 0]]
  /\ pc' = "gate"
  /\ UNCHANGED <<iterations, cursor, replans, stepReplans, depth, calls>>

\* Mutant: planner_mode is left as the signal set it.
PlanRemainderAgain ==
  /\ pc = "planning" /\ mode = "step_replan"
  /\ \E n \in 1..MaxPlanSteps :
       plan' = SubSeq(plan, 1, cursor - 1)
               \o [i \in 1..n |-> NewStep(cursor - 1 + i, cursor - 1 + i)]
  /\ revision' = revision + 1
  /\ frame' = [frame EXCEPT ![0].noFinding = [i \in Ids |-> 0]]
  /\ pc' = "gate"
  /\ UNCHANGED <<iterations, mode, cursor, replans, stepReplans, depth, calls>>

(***************************************************************************)
(* planner_node, mode step_replan: the steps before the current one stay,  *)
(* the others are replaced by up to MaxPlanSteps numbered steps.           *)
(***************************************************************************)
PlanRemainder ==
  /\ pc = "planning" /\ mode = "step_replan"
  /\ \E n \in 1..MaxPlanSteps :
       plan' = SubSeq(plan, 1, cursor - 1)
               \o [i \in 1..n |-> NewStep(cursor - 1 + i, cursor - 1 + i)]
  /\ revision' = revision + 1
  /\ mode' = "initial"
  /\ frame' = [frame EXCEPT ![0].noFinding = [i \in Ids |-> 0]]
  /\ pc' = "gate"
  /\ UNCHANGED <<iterations, cursor, replans, stepReplans, depth, calls>>

(***************************************************************************)
(* The planner's model call raises or its answer is no plan.               *)
(***************************************************************************)
PlannerFails ==
  /\ pc = "planning"
  /\ Fail
  /\ UNCHANGED <<iterations, plan, mode, revision, cursor, replans, stepReplans,
                 depth, frame, calls>>

(***************************************************************************)
(* select_next_step_node: the first pending step, if any.  The ReAct loop  *)
(* starts with fresh counters.                                             *)
(***************************************************************************)
Pending == {i \in 1..Len(plan) : ~plan[i].done}

\* Mutant: the last pending step is selected.
SelectLast ==
  /\ pc = "selecting"
  /\ \E i \in Pending : /\ \A j \in Pending : j <= i
                        /\ cursor' = i
  /\ frame' = [frame EXCEPT ![0].turn = 0, ![0].thinks = 0]
  /\ calls' = 0
  /\ pc' = "reacting"
  /\ UNCHANGED <<iterations, plan, mode, revision, replans, stepReplans, depth>>

SelectStep ==
  /\ pc = "selecting"
  /\ \E i \in Pending : /\ \A j \in Pending : i <= j
                        /\ cursor' = i
  /\ frame' = [frame EXCEPT ![0].turn = 0, ![0].thinks = 0]
  /\ calls' = 0
  /\ pc' = "reacting"
  /\ UNCHANGED <<iterations, plan, mode, revision, replans, stepReplans, depth>>

SelectNone ==
  /\ pc = "selecting" /\ Pending = {}
  /\ cursor' = Len(plan) + 1
  /\ pc' = "finalizing"
  /\ UNCHANGED <<iterations, plan, mode, revision, replans, stepReplans,
                 depth, frame, calls>>

(***************************************************************************)
(* _finalize: one more model call, which may raise.                        *)
(***************************************************************************)
Finalize ==
  /\ pc = "finalizing"
  /\ pc' \in {"finished", "failed"}
  /\ UNCHANGED <<iterations, plan, mode, revision, cursor, replans, stepReplans,
                 depth, frame, calls>>

-------------------------------------------------------------------------------
(* The ReAct loop: one action per kind of decision, at either depth.       *)

\* calls is counted for CallsBounded alone, and no further than it can tell.
CallBudget == 3 * MaxReactTurns

Decides ==
  /\ pc = "reacting"
  /\ Current.turn < MaxReactTurns
  /\ calls' = IF calls > CallBudget THEN calls ELSE calls + 1

OuterUnchanged == UNCHANGED <<iterations, revision, cursor>>

(***************************************************************************)
(* The loop ran out of turns.                                              *)
(***************************************************************************)
TurnsExhausted ==
  /\ pc = "reacting"
  /\ Current.turn >= MaxReactTurns
  /\ Fail
  /\ UNCHANGED <<plan, mode, replans, stepReplans, depth, frame, calls>>
  /\ OuterUnchanged

(***************************************************************************)
(* The call raises, its answer is malformed, names an unknown or failed    *)
(* tool, carries a signal only the program may raise, or gives up.         *)
(***************************************************************************)
DecidesNothing ==
  /\ Decides
  /\ Fail
  /\ UNCHANGED <<plan, mode, replans, stepReplans, depth, frame>>
  /\ OuterUnchanged

(***************************************************************************)
(* The step is done: the loop returns answer, which joins step_results.    *)
(***************************************************************************)
CompleteStep(answer) ==
  /\ plan' = [plan EXCEPT ![cursor].done = TRUE, ![cursor].answer = answer]
  /\ frame' = [frame EXCEPT ![0].answers[Step.id] = answer, ![1] = EmptyFrame]
  /\ depth' = 0
  /\ pc' = "gate"

\* Mutant: the results are not searched by the step's id.
SubagentReturnsAny(answers) ==
  \/ /\ \A i \in Ids : answers[i] = NoTask
     /\ Fail
     /\ UNCHANGED <<plan, depth, frame>>
  \/ \E i \in Ids : answers[i] # NoTask /\ CompleteStep(answers[i])

(***************************************************************************)
(* What the parent takes for the subagent's result: the newest entry with  *)
(* the step's id among the results it was given and the one it added.      *)
(***************************************************************************)
SubagentReturns(answers) ==
  IF answers[Step.id] = NoTask
  THEN Fail /\ UNCHANGED <<plan, depth, frame>>
  ELSE CompleteStep(answers[Step.id])

\* Mutant: one replan more than the limit.
OverturnOnceMore ==
  /\ Decides
  /\ IF depth = 1
     THEN SubagentReturns(Current.answers) /\ UNCHANGED <<mode, replans>>
     ELSE /\ IF replans > MaxReplanCount
             THEN Fail /\ UNCHANGED <<mode, replans>>
             ELSE mode' = "replan" /\ replans' = replans + 1 /\ pc' = "gate"
          /\ UNCHANGED <<plan, depth, frame>>
  /\ UNCHANGED stepReplans
  /\ OuterUnchanged

(***************************************************************************)
(* Signal overturning: ask for a full replan.  A subagent returns instead, *)
(* with a state in which no replan was counted.                            *)
(***************************************************************************)
Overturn ==
  /\ Decides
  /\ IF depth = 1
     THEN /\ IF MaxReplanCount = 0
             THEN Fail /\ UNCHANGED <<plan, depth, frame>>
             ELSE SubagentReturns(Current.answers)
          /\ UNCHANGED <<mode, replans>>
     ELSE /\ IF replans >= MaxReplanCount
             THEN Fail /\ UNCHANGED <<mode, replans>>
             ELSE mode' = "replan" /\ replans' = replans + 1 /\ pc' = "gate"
          /\ UNCHANGED <<plan, depth, frame>>
  /\ UNCHANGED stepReplans
  /\ OuterUnchanged

\* Mutant: the restart is not recorded.
RestartUncounted(noFinding) ==
  /\ frame' = [frame EXCEPT ![depth] =
       [Current EXCEPT !.noFinding[Step.id] = noFinding, !.turn = 0, !.thinks = 0]]
  /\ UNCHANGED pc

(***************************************************************************)
(* Overthinking, by signal or by the ThinkLimit-th think in a row: the     *)
(* first time for a step id the loop starts over, the second time it fails.*)
(* noFinding is the counter as the decision left it.                       *)
(***************************************************************************)
Restart(noFinding) ==
  IF Current.overthinks[Step.id] >= 1
  THEN Fail /\ UNCHANGED frame
  ELSE /\ frame' = [frame EXCEPT ![depth] =
             [Current EXCEPT !.overthinks[Step.id] = 1, !.noFinding[Step.id] = noFinding,
                             !.turn = 0, !.thinks = 0]]
       /\ UNCHANGED pc

Overthink ==
  /\ Decides
  /\ Restart(Current.noFinding[Step.id])
  /\ UNCHANGED <<plan, mode, replans, stepReplans, depth>>
  /\ OuterUnchanged

(***************************************************************************)
(* update_no_finding: a decision without a finding counts, one with a      *)
(* finding (found) starts the count again.                                 *)
(***************************************************************************)
Counted(found) == IF found THEN 0 ELSE Current.noFinding[Step.id] + 1

(***************************************************************************)
(* The count reached the threshold: ask for a replan of the remainder.     *)
(***************************************************************************)
FindingMissing ==
  /\ Decides
  /\ Counted(FALSE) >= FindingMissingThreshold
  /\ IF depth = 1
     THEN /\ IF MaxStepReplanCount = 0
             THEN Fail /\ UNCHANGED <<plan, depth, frame>>
             ELSE SubagentReturns(Current.answers)
          /\ UNCHANGED <<mode, stepReplans>>
     ELSE /\ IF stepReplans >= MaxStepReplanCount
             THEN Fail /\ UNCHANGED <<mode, stepReplans, frame>>
             ELSE /\ mode' = "step_replan"
                  /\ stepReplans' = stepReplans + 1
                  /\ frame' = [frame EXCEPT ![depth] =
                       [Current EXCEPT !.noFinding[Step.id] = Counted(FALSE)]]
                  /\ pc' = "gate"
          /\ UNCHANGED <<plan, depth>>
  /\ UNCHANGED replans
  /\ OuterUnchanged

\* The decision is executed: no signal, and the count is below the threshold.
Executes(found) == Decides /\ Counted(found) < FindingMissingThreshold

Think(found) ==
  /\ Executes(found)
  /\ IF Current.thinks + 1 >= ThinkLimit
     THEN Restart(Counted(found))
     ELSE /\ frame' = [frame EXCEPT ![depth] =
                [Current EXCEPT !.noFinding[Step.id] = Counted(found),
                                !.turn = @ + 1, !.thinks = @ + 1]]
          /\ UNCHANGED pc
  /\ UNCHANGED <<plan, mode, replans, stepReplans, depth>>
  /\ OuterUnchanged

\* The loop after a tool call; failed are the tools that may not be called again.
AfterTool(found, failed) ==
  [Current EXCEPT !.turn = @ + 1, !.thinks = 0, !.failed = failed,
                  !.noFinding[Step.id] = Counted(found)]

(***************************************************************************)
(* A tool call that succeeds, or fails for good and takes the tool away.   *)
(***************************************************************************)
CallTool(found, tool, succeeds) ==
  /\ Executes(found)
  /\ tool \notin Current.failed
  /\ frame' = [frame EXCEPT ![depth] =
       AfterTool(found, IF succeeds THEN Current.failed ELSE Current.failed \cup {tool})]
  /\ UNCHANGED <<pc, plan, mode, replans, stepReplans, depth>>
  /\ OuterUnchanged

\* Mutant: the subagent may start over although its parent did.
CallForgetfulSubagent(found, tool) ==
  /\ Executes(found)
  /\ tool \notin Current.failed
  /\ LET parent == AfterTool(found, Current.failed \cup {tool})
     IN  IF depth = 1
         THEN Fail /\ UNCHANGED <<depth, frame>>
         ELSE /\ depth' = 1
              /\ frame' = [frame EXCEPT ![0] = parent, ![1] = EmptyFrame]
              /\ UNCHANGED pc
  /\ UNCHANGED <<plan, mode, replans, stepReplans>>
  /\ OuterUnchanged

(***************************************************************************)
(* A recoverable tool error: a subagent takes the step over, with a copy   *)
(* of the memory; a subagent's own fails the run.                          *)
(***************************************************************************)
CallSubagent(found, tool) ==
  /\ Executes(found)
  /\ tool \notin Current.failed
  /\ LET parent == AfterTool(found, Current.failed \cup {tool})
     IN  IF depth = 1
         THEN Fail /\ UNCHANGED <<depth, frame>>
         ELSE /\ depth' = 1
              /\ frame' = [frame EXCEPT ![0] = parent,
                                   ![1] = [parent EXCEPT !.turn = 0, !.thinks = 0]]
              /\ UNCHANGED pc
  /\ UNCHANGED <<plan, mode, replans, stepReplans>>
  /\ OuterUnchanged

(***************************************************************************)
(* finish: the answer of the main loop, or of the subagent, which adds it  *)
(* to its results before it returns.                                       *)
(***************************************************************************)
Finish(found) ==
  /\ Executes(found)
  /\ IF depth = 1
     THEN SubagentReturns([Current.answers EXCEPT ![Step.id] = Step.task])
     ELSE CompleteStep(Step.task)
  /\ UNCHANGED <<mode, replans, stepReplans>>
  /\ OuterUnchanged

-------------------------------------------------------------------------------
Graph == CycleGate \/ Plan \/ PlanRemainder \/ PlannerFails
         \/ SelectStep \/ SelectNone \/ Finalize

React ==
  \/ TurnsExhausted \/ DecidesNothing
  \/ Overturn \/ Overthink \/ FindingMissing
  \/ \E found \in BOOLEAN :
       \/ Think(found)
       \/ Finish(found)
       \/ \E tool \in Tools : \/ CallSubagent(found, tool)
                              \/ \E succeeds \in BOOLEAN : CallTool(found, tool, succeeds)

Next == Graph \/ React

Spec == Init /\ [][Next]_vars

(***************************************************************************)
(* One thread executes the graph, and every model and tool call returns or *)
(* raises.                                                                 *)
(***************************************************************************)
FairSpec == Spec /\ WF_vars(Next)

-------------------------------------------------------------------------------
(* Properties.                                                             *)

Ended == pc \in {"finished", "failed"}

Tasks == [rev : Nat, pos : Nat]
Steps == [id : Ids, task : Tasks, done : BOOLEAN, answer : Tasks]
Frames == [turn : Nat, thinks : Nat, failed : SUBSET Tools,
           overthinks : [Ids -> 0..1], noFinding : [Ids -> Nat], answers : [Ids -> Tasks]]

(***************************************************************************)
(* Every variable has its type; in particular the cursor is on the plan    *)
(* whenever the ReAct loop reads it (_current_step never raises).          *)
(***************************************************************************)
TypeOK ==
  /\ pc \in {"gate", "planning", "selecting", "reacting", "finalizing", "finished", "failed"}
  /\ iterations \in 0..MaxIterations
  /\ plan \in Seq(Steps)
  /\ mode \in {"initial", "replan", "step_replan"}
  /\ revision \in Nat
  /\ cursor \in Nat
  /\ replans \in 0..MaxReplanCount
  /\ stepReplans \in 0..MaxStepReplanCount
  /\ depth \in 0..1
  /\ frame \in [0..1 -> Frames]
  /\ calls \in Nat
  /\ pc = "reacting" => cursor \in 1..Len(plan)

(***************************************************************************)
(* Every granted replan is answered by exactly one new plan before the run *)
(* goes on: the plan's revision counts the replans, less the one pending.  *)
(***************************************************************************)
RevisionCountsReplans ==
  revision + (IF mode = "initial" THEN 0 ELSE 1)
    = (IF plan = << >> THEN 0 ELSE 1) + replans + stepReplans

(***************************************************************************)
(* The run executes its plan as PlanExecution promises: whatever sequence  *)
(* of signals, restarts, subagents and replans the model asks for, a step  *)
(* is answered in its turn, what is done survives a step replan with its   *)
(* answer, each kind of replan makes as many plans as were granted, and a  *)
(* verdict "finished" means that the last plan is done.                    *)
(***************************************************************************)
Execution == INSTANCE PlanExecution WITH
  whole <- (IF plan = << >> THEN 0 ELSE 1) + replans - (IF mode = "replan" THEN 1 ELSE 0),
  partial <- stepReplans - (IF mode = "step_replan" THEN 1 ELSE 0),
  verdict <- IF pc \in {"finished", "failed"} THEN pc ELSE "running"

ExecutesPlan == Execution!Spec

(***************************************************************************)
(* One selection of a step costs at most three turn budgets of model calls *)
(* (the loop, one restart after overthinking, one subagent): the restart   *)
(* is shared by the loop and its subagent.                                 *)
(***************************************************************************)
CallsBounded == calls <= CallBudget

(***************************************************************************)
(* The iteration limit leaves room for any run that did not use up both    *)
(* kinds of replan.                                                        *)
(***************************************************************************)
LimitNeedsReplans ==
  iterations = MaxIterations /\ pc = "gate" =>
    replans = MaxReplanCount /\ stepReplans = MaxStepReplanCount

(***************************************************************************)
(* Every run ends, whatever the model keeps answering.                     *)
(***************************************************************************)
Terminates == <>Ended

(***************************************************************************)
(* A completed step's answer was given to that very task, or, because the  *)
(* subagent's results are searched by id and hold the parent's, to a task  *)
(* of an earlier revision or to an earlier step with the same id.  Within  *)
(* one plan of distinct ids no step gets another's answer.                 *)
(***************************************************************************)
AnswerBelongs ==
  \A i \in 1..Len(plan) : plan[i].done =>
    \/ plan[i].answer = plan[i].task
    \/ plan[i].answer.rev < plan[i].task.rev
    \/ \E j \in 1..i - 1 : plan[j].id = plan[i].id /\ plan[j].answer = plan[i].answer
===============================================================================
