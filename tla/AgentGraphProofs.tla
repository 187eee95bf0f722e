---------------------------- MODULE AgentGraphProofs ----------------------------
(***************************************************************************)
(* Safety of AgentGraph for any planner ids, tools and limits: its types,  *)
(* its counters and budgets, whose answer a step gets, and that the graph  *)
(* implements PlanExecution.                                               *)
(***************************************************************************)
EXTENDS AgentGraph, SequenceTheorems, TLAPS

-------------------------------------------------------------------------------
(* The inductive invariant, in parts.                                      *)

\* As in PlanExecution: the first n steps are answered, and no other.
Answered(n) == \A i \in 1..Len(plan) : plan[i].done <=> i <= n

\* How often a rest of the plan was made; one granted and not made is left out.
PartialPlans == stepReplans - (IF mode = "step_replan" THEN 1 ELSE 0)

PlanLimit == MaxPlanSteps * (1 + MaxStepReplanCount)

\* What each node relies on when it is entered.
NodesReady ==
  /\ plan = << >> => mode = "initial" /\ replans = 0 /\ stepReplans = 0
  /\ mode = "replan" => replans > 0
  /\ mode = "step_replan" => stepReplans > 0
  /\ pc = "planning" => NeedsPlan
  /\ pc \in {"selecting", "reacting", "finalizing", "finished"} => ~NeedsPlan
  /\ pc \notin {"reacting", "failed"} => depth = 0

\* The answered steps are the first ones, up to the current one while it is
\* worked at or about to be planned again.
AnsweredInOrder ==
  /\ \E n \in 0..Len(plan) : Answered(n)
  /\ pc = "reacting" \/ mode = "step_replan" =>
       cursor \in 1..Len(plan) /\ Answered(cursor - 1)
  /\ pc \in {"finalizing", "finished"} => Answered(Len(plan))

\* A plan never outgrows the ids; what is not answered is of the last revision.
PlanBounded ==
  /\ Len(plan) <= MaxPlanSteps * (1 + PartialPlans)
  /\ \A i \in 1..Len(plan) :
       /\ plan[i].task.rev \in 1..revision
       /\ plan[i].task.pos \in 1..PlanLimit
       /\ ~plan[i].done => plan[i].task.rev = revision

\* A result on record is of an earlier revision, or the answer of a step of the plan.
AnswersOnRecord ==
  /\ \A id \in Ids : LET answer == frame[0].answers[id] IN
       answer # NoTask =>
         /\ answer.rev \in 1..revision /\ answer.pos \in 1..PlanLimit
         /\ \/ answer.rev < revision
            \/ \E i \in 1..Len(plan) :
                 plan[i].done /\ plan[i].id = id /\ plan[i].answer = answer
  /\ depth = 1 => frame[1].answers = frame[0].answers

\* Model calls: one for each turn of this loop, a budget more for a restart, and
\* one more for the loop that started the subagent.
CallsPaid ==
  /\ pc = "reacting" =>
       /\ frame[depth].turn <= MaxReactTurns
       /\ calls <= frame[depth].turn
                   + (IF depth = 1 THEN MaxReactTurns ELSE 0)
                   + (IF frame[depth].overthinks[plan[cursor].id] = 1 THEN MaxReactTurns ELSE 0)
  /\ CallsBounded

\* Iterations: one for each plan made and one for each step of it that was selected;
\* a step that is pending has not been, except the current one.
Spent == (MaxPlanSteps + 1) * revision

IterationsPaid ==
  \A n \in 0..Len(plan) : Answered(n) =>
    /\ pc = "gate" => iterations + (IF mode = "initial" THEN Len(plan) - n ELSE 0) <= Spent
    /\ pc = "planning" => iterations <= Spent + 1
    /\ pc \in {"selecting", "reacting"} => iterations + (Len(plan) - n) <= Spent + 1

GraphInv ==
  /\ TypeOK /\ RevisionCountsReplans
  /\ NodesReady /\ AnsweredInOrder /\ PlanBounded

FullInv ==
  /\ GraphInv /\ AnswersOnRecord /\ AnswerBelongs /\ CallsPaid /\ IterationsPaid

-------------------------------------------------------------------------------
(* What a step of the ReAct loop may do, whichever decision it is.         *)

Kept == UNCHANGED <<plan, mode, replans, stepReplans>>

Stops == pc' = "failed" /\ Kept /\ UNCHANGED <<depth, frame>>

\* The loop takes its next turn, or starts over for the first time for this id.
TakesTurn(next) ==
  \/ next.turn = Current.turn + 1 /\ next.overthinks = Current.overthinks
  \/ /\ next.turn = 0
     /\ Current.overthinks[Step.id] = 0 /\ next.overthinks[Step.id] = 1

\* The loop goes on, or a subagent starts with its parent's results.
Continues ==
  /\ pc' = "reacting" /\ Kept
  /\ frame' \in [0..1 -> Frames]
  /\ frame'[0].answers = frame[0].answers
  /\ \/ /\ depth' = depth /\ TakesTurn(frame'[depth])
        /\ depth = 1 => frame'[1].answers = frame[1].answers
     \/ /\ depth = 0 /\ depth' = 1
        /\ frame'[1].answers = frame[0].answers
        /\ frame'[1].turn = 0 /\ frame'[1].overthinks = frame[0].overthinks

\* The step is answered by its own task, or with a result that is on record for its id.
Completes ==
  /\ mode' = mode /\ replans' = replans /\ stepReplans' = stepReplans
  /\ \E answer \in Tasks :
       /\ CompleteStep(answer)
       /\ \/ answer = Step.task
          \/ /\ depth = 1 /\ answer # NoTask
             /\ answer = frame[1].answers[Step.id]

Grants ==
  /\ pc' = "gate" /\ plan' = plan /\ depth = 0 /\ depth' = 0
  /\ frame' \in [0..1 -> Frames] /\ frame'[0].answers = frame[0].answers
  /\ \/ /\ replans < MaxReplanCount
        /\ mode' = "replan" /\ replans' = replans + 1 /\ stepReplans' = stepReplans
     \/ /\ stepReplans < MaxStepReplanCount
        /\ mode' = "step_replan" /\ stepReplans' = stepReplans + 1 /\ replans' = replans

LEMMA Typed ==
  ASSUME TypeOK, pc = "reacting"
  PROVE  /\ Step \in Steps /\ Step.id \in Ids /\ Step.task \in Tasks
         /\ depth \in 0..1 /\ Current \in Frames /\ frame \in [0..1 -> Frames]
         /\ frame[0] \in Frames /\ frame[1] \in Frames
         /\ Current.turn \in Nat /\ Current.thinks \in Nat /\ Current.failed \subseteq Tools
         /\ Current.overthinks \in [Ids -> 0..1] /\ Current.noFinding \in [Ids -> Nat]
         /\ Current.answers \in [Ids -> Tasks]
         /\ \A found \in BOOLEAN : Counted(found) \in Nat
<1>1. Step \in Steps
  BY DEF TypeOK, Step
<1>2. Current \in Frames /\ frame[0] \in Frames /\ frame[1] \in Frames
  BY DEF TypeOK, Current
<1>3. Step.id \in Ids /\ Step.task \in Tasks
  BY <1>1 DEF Steps
<1>4. /\ Current.turn \in Nat /\ Current.thinks \in Nat /\ Current.failed \subseteq Tools
      /\ Current.overthinks \in [Ids -> 0..1] /\ Current.noFinding \in [Ids -> Nat]
      /\ Current.answers \in [Ids -> Tasks]
  BY <1>2 DEF Frames
<1>5. \A found \in BOOLEAN : Counted(found) \in Nat
  BY <1>3, <1>4 DEF Counted
<1> QED
  BY <1>1, <1>2, <1>3, <1>4, <1>5 DEF TypeOK

LEMMA EmptyFrameType == EmptyFrame \in Frames
BY DEF EmptyFrame, Frames, Tasks, NoTask

LEMMA SubagentReturnsStep ==
  ASSUME TypeOK, pc = "reacting", depth = 1, NEW answers \in [Ids -> Tasks],
         answers[Step.id] = Step.task \/ answers[Step.id] = frame[1].answers[Step.id],
         SubagentReturns(answers), UNCHANGED <<mode, replans, stepReplans>>
  PROVE  Stops \/ Completes
<1>1. CASE answers[Step.id] = NoTask
  BY <1>1 DEF SubagentReturns, Stops, Fail, Kept
<1>2. CASE answers[Step.id] # NoTask
  <2>1. answers[Step.id] \in Tasks
    BY Typed
  <2>2. CompleteStep(answers[Step.id])
    BY <1>2 DEF SubagentReturns
  <2> QED
    BY <1>2, <2>1, <2>2 DEF Completes
<1> QED
  BY <1>1, <1>2

LEMMA RestartStep ==
  ASSUME TypeOK, pc = "reacting", NEW noFinding \in Nat, Restart(noFinding),
         Kept, depth' = depth
  PROVE  Stops \/ Continues
<1>1. CASE Current.overthinks[Step.id] >= 1
  BY <1>1 DEF Restart, Stops, Fail
<1>2. CASE ~(Current.overthinks[Step.id] >= 1)
  <2> DEFINE new == [Current EXCEPT !.overthinks[Step.id] = 1, !.noFinding[Step.id] = noFinding,
                                    !.turn = 0, !.thinks = 0]
  <2>1. pc' = "reacting" /\ frame' = [frame EXCEPT ![depth] = new]
    BY <1>2 DEF Restart
  <2>2. new \in Frames /\ new.answers = Current.answers /\ TakesTurn(new)
    <3> DEFINE o == [Current.overthinks EXCEPT ![Step.id] = 1]
               n == [Current.noFinding EXCEPT ![Step.id] = noFinding]
    <3>1. new = [Current EXCEPT !.overthinks = o, !.noFinding = n, !.turn = 0, !.thinks = 0]
      OBVIOUS
    <3>2. o \in [Ids -> 0..1] /\ n \in [Ids -> Nat] /\ o[Step.id] = 1
      BY Typed
    <3>3. Current.overthinks[Step.id] = 0
      BY <1>2, Typed
    <3> HIDE DEF o, n, new
    <3>4. /\ new \in Frames /\ new.answers = Current.answers
          /\ new.turn = 0 /\ new.overthinks = o
      BY <3>1, <3>2, Typed DEF Frames
    <3> QED
      BY <3>2, <3>3, <3>4 DEF TakesTurn
  <2> HIDE DEF new
  <2>3. frame' \in [0..1 -> Frames] /\ frame'[0].answers = frame[0].answers
        /\ (depth = 1 => frame'[1].answers = frame[1].answers) /\ frame'[depth] = new
    BY <2>1, <2>2, Typed DEF Current
  <2> QED
    BY <2>1, <2>2, <2>3 DEF Continues
<1> QED
  BY <1>1, <1>2

(***************************************************************************)
(* A new record for the loop's frame, with the results it had.             *)
(***************************************************************************)
LEMMA LoopGoesOn ==
  ASSUME TypeOK, pc = "reacting", NEW new \in Frames, new.answers = Current.answers,
         TakesTurn(new), frame' = [frame EXCEPT ![depth] = new], pc' = pc, depth' = depth, Kept
  PROVE  Continues
<1>1. frame' \in [0..1 -> Frames] /\ frame'[0].answers = frame[0].answers
      /\ (depth = 1 => frame'[1].answers = frame[1].answers) /\ frame'[depth] = new
  BY Typed DEF Current
<1> QED
  BY <1>1 DEF Continues

LEMMA ReactKinds ==
  ASSUME TypeOK, pc = "reacting" => ~NeedsPlan, React
  PROVE  /\ pc = "reacting" /\ OuterUnchanged /\ calls' \in Nat
         /\ Decides \/ (pc' = "failed" /\ UNCHANGED calls)
         /\ Stops \/ Continues \/ Completes \/ Grants
<1> USE DEF OuterUnchanged
<1>1. CASE TurnsExhausted
  BY <1>1 DEF TurnsExhausted, Stops, Kept, Fail, TypeOK
<1>2. ASSUME Decides
      PROVE  pc = "reacting" /\ calls' \in Nat
  BY <1>2 DEF Decides, TypeOK
<1>3. CASE DecidesNothing
  BY <1>2, <1>3 DEF DecidesNothing, Stops, Kept, Fail
<1>4. CASE Overturn
  <2>1. pc = "reacting" /\ calls' \in Nat /\ OuterUnchanged
    BY <1>2, <1>4 DEF Overturn
  <2>2. CASE depth = 1
    <3>1. CASE MaxReplanCount = 0
      BY <1>4, <2>1, <2>2, <3>1 DEF Overturn, Stops, Kept, Fail
    <3>2. CASE MaxReplanCount # 0
      BY <1>4, <2>1, <2>2, <3>2, Typed, SubagentReturnsStep DEF Overturn, Current
    <3> QED
      BY <2>1, <3>1, <3>2
  <2>3. CASE depth # 1
    <3>1. depth = 0
      BY <2>1, <2>3, Typed
    <3>2. CASE replans >= MaxReplanCount
      BY <1>4, <2>1, <2>3, <3>2 DEF Overturn, Stops, Kept, Fail
    <3>3. CASE ~(replans >= MaxReplanCount)
      BY <1>4, <2>1, <3>1, <3>3, AgentGraphAssumption DEF Overturn, Grants, TypeOK
    <3> QED
      BY <2>1, <3>2, <3>3
  <2> QED
    BY <2>2, <2>3
<1>5. CASE Overthink
  <2>1. pc = "reacting" /\ calls' \in Nat /\ OuterUnchanged
    BY <1>2, <1>5 DEF Overthink
  <2>2. Current.noFinding[Step.id] \in Nat
    BY <2>1, Typed
  <2> QED
    BY <1>5, <2>1, <2>2, RestartStep DEF Overthink, Kept
<1>6. CASE FindingMissing
  <2>1. pc = "reacting" /\ calls' \in Nat /\ OuterUnchanged
    BY <1>2, <1>6 DEF FindingMissing
  <2>2. CASE depth = 1
    <3>1. CASE MaxStepReplanCount = 0
      BY <1>6, <2>1, <2>2, <3>1 DEF FindingMissing, Stops, Kept, Fail
    <3>2. CASE MaxStepReplanCount # 0
      BY <1>6, <2>1, <2>2, <3>2, Typed, SubagentReturnsStep DEF FindingMissing, Current
    <3> QED
      BY <2>1, <3>1, <3>2
  <2>3. CASE depth # 1
    <3>1. depth = 0
      BY <2>1, <2>3, Typed
    <3>2. CASE stepReplans >= MaxStepReplanCount
      BY <1>6, <2>1, <2>3, <3>2 DEF FindingMissing, Stops, Kept, Fail
    <3>3. CASE ~(stepReplans >= MaxStepReplanCount)
      <4> DEFINE new == [Current EXCEPT !.noFinding[Step.id] = Counted(FALSE)]
      <4>1. frame' = [frame EXCEPT ![depth] = new]
        BY <1>6, <2>3, <3>3 DEF FindingMissing
      <4>2. new \in Frames /\ new.answers = Current.answers
        BY <2>1, Typed DEF Frames
      <4> HIDE DEF new
      <4>3. frame' \in [0..1 -> Frames] /\ frame'[0].answers = frame[0].answers
        BY <2>1, <3>1, <4>1, <4>2, Typed DEF Current
      <4> QED
        BY <1>6, <2>1, <3>1, <3>3, <4>3, AgentGraphAssumption DEF FindingMissing, Grants, TypeOK
    <3> QED
      BY <2>1, <3>2, <3>3
  <2> QED
    BY <2>2, <2>3
<1>7. ASSUME NEW found \in BOOLEAN, Think(found)
      PROVE  /\ pc = "reacting" /\ OuterUnchanged /\ calls' \in Nat
             /\ Stops \/ Continues
  <2>1. pc = "reacting" /\ calls' \in Nat /\ OuterUnchanged /\ Counted(found) \in Nat
    BY <1>2, <1>7, Typed DEF Think, Executes
  <2>2. CASE Current.thinks + 1 >= ThinkLimit
    BY <1>7, <2>1, <2>2, RestartStep DEF Think, Kept
  <2>3. CASE ~(Current.thinks + 1 >= ThinkLimit)
    <3> DEFINE new == [Current EXCEPT !.noFinding[Step.id] = Counted(found),
                                      !.turn = @ + 1, !.thinks = @ + 1]
    <3>1. frame' = [frame EXCEPT ![depth] = new] /\ UNCHANGED <<pc, depth>> /\ Kept
      BY <1>7, <2>3 DEF Think, Kept
    <3>2. new \in Frames /\ new.answers = Current.answers /\ TakesTurn(new)
      <4> DEFINE n == [Current.noFinding EXCEPT ![Step.id] = Counted(found)]
                 turn == Current.turn + 1
                 thinks == Current.thinks + 1
      <4>1. new = [Current EXCEPT !.noFinding = n, !.turn = turn, !.thinks = thinks]
        OBVIOUS
      <4>2. n \in [Ids -> Nat] /\ turn \in Nat /\ thinks \in Nat
        BY <2>1, Typed
      <4> HIDE DEF n, turn, thinks, new
      <4>3. /\ new \in Frames /\ new.answers = Current.answers
            /\ new.turn = turn /\ new.overthinks = Current.overthinks
        BY <2>1, <4>1, <4>2, Typed DEF Frames
      <4> QED
        BY <4>3 DEF TakesTurn, turn
    <3> HIDE DEF new
    <3> QED
      BY <2>1, <3>1, <3>2, LoopGoesOn
  <2> QED
    BY <2>1, <2>2, <2>3
<1>8. ASSUME NEW found \in BOOLEAN, Finish(found)
      PROVE  /\ pc = "reacting" /\ OuterUnchanged /\ calls' \in Nat
             /\ Stops \/ Completes
  <2>1. pc = "reacting" /\ calls' \in Nat /\ OuterUnchanged
    BY <1>2, <1>8 DEF Finish, Executes
  <2>2. CASE depth = 1
    <3> DEFINE answers == [Current.answers EXCEPT ![Step.id] = Step.task]
    <3>1. answers \in [Ids -> Tasks] /\ answers[Step.id] = Step.task
      BY <2>1, Typed
    <3>2. SubagentReturns(answers) /\ UNCHANGED <<mode, replans, stepReplans>>
      BY <1>8, <2>2 DEF Finish
    <3> HIDE DEF answers
    <3> QED
      BY <2>1, <2>2, <3>1, <3>2, SubagentReturnsStep
  <2>3. CASE depth # 1
    BY <1>8, <2>1, <2>3, Typed DEF Finish, Completes
  <2> QED
    BY <2>1, <2>2, <2>3
<1>9. ASSUME NEW found \in BOOLEAN, NEW failed \in SUBSET Tools, pc = "reacting"
      PROVE  AfterTool(found, failed) \in Frames
             /\ AfterTool(found, failed).answers = Current.answers
             /\ AfterTool(found, failed).turn = Current.turn + 1
             /\ AfterTool(found, failed).overthinks = Current.overthinks
  <2> DEFINE n == [Current.noFinding EXCEPT ![Step.id] = Counted(found)]
             turn == Current.turn + 1
             new == AfterTool(found, failed)
  <2>1. new = [Current EXCEPT !.turn = turn, !.thinks = 0, !.failed = failed, !.noFinding = n]
    BY DEF AfterTool
  <2>2. n \in [Ids -> Nat] /\ turn \in Nat
    BY <1>9, Typed
  <2>3. Current \in Frames
    BY <1>9, Typed
  <2> HIDE DEF n, turn, new
  <2>4. new \in Frames /\ new.answers = Current.answers
        /\ new.turn = turn /\ new.overthinks = Current.overthinks
    BY <2>1, <2>2, <2>3 DEF Frames
  <2> QED
    BY <2>4 DEF new, turn
<1>10. ASSUME NEW found \in BOOLEAN, NEW tool \in Tools, CallSubagent(found, tool)
       PROVE  /\ pc = "reacting" /\ OuterUnchanged /\ calls' \in Nat
              /\ Stops \/ Continues
  <2>1. pc = "reacting" /\ calls' \in Nat /\ OuterUnchanged
    BY <1>2, <1>10 DEF CallSubagent, Executes
  <2>2. CASE depth = 1
    BY <1>10, <2>1, <2>2 DEF CallSubagent, Stops, Kept, Fail
  <2>3. CASE depth # 1
    <3> DEFINE parent == AfterTool(found, Current.failed \cup {tool})
               child == [parent EXCEPT !.turn = 0, !.thinks = 0]
    <3>1. parent \in Frames /\ parent.answers = Current.answers
          /\ parent.overthinks = Current.overthinks
      BY <1>9, <2>1, Typed
    <3>2. depth = 0 /\ Current = frame[0]
      BY <2>1, <2>3, Typed DEF Current
    <3>3. /\ frame' = [frame EXCEPT ![0] = parent, ![1] = child]
          /\ depth' = 1 /\ pc' = pc /\ Kept
      BY <1>10, <2>3 DEF CallSubagent, Kept
    <3> HIDE DEF parent
    <3>4. child \in Frames /\ child.answers = parent.answers
          /\ child.turn = 0 /\ child.overthinks = parent.overthinks
      BY <3>1 DEF Frames
    <3> HIDE DEF child
    <3>5. frame'[0] = parent /\ frame'[1] = child /\ frame' \in [0..1 -> Frames]
      BY <2>1, <3>1, <3>3, <3>4, Typed
    <3> QED
      BY <2>1, <3>1, <3>2, <3>3, <3>4, <3>5 DEF Continues
  <2> QED
    BY <2>1, <2>2, <2>3
<1>11. ASSUME NEW found \in BOOLEAN, NEW tool \in Tools, NEW succeeds \in BOOLEAN,
              CallTool(found, tool, succeeds)
       PROVE  pc = "reacting" /\ OuterUnchanged /\ calls' \in Nat /\ Continues
  <2>1. pc = "reacting" /\ calls' \in Nat /\ OuterUnchanged
    BY <1>2, <1>11 DEF CallTool, Executes
  <2> DEFINE failed == IF succeeds THEN Current.failed ELSE Current.failed \cup {tool}
             new == AfterTool(found, failed)
  <2>2. failed \in SUBSET Tools
    BY <2>1, Typed
  <2>3. new \in Frames /\ new.answers = Current.answers /\ TakesTurn(new)
    BY <1>9, <2>1, <2>2 DEF TakesTurn
  <2>4. frame' = [frame EXCEPT ![depth] = new] /\ UNCHANGED <<pc, depth>> /\ Kept
    BY <1>11 DEF CallTool, Kept
  <2> HIDE DEF new
  <2> QED
    BY <2>1, <2>3, <2>4, LoopGoesOn
<1>12. Decides \/ (pc' = "failed" /\ UNCHANGED calls)
  BY DEF React, TurnsExhausted, Fail, DecidesNothing, Overturn, Overthink, FindingMissing,
         Executes, Think, Finish, CallSubagent, CallTool
<1> QED
  BY <1>1, <1>3, <1>4, <1>5, <1>6, <1>7, <1>8, <1>10, <1>11, <1>12 DEF React

-------------------------------------------------------------------------------
(* Limits.                                                                 *)

(***************************************************************************)
(* A plan grows by MaxPlanSteps with each of its rests.                    *)
(***************************************************************************)
LEMMA Growth ==
  /\ PlanLimit \in Nat /\ MaxPlanSteps <= PlanLimit /\ Ids = 1..PlanLimit
  /\ MaxIterations \in Nat
  /\ \A k \in Nat : /\ MaxPlanSteps * (1 + k) \in Nat
                     /\ MaxPlanSteps <= MaxPlanSteps * (1 + k)
                     /\ MaxPlanSteps * (1 + (k + 1)) = MaxPlanSteps * (1 + k) + MaxPlanSteps
  /\ \A k \in 0..MaxStepReplanCount : MaxPlanSteps * (1 + k) <= PlanLimit
<1> USE AgentGraphAssumption
<1>1. \A k \in Nat : /\ MaxPlanSteps * (1 + k) \in Nat
                     /\ MaxPlanSteps <= MaxPlanSteps * (1 + k)
                     /\ MaxPlanSteps * (1 + (k + 1)) = MaxPlanSteps * (1 + k) + MaxPlanSteps
  OBVIOUS
<1>2. \A k \in 0..MaxStepReplanCount : MaxPlanSteps * (1 + k) <= MaxPlanSteps * (1 + MaxStepReplanCount)
  OBVIOUS
<1>3. MaxIterations \in Nat
  BY <1>1, MaxReplanCount + MaxStepReplanCount \in Nat DEF MaxIterations
<1> QED
  BY <1>1, <1>2, <1>3 DEF PlanLimit, Ids

(***************************************************************************)
(* How many steps are answered is determined by the plan.                  *)
(***************************************************************************)
LEMMA AnsweredUnique ==
  ASSUME NEW p, Len(p) \in Nat, NEW m \in 0..Len(p), NEW n \in 0..Len(p),
         \A i \in 1..Len(p) : p[i].done <=> i <= m,
         \A i \in 1..Len(p) : p[i].done <=> i <= n
  PROVE  m = n
<1>1. CASE m < n
  BY <1>1, n \in 1..Len(p)
<1>2. CASE n < m
  BY <1>2, m \in 1..Len(p)
<1> QED
  BY <1>1, <1>2

-------------------------------------------------------------------------------
(* Every action preserves GraphInv.                                        *)

LEMMA GraphInit == Init => GraphInv
<1> SUFFICES ASSUME Init PROVE GraphInv
  OBVIOUS
<1> USE DEF Init
<1>1. TypeOK
  BY EmptyFrameType, Growth, AgentGraphAssumption DEF TypeOK
<1>2. RevisionCountsReplans /\ NodesReady
  BY DEF RevisionCountsReplans, NodesReady, NeedsPlan
<1>3. AnsweredInOrder
  BY DEF AnsweredInOrder, Answered
<1>4. PlanBounded
  BY AgentGraphAssumption DEF PlanBounded, PartialPlans
<1> QED
  BY <1>1, <1>2, <1>3, <1>4 DEF GraphInv

LEMMA CycleGateInv ==
  ASSUME GraphInv, CycleGate
  PROVE  GraphInv'
<1> USE DEF GraphInv, CycleGate, Fail
<1>1. TypeOK'
  BY Growth DEF TypeOK
<1>2. RevisionCountsReplans' /\ NodesReady'
  BY DEF RevisionCountsReplans, NodesReady, NeedsPlan
<1>3. AnsweredInOrder'
  BY DEF AnsweredInOrder, Answered
<1>4. PlanBounded'
  BY DEF PlanBounded, PartialPlans
<1> QED
  BY <1>1, <1>2, <1>3, <1>4

\* A new plan of n steps.
Planned(n) ==
  /\ plan' \in Seq(Steps) /\ Len(plan') = n /\ plan' # << >>
  /\ \A i \in 1..n : /\ ~plan'[i].done
                     /\ plan'[i].task.rev = revision + 1 /\ plan'[i].task.pos = i

\* The results survive any planning.
ResultsKept ==
  frame' \in [0..1 -> Frames] /\ frame'[0].answers = frame[0].answers

LEMMA PlanEffect ==
  ASSUME GraphInv, Plan
  PROVE  /\ \E n \in 1..MaxPlanSteps : Planned(n)
         /\ pc = "planning" /\ pc' = "gate" /\ mode \in {"initial", "replan"}
         /\ mode' = "initial" /\ revision' = revision + 1
         /\ UNCHANGED <<replans, stepReplans, depth, iterations, calls>>
         /\ ResultsKept /\ cursor' \in Nat
<1> USE DEF GraphInv
<1>0. PICK n \in 1..MaxPlanSteps : \E ids \in [1..n -> PlannerIds] :
        plan' = [i \in 1..n |-> NewStep(ids[i], i)]
  BY DEF Plan
<1>1. PICK ids \in [1..n -> PlannerIds] : plan' = [i \in 1..n |-> NewStep(ids[i], i)]
  BY <1>0
<1>2. n \in Nat /\ n > 0
  BY AgentGraphAssumption
<1>3. ASSUME NEW i \in 1..n
      PROVE  /\ plan'[i] \in Steps /\ ~plan'[i].done
             /\ plan'[i].task.rev = revision + 1 /\ plan'[i].task.pos = i
  BY <1>1, <1>2, AgentGraphAssumption DEF NewStep, Steps, Tasks, NoTask, TypeOK
<1>4. plan' \in Seq(Steps) /\ Len(plan') = n /\ plan' # << >>
  BY <1>1, <1>2, <1>3
<1>5. pc = "planning" /\ pc' = "gate" /\ mode' = "initial" /\ revision' = revision + 1
      /\ UNCHANGED <<replans, stepReplans, depth, iterations, calls>>
  BY DEF Plan
<1>6. ResultsKept /\ cursor' \in Nat
  <2>1. CASE mode = "replan"
    <3> DEFINE none == [i \in Ids |-> 0]
    <3>1. none \in [Ids -> Nat]
      OBVIOUS
    <3>2. frame' = [frame EXCEPT ![0].noFinding = none] /\ cursor' = 1
      BY <2>1 DEF Plan
    <3> HIDE DEF none
    <3> QED
      BY <3>1, <3>2 DEF TypeOK, Frames, ResultsKept
  <2>2. CASE mode # "replan"
    BY <2>2 DEF Plan, TypeOK, ResultsKept
  <2> QED
    BY <2>1, <2>2
<1> QED
  BY <1>3, <1>4, <1>5, <1>6 DEF Plan, Planned

LEMMA PlanInv ==
  ASSUME GraphInv, Plan
  PROVE  GraphInv'
<1> USE DEF GraphInv
<1>1. PICK n \in 1..MaxPlanSteps : Planned(n)
  BY PlanEffect
<1>2. n \in Nat /\ n > 0 /\ n <= PlanLimit
  BY Growth, AgentGraphAssumption
<1>3. \A i \in 1..n : /\ ~plan'[i].done
                      /\ plan'[i].task.rev = revision + 1 /\ plan'[i].task.pos = i
  BY <1>1 DEF Planned
<1>4. plan' \in Seq(Steps) /\ Len(plan') = n /\ plan' # << >>
  BY <1>1 DEF Planned
<1>5. pc = "planning" /\ pc' = "gate" /\ mode' = "initial" /\ revision' = revision + 1
      /\ UNCHANGED <<replans, stepReplans, depth, iterations, calls>>
  BY PlanEffect
<1>6. frame' \in [0..1 -> Frames] /\ cursor' \in Nat
  BY PlanEffect DEF ResultsKept
<1>7. TypeOK'
  BY <1>4, <1>5, <1>6 DEF TypeOK
<1>8. RevisionCountsReplans'
  <2>1. CASE mode = "replan"
    BY <1>4, <1>5, <2>1 DEF RevisionCountsReplans, NodesReady, TypeOK
  <2>2. CASE mode # "replan"
    BY <1>4, <1>5, <2>2 DEF Plan, RevisionCountsReplans, NodesReady, NeedsPlan, TypeOK
  <2> QED
    BY <2>1, <2>2
<1>9. NodesReady'
  BY <1>4, <1>5 DEF NodesReady
<1>10. AnsweredInOrder'
  <2>1. Answered(0)'
    BY <1>2, <1>3, <1>4 DEF Answered
  <2>2. 0 \in 0..Len(plan')
    BY <1>2, <1>4
  <2> QED
    BY <1>5, <2>1, <2>2 DEF AnsweredInOrder
<1>11. PlanBounded'
  <2>1. PartialPlans' \in Nat
    BY <1>5 DEF PartialPlans, TypeOK
  <2>2. Len(plan') <= MaxPlanSteps * (1 + PartialPlans')
    <3>1. MaxPlanSteps <= MaxPlanSteps * (1 + PartialPlans')
          /\ MaxPlanSteps * (1 + PartialPlans') \in Nat
      BY <2>1, Growth
    <3> QED
      BY <1>4, <3>1, AgentGraphAssumption
  <2>3. ASSUME NEW i \in 1..Len(plan')
        PROVE  plan'[i].task.rev = revision' /\ plan'[i].task.pos \in 1..PlanLimit
    BY <1>2, <1>3, <1>4, <1>5, Growth
  <2>4. revision' \in 1..revision'
    BY <1>5 DEF TypeOK
  <2> QED
    BY <2>2, <2>3, <2>4 DEF PlanBounded
<1> QED
  BY <1>7, <1>8, <1>9, <1>10, <1>11

\* The first kept steps, which are the answered ones, and n new ones.
Remade(kept, n) ==
  /\ cursor = kept + 1 /\ kept < Len(plan) /\ Len(plan) \in Nat
  /\ \A i \in 1..Len(plan) : plan[i].done <=> i <= kept
  /\ kept + n <= MaxPlanSteps * (1 + PartialPlans') /\ kept + n <= PlanLimit
  /\ plan' \in Seq(Steps) /\ Len(plan') = kept + n /\ plan' # << >>
  /\ \A i \in 1..kept : plan'[i] = plan[i]
  /\ \A i \in kept + 1..kept + n :
       /\ ~plan'[i].done /\ plan'[i].task.rev = revision + 1 /\ plan'[i].task.pos = i

LEMMA RemainderEffect ==
  ASSUME GraphInv, PlanRemainder
  PROVE  /\ \E kept \in Nat : \E n \in 1..MaxPlanSteps : Remade(kept, n)
         /\ pc = "planning" /\ mode = "step_replan" /\ pc' = "gate" /\ mode' = "initial"
         /\ revision' = revision + 1
         /\ UNCHANGED <<iterations, cursor, replans, stepReplans, depth, calls>>
         /\ ResultsKept
<1> USE DEF GraphInv
<1>1. PICK n \in 1..MaxPlanSteps :
        plan' = SubSeq(plan, 1, cursor - 1)
                \o [i \in 1..n |-> NewStep(cursor - 1 + i, cursor - 1 + i)]
  BY DEF PlanRemainder
<1>2. /\ pc = "planning" /\ mode = "step_replan" /\ pc' = "gate" /\ mode' = "initial"
      /\ revision' = revision + 1
      /\ UNCHANGED <<iterations, cursor, replans, stepReplans, depth, calls>>
  BY DEF PlanRemainder
<1>3. cursor \in 1..Len(plan) /\ Answered(cursor - 1) /\ plan # << >>
  BY <1>2 DEF AnsweredInOrder
<1>4. /\ PartialPlans \in Nat /\ PartialPlans' = PartialPlans + 1
      /\ PartialPlans' \in 0..MaxStepReplanCount
  BY <1>2 DEF PartialPlans, NodesReady, TypeOK
<1>5. PICK kept \in Nat : cursor = kept + 1
  BY <1>3 DEF TypeOK
<1>6. n \in Nat /\ n > 0 /\ kept < Len(plan) /\ Len(plan) \in Nat
      /\ \A i \in 1..Len(plan) : plan[i].done <=> i <= kept
  BY <1>3, <1>5, AgentGraphAssumption DEF TypeOK, Answered
<1>7. kept + n <= MaxPlanSteps * (1 + PartialPlans') /\ kept + n <= PlanLimit
  <2>1. MaxPlanSteps * (1 + PartialPlans) \in Nat /\ PlanLimit \in Nat
    BY <1>4, Growth
  <2>2. kept + 1 <= MaxPlanSteps * (1 + PartialPlans)
    BY <1>6, <2>1 DEF PlanBounded
  <2>3. MaxPlanSteps * (1 + PartialPlans') = MaxPlanSteps * (1 + PartialPlans) + MaxPlanSteps
    BY <1>4, Growth
  <2>4. MaxPlanSteps * (1 + PartialPlans') <= PlanLimit
    BY <1>4, Growth
  <2> QED
    BY <1>6, <2>1, <2>2, <2>3, <2>4, AgentGraphAssumption
<1> DEFINE front == SubSeq(plan, 1, kept)
           rest == [i \in 1..n |-> NewStep(kept + i, kept + i)]
<1>8. ASSUME NEW i \in 1..n
      PROVE  /\ rest[i] \in Steps /\ ~rest[i].done
             /\ rest[i].task.rev = revision + 1 /\ rest[i].task.pos = kept + i
  <2>1. rest[i] = NewStep(kept + i, kept + i)
    OBVIOUS
  <2>2. kept + i \in Ids /\ kept + i \in Nat /\ revision + 1 \in Nat
    BY <1>6, <1>7, Growth DEF TypeOK
  <2> HIDE DEF rest
  <2> QED
    BY <2>1, <2>2 DEF NewStep, Steps, Tasks, NoTask
<1>9. front \in Seq(Steps) /\ Len(front) = kept
      /\ \A i \in 1..kept : front[i] = plan[i]
  BY <1>6 DEF TypeOK
<1>10. rest \in Seq(Steps) /\ Len(rest) = n
  <2>1. rest \in [1..n -> Steps]
    BY <1>8
  <2>2. Len(rest) = n
    BY <1>6
  <2> QED
    BY <1>6, <2>1, <2>2, SeqDef, ZenonT(60)
<1>11. plan' = front \o rest
  <2>1. cursor - 1 = kept
    BY <1>5
  <2> QED
    BY <1>1, <2>1
<1> HIDE DEF front, rest
<1>12. /\ plan' \in Seq(Steps) /\ Len(plan') = kept + n /\ plan' # << >>
       /\ \A i \in 1..kept : plan'[i] = plan[i]
       /\ \A i \in kept + 1..kept + n :
            /\ ~plan'[i].done /\ plan'[i].task.rev = revision + 1 /\ plan'[i].task.pos = i
  <2>1. plan' \in Seq(Steps) /\ Len(plan') = kept + n
    BY <1>9, <1>10, <1>11, ConcatProperties
  <2>2. ASSUME NEW i \in 1..kept
        PROVE  plan'[i] = plan[i]
    BY <1>6, <1>9, <1>10, <1>11
  <2>3. ASSUME NEW i \in kept + 1..kept + n
        PROVE  /\ ~plan'[i].done /\ plan'[i].task.rev = revision + 1
               /\ plan'[i].task.pos = i
    <3>1. i - kept \in 1..n /\ kept + (i - kept) = i
      BY <1>6
    <3>2. plan'[i] = rest[i - kept]
      BY <1>6, <1>9, <1>10, <1>11
    <3> QED
      BY <1>8, <3>1, <3>2
  <2> QED
    BY <1>6, <2>1, <2>2, <2>3
<1>13. ResultsKept
  <2> DEFINE none == [i \in Ids |-> 0]
  <2>1. none \in [Ids -> Nat]
    OBVIOUS
  <2>2. frame' = [frame EXCEPT ![0].noFinding = none]
    BY DEF PlanRemainder
  <2> HIDE DEF none
  <2> QED
    BY <2>1, <2>2 DEF TypeOK, Frames, ResultsKept
<1>14. Remade(kept, n)
  BY <1>5, <1>6, <1>7, <1>12 DEF Remade
<1> QED
  BY <1>2, <1>13, <1>14

LEMMA PlanRemainderInv ==
  ASSUME GraphInv, PlanRemainder
  PROVE  GraphInv'
<1> USE DEF GraphInv
<1>1. /\ pc = "planning" /\ mode = "step_replan" /\ pc' = "gate" /\ mode' = "initial"
      /\ revision' = revision + 1
      /\ UNCHANGED <<iterations, cursor, replans, stepReplans, depth, calls>>
  BY RemainderEffect
<1>2. PICK kept \in Nat : \E n \in 1..MaxPlanSteps : Remade(kept, n)
  BY RemainderEffect
<1>3. PICK n \in 1..MaxPlanSteps : Remade(kept, n)
  BY <1>2
<1>4. n \in Nat /\ n > 0 /\ kept < Len(plan) /\ Len(plan) \in Nat
      /\ \A i \in 1..Len(plan) : plan[i].done <=> i <= kept
  BY <1>3, AgentGraphAssumption DEF Remade
<1>5. plan # << >>
  BY <1>4
<1>6. kept + n <= MaxPlanSteps * (1 + PartialPlans') /\ kept + n <= PlanLimit
  BY <1>3 DEF Remade
<1>7. /\ plan' \in Seq(Steps) /\ Len(plan') = kept + n /\ plan' # << >>
      /\ \A i \in 1..kept : plan'[i] = plan[i]
      /\ \A i \in kept + 1..kept + n :
           /\ ~plan'[i].done /\ plan'[i].task.rev = revision + 1 /\ plan'[i].task.pos = i
  BY <1>3 DEF Remade
<1>8. frame' \in [0..1 -> Frames]
  BY RemainderEffect DEF ResultsKept
<1>9. TypeOK'
  BY <1>1, <1>7, <1>8 DEF TypeOK
<1>10. RevisionCountsReplans'
  BY <1>1, <1>5, <1>7 DEF RevisionCountsReplans, TypeOK
<1>11. NodesReady'
  BY <1>1, <1>7 DEF NodesReady
<1>12. AnsweredInOrder'
  <2>1. kept \in 0..Len(plan')
    BY <1>4, <1>7
  <2>2. ASSUME NEW i \in 1..Len(plan')
        PROVE  plan'[i].done <=> i <= kept
    <3>1. CASE i <= kept
      BY <1>4, <1>7, <3>1
    <3>2. CASE i > kept
      <4>1. i \in kept + 1..kept + n
        BY <1>4, <1>7, <3>2
      <4>2. ~plan'[i].done
        BY <1>4, <1>7, <4>1
      <4> QED
        BY <3>2, <4>2
    <3> QED
      BY <1>4, <3>1, <3>2
  <2>3. \E k \in 0..Len(plan') : \A i \in 1..Len(plan') : plan'[i].done <=> i <= k
    BY <2>1, <2>2
  <2> QED
    BY <1>1, <2>3 DEF Answered, AnsweredInOrder
<1>13. PlanBounded'
  <2>1. Len(plan') <= MaxPlanSteps * (1 + PartialPlans')
    BY <1>6, <1>7
  <2>2. ASSUME NEW i \in 1..Len(plan')
        PROVE  /\ plan'[i].task.rev \in 1..revision' /\ plan'[i].task.pos \in 1..PlanLimit
               /\ ~plan'[i].done => plan'[i].task.rev = revision'
    <3>1. CASE i <= kept
      <4>1. plan'[i] = plan[i] /\ i \in 1..Len(plan) /\ plan[i].done
        BY <1>4, <1>7, <3>1
      <4> QED
        BY <1>1, <4>1 DEF PlanBounded, TypeOK
    <3>2. CASE i > kept
      <4>1. i \in kept + 1..kept + n
        BY <1>4, <1>7, <3>2
      <4>2. i \in 1..PlanLimit /\ revision + 1 \in 1..revision + 1
        BY <1>4, <1>6, <4>1, Growth DEF TypeOK
      <4>3. ~plan'[i].done /\ plan'[i].task.rev = revision + 1 /\ plan'[i].task.pos = i
        BY <1>4, <1>7, <4>1
      <4> QED
        BY <1>1, <4>2, <4>3
    <3> QED
      BY <1>4, <1>7, <3>1, <3>2
  <2> QED
    BY <2>1, <2>2 DEF PlanBounded
<1> QED
  BY <1>9, <1>10, <1>11, <1>12, <1>13

(***************************************************************************)
(* Selecting a step changes counters of the loop's frame and nothing else. *)
(***************************************************************************)
LEMMA SelectedFrame ==
  ASSUME GraphInv, SelectStep
  PROVE  /\ frame' \in [0..1 -> Frames] /\ frame'[0].turn = 0
         /\ frame'[0].answers = frame[0].answers
         /\ frame'[0].overthinks = frame[0].overthinks
         /\ frame'[1] = frame[1]
<1>1. frame \in [0..1 -> Frames] /\ frame[0] \in Frames
  BY DEF GraphInv, TypeOK
<1> DEFINE new == [frame[0] EXCEPT !.turn = 0, !.thinks = 0]
<1>2. frame' = [frame EXCEPT ![0] = new]
  BY <1>1 DEF SelectStep
<1>3. /\ new \in Frames /\ new.turn = 0 /\ new.answers = frame[0].answers
      /\ new.overthinks = frame[0].overthinks
  BY <1>1 DEF Frames
<1> HIDE DEF new
<1> QED
  BY <1>1, <1>2, <1>3

LEMMA SelectStepInv ==
  ASSUME GraphInv, SelectStep
  PROVE  GraphInv'
<1> USE DEF GraphInv
<1>1. /\ pc = "selecting" /\ pc' = "reacting" /\ calls' = 0
      /\ UNCHANGED <<iterations, plan, mode, revision, replans, stepReplans, depth>>
  BY DEF SelectStep
<1>2. PICK i \in Pending : (\A j \in Pending : i <= j) /\ cursor' = i
  BY DEF SelectStep
<1>3. PICK n \in 0..Len(plan) : Answered(n)
  BY DEF AnsweredInOrder
<1>4. i \in 1..Len(plan) /\ Len(plan) \in Nat /\ i = n + 1
  <2>1. Len(plan) \in Nat /\ i \in 1..Len(plan) /\ ~plan[i].done
    BY DEF Pending, TypeOK
  <2>2. i > n
    BY <1>3, <2>1 DEF Answered
  <2>3. n + 1 \in Pending
    BY <1>3, <2>1, <2>2 DEF Answered, Pending
  <2> QED
    BY <1>2, <2>1, <2>2, <2>3
<1>5. TypeOK'
  BY <1>1, <1>2, <1>4, SelectedFrame DEF TypeOK
<1>6. RevisionCountsReplans' /\ NodesReady' /\ PlanBounded'
  BY <1>1 DEF RevisionCountsReplans, NodesReady, NeedsPlan, PlanBounded, PartialPlans
<1>7. AnsweredInOrder'
  BY <1>1, <1>2, <1>3, <1>4 DEF AnsweredInOrder, Answered
<1> QED
  BY <1>5, <1>6, <1>7

LEMMA SelectNoneInv ==
  ASSUME GraphInv, SelectNone
  PROVE  GraphInv'
<1> USE DEF GraphInv
<1>1. /\ pc = "selecting" /\ pc' = "finalizing" /\ Pending = {} /\ cursor' = Len(plan) + 1
      /\ UNCHANGED <<iterations, plan, mode, revision, replans, stepReplans, depth, frame, calls>>
  BY DEF SelectNone
<1>2. TypeOK'
  BY <1>1 DEF TypeOK
<1>3. RevisionCountsReplans' /\ NodesReady' /\ PlanBounded'
  BY <1>1 DEF RevisionCountsReplans, NodesReady, NeedsPlan, PlanBounded, PartialPlans
<1>4. Answered(Len(plan))
  BY <1>1 DEF Answered, Pending, TypeOK, Steps
<1>5. AnsweredInOrder'
  <2>1. mode # "step_replan"
    BY <1>1 DEF NodesReady, NeedsPlan
  <2> QED
    BY <1>1, <1>4, <2>1 DEF AnsweredInOrder, Answered
<1> QED
  BY <1>2, <1>3, <1>5

\* The planner fails, or the answer to the user is written or fails.
LEMMA EndInv ==
  ASSUME GraphInv, PlannerFails \/ Finalize
  PROVE  GraphInv'
<1> USE DEF GraphInv
<1>1. /\ pc' = "failed" \/ (pc = "finalizing" /\ pc' = "finished")
      /\ UNCHANGED <<iterations, plan, mode, revision, cursor, replans, stepReplans,
                     depth, frame, calls>>
  BY DEF PlannerFails, Finalize, Fail
<1>2. TypeOK'
  BY <1>1 DEF TypeOK
<1>3. RevisionCountsReplans' /\ NodesReady' /\ PlanBounded'
  BY <1>1 DEF RevisionCountsReplans, NodesReady, NeedsPlan, PlanBounded, PartialPlans
<1>4. AnsweredInOrder'
  BY <1>1 DEF AnsweredInOrder, Answered
<1> QED
  BY <1>2, <1>3, <1>4

(***************************************************************************)
(* Completing the current step answers it and changes no other.            *)
(***************************************************************************)
LEMMA CompletedPlan ==
  ASSUME TypeOK, pc = "reacting", NEW answer \in Tasks, CompleteStep(answer)
  PROVE  /\ plan' \in Seq(Steps) /\ Len(plan') = Len(plan) /\ cursor \in 1..Len(plan)
         /\ plan'[cursor].done /\ plan'[cursor].answer = answer
         /\ plan'[cursor].id = plan[cursor].id /\ plan'[cursor].task = plan[cursor].task
         /\ \A i \in 1..Len(plan) : i # cursor => plan'[i] = plan[i]
         /\ frame' \in [0..1 -> Frames]
         /\ frame'[0].answers = [frame[0].answers EXCEPT ![Step.id] = answer]
         /\ frame'[0].overthinks = frame[0].overthinks
<1>1. plan \in Seq(Steps) /\ cursor \in 1..Len(plan) /\ frame \in [0..1 -> Frames]
  BY DEF TypeOK
<1> DEFINE new == [plan[cursor] EXCEPT !.done = TRUE, !.answer = answer]
<1>2. plan' = [plan EXCEPT ![cursor] = new]
  BY <1>1 DEF CompleteStep
<1>3. /\ new \in Steps /\ new.done /\ new.answer = answer
      /\ new.id = plan[cursor].id /\ new.task = plan[cursor].task
  <2>1. plan[cursor] \in Steps
    BY <1>1
  <2> QED
    BY <2>1 DEF Steps
<1> DEFINE answers == [frame[0].answers EXCEPT ![Step.id] = answer]
<1>4. frame' = [frame EXCEPT ![0] = [frame[0] EXCEPT !.answers = answers], ![1] = EmptyFrame]
  BY <1>1 DEF CompleteStep
<1>5. frame[0] \in Frames /\ answers \in [Ids -> Tasks]
  <2>1. frame[0] \in Frames
    BY <1>1
  <2>2. frame[0].answers \in [Ids -> Tasks]
    BY <2>1 DEF Frames
  <2> QED
    BY <2>1, <2>2
<1>6. /\ frame' \in [0..1 -> Frames] /\ frame'[0].answers = answers
      /\ frame'[0].overthinks = frame[0].overthinks
  <2> DEFINE main == [frame[0] EXCEPT !.answers = answers]
  <2> HIDE DEF answers
  <2>1. main \in Frames /\ main.answers = answers /\ main.overthinks = frame[0].overthinks
    BY <1>5 DEF Frames
  <2>2. frame' = [frame EXCEPT ![0] = main, ![1] = EmptyFrame]
    BY <1>4
  <2> HIDE DEF main
  <2> QED
    BY <1>1, <2>1, <2>2, EmptyFrameType
<1> HIDE DEF new, answers
<1>7. plan' \in Seq(Steps) /\ Len(plan') = Len(plan)
      /\ \A i \in 1..Len(plan) : plan'[i] = IF i = cursor THEN new ELSE plan[i]
  BY <1>1, <1>2, <1>3, ExceptSeq
<1> QED
  BY <1>1, <1>3, <1>6, <1>7 DEF answers

LEMMA ReactInv ==
  ASSUME GraphInv, React
  PROVE  GraphInv'
<1> USE DEF GraphInv
<1>1. /\ pc = "reacting" /\ UNCHANGED <<iterations, revision, cursor>> /\ calls' \in Nat
      /\ Stops \/ Continues \/ Completes \/ Grants
  BY ReactKinds DEF NodesReady, OuterUnchanged
<1>2. ~NeedsPlan /\ mode = "initial" /\ plan # << >>
  BY <1>1 DEF NodesReady, NeedsPlan, TypeOK
<1>3. cursor \in 1..Len(plan) /\ Answered(cursor - 1) /\ Len(plan) \in Nat
  BY <1>1 DEF AnsweredInOrder, TypeOK
<1>4. CASE Stops
  <2>1. TypeOK'
    BY <1>1, <1>4 DEF Stops, Kept, TypeOK
  <2>2. RevisionCountsReplans' /\ NodesReady' /\ PlanBounded'
    BY <1>1, <1>4 DEF Stops, Kept, RevisionCountsReplans, NodesReady, NeedsPlan, PlanBounded,
                      PartialPlans
  <2>3. AnsweredInOrder'
    BY <1>1, <1>4 DEF Stops, Kept, AnsweredInOrder, Answered
  <2> QED
    BY <2>1, <2>2, <2>3
<1>5. CASE Continues
  <2>1. TypeOK'
    BY <1>1, <1>5 DEF Continues, Kept, TypeOK
  <2>2. RevisionCountsReplans' /\ NodesReady' /\ PlanBounded'
    BY <1>1, <1>5 DEF Continues, Kept, RevisionCountsReplans, NodesReady, NeedsPlan, PlanBounded,
                      PartialPlans
  <2>3. AnsweredInOrder'
    BY <1>1, <1>5 DEF Continues, Kept, AnsweredInOrder, Answered
  <2> QED
    BY <2>1, <2>2, <2>3
<1>6. CASE Completes
  <2>1. PICK answer \in Tasks : CompleteStep(answer)
    BY <1>6 DEF Completes
  <2>2. /\ plan' \in Seq(Steps) /\ Len(plan') = Len(plan) /\ plan'[cursor].done
        /\ plan'[cursor].task = plan[cursor].task
        /\ \A i \in 1..Len(plan) : i # cursor => plan'[i] = plan[i]
        /\ frame' \in [0..1 -> Frames]
    BY <1>1, <2>1, CompletedPlan
  <2>3. pc' = "gate" /\ depth' = 0 /\ UNCHANGED <<mode, replans, stepReplans>> /\ plan' # << >>
    BY <1>3, <1>6, <2>1, <2>2 DEF Completes, CompleteStep
  <2>4. TypeOK'
    BY <1>1, <2>2, <2>3 DEF TypeOK
  <2>5. RevisionCountsReplans' /\ NodesReady'
    BY <1>1, <1>2, <2>3 DEF RevisionCountsReplans, NodesReady
  <2>6. AnsweredInOrder'
    <3>1. \A i \in 1..Len(plan') : plan'[i].done <=> i <= cursor
      BY <1>3, <2>2 DEF Answered
    <3>2. cursor \in 0..Len(plan')
      BY <1>3, <2>2
    <3>3. \E n \in 0..Len(plan') : \A i \in 1..Len(plan') : plan'[i].done <=> i <= n
      BY <3>1, <3>2, Zenon
    <3> QED
      BY <1>2, <2>3, <3>3 DEF AnsweredInOrder, Answered
  <2>7. PlanBounded'
    <3>1. PartialPlans' = PartialPlans
      BY <2>3 DEF PartialPlans
    <3>2. ASSUME NEW i \in 1..Len(plan')
          PROVE  plan'[i].task = plan[i].task /\ (plan[i].done => plan'[i].done)
      BY <2>2
    <3> QED
      BY <1>1, <2>2, <3>1, <3>2 DEF PlanBounded
  <2> QED
    BY <2>4, <2>5, <2>6, <2>7
<1>7. CASE Grants
  <2> USE DEF Grants
  <2>1. TypeOK'
    <3>1. replans' \in 0..MaxReplanCount /\ stepReplans' \in 0..MaxStepReplanCount
          /\ mode' \in {"initial", "replan", "step_replan"}
      BY <1>7, AgentGraphAssumption DEF TypeOK
    <3> QED
      BY <1>1, <1>7, <3>1 DEF TypeOK
  <2>2. RevisionCountsReplans' /\ NodesReady'
    BY <1>1, <1>2, <1>7 DEF RevisionCountsReplans, NodesReady, TypeOK
  <2>3. AnsweredInOrder'
    BY <1>1, <1>3, <1>7 DEF AnsweredInOrder, Answered
  <2>4. PlanBounded'
    <3>1. PartialPlans' = PartialPlans
      BY <1>2, <1>7 DEF PartialPlans, TypeOK
    <3> QED
      BY <1>1, <1>7, <3>1 DEF PlanBounded
  <2> QED
    BY <2>1, <2>2, <2>3, <2>4
<1> QED
  BY <1>1, <1>4, <1>5, <1>6, <1>7

LEMMA GraphStep == GraphInv /\ [Next]_vars => GraphInv'
<1> SUFFICES ASSUME GraphInv, [Next]_vars PROVE GraphInv'
  OBVIOUS
<1>1. CASE UNCHANGED vars
  BY <1>1 DEF vars, GraphInv, TypeOK, RevisionCountsReplans, NodesReady, NeedsPlan,
              AnsweredInOrder, Answered, PlanBounded, PartialPlans
<1> QED
  BY <1>1, CycleGateInv, PlanInv, PlanRemainderInv, SelectStepInv, SelectNoneInv, EndInv, ReactInv
     DEF Next, Graph

LEMMA GraphAlways == Spec => []GraphInv
BY GraphInit, GraphStep, PTL DEF Spec

(***************************************************************************)
(* The graph and its loop keep every variable in its type; the current     *)
(* step exists whenever the ReAct loop reads it, so _current_step never    *)
(* raises, and the replan counters never pass their limits.                *)
(***************************************************************************)
THEOREM Types == Spec => []TypeOK
<1>1. GraphInv => TypeOK
  BY DEF GraphInv
<1> QED
  BY <1>1, GraphAlways, PTL

(***************************************************************************)
(* plan_revision always counts the granted replans, less the one that the  *)
(* planner has not answered yet: no replan is lost, repeated or answered   *)
(* by two plans, for any limits.                                           *)
(***************************************************************************)
THEOREM RevisionsAreReplans == Spec => []RevisionCountsReplans
<1>1. GraphInv => RevisionCountsReplans
  BY DEF GraphInv
<1> QED
  BY <1>1, GraphAlways, PTL

-------------------------------------------------------------------------------
(* Whose answer a step gets.                                               *)

AnswersInv == AnswersOnRecord /\ AnswerBelongs

LEMMA AnswersUndisturbed ==
  ASSUME AnswersInv, UNCHANGED <<plan, revision>>, frame'[0].answers = frame[0].answers,
         depth' = 1 => frame'[1].answers = frame[0].answers
  PROVE  AnswersInv'
BY DEF AnswersInv, AnswersOnRecord, AnswerBelongs

LEMMA PlanAnswers ==
  ASSUME GraphInv, AnswersInv, Plan
  PROVE  AnswersInv'
<1> USE DEF AnswersInv
<1>1. PICK n \in 1..MaxPlanSteps : Planned(n)
  BY PlanEffect
<1>2. revision' = revision + 1 /\ depth' # 1 /\ frame'[0].answers = frame[0].answers
      /\ revision \in Nat
  BY PlanEffect DEF GraphInv, NodesReady, ResultsKept, TypeOK
<1>3. AnswerBelongs'
  BY <1>1 DEF AnswerBelongs, Planned
<1>4. AnswersOnRecord'
  BY <1>2 DEF AnswersOnRecord
<1> QED
  BY <1>3, <1>4

LEMMA RemainderAnswers ==
  ASSUME GraphInv, AnswersInv, PlanRemainder
  PROVE  AnswersInv'
<1> USE DEF AnswersInv
<1>1. PICK kept \in Nat : \E n \in 1..MaxPlanSteps : Remade(kept, n)
  BY RemainderEffect
<1>2. PICK n \in 1..MaxPlanSteps : Remade(kept, n)
  BY <1>1
<1>3. revision' = revision + 1 /\ depth' # 1 /\ frame'[0].answers = frame[0].answers
      /\ revision \in Nat /\ n \in Nat
  BY RemainderEffect, AgentGraphAssumption DEF GraphInv, NodesReady, ResultsKept, TypeOK
<1>4. AnswersOnRecord'
  BY <1>3 DEF AnswersOnRecord
<1>5. AnswerBelongs'
  <2>1. ASSUME NEW i \in 1..Len(plan'), plan'[i].done
        PROVE  \/ plan'[i].answer = plan'[i].task
               \/ plan'[i].answer.rev < plan'[i].task.rev
               \/ \E j \in 1..i - 1 : plan'[j].id = plan'[i].id /\ plan'[j].answer = plan'[i].answer
    <3>1. i <= kept
      <4>1. i > kept => i \in kept + 1..kept + n
        BY <1>2, <1>3 DEF Remade
      <4> QED
        BY <1>2, <1>3, <2>1, <4>1 DEF Remade
    <3>2. i \in 1..Len(plan) /\ \A j \in 1..i : plan'[j] = plan[j]
      BY <1>2, <3>1 DEF Remade
    <3>3. plan'[i] = plan[i] /\ \A j \in 1..i - 1 : plan'[j] = plan[j]
      BY <3>2
    <3> QED
      BY <2>1, <3>2, <3>3 DEF AnswerBelongs
  <2> QED
    BY <2>1 DEF AnswerBelongs
<1> QED
  BY <1>4, <1>5

LEMMA CompletesAnswers ==
  ASSUME GraphInv, AnswersInv, pc = "reacting", UNCHANGED <<iterations, revision, cursor>>,
         Completes
  PROVE  AnswersInv'
<1> USE DEF AnswersInv, GraphInv
<1>1. PICK answer \in Tasks :
        /\ CompleteStep(answer)
        /\ \/ answer = Step.task
           \/ depth = 1 /\ answer # NoTask /\ answer = frame[1].answers[Step.id]
  BY DEF Completes
<1>2. /\ plan' \in Seq(Steps) /\ Len(plan') = Len(plan) /\ cursor \in 1..Len(plan)
      /\ plan'[cursor].done /\ plan'[cursor].answer = answer
      /\ plan'[cursor].id = plan[cursor].id /\ plan'[cursor].task = plan[cursor].task
      /\ \A i \in 1..Len(plan) : i # cursor => plan'[i] = plan[i]
      /\ frame'[0].answers = [frame[0].answers EXCEPT ![Step.id] = answer]
  BY <1>1, CompletedPlan
<1>3. /\ \A i \in 1..Len(plan) : plan[i].done <=> i <= cursor - 1
      /\ cursor \in Nat /\ Len(plan) \in Nat /\ depth' = 0 /\ revision \in Nat
  BY <1>1 DEF AnsweredInOrder, Answered, CompleteStep, TypeOK
<1>4. frame[0].answers \in [Ids -> Tasks] /\ Step.id \in Ids /\ Step = plan[cursor]
  <2>1. frame[0] \in Frames
    BY Typed
  <2> QED
    BY <2>1, Typed DEF Frames, Step
<1>5. plan[cursor].task.rev = revision /\ plan[cursor].task.rev \in 1..revision
      /\ plan[cursor].task.pos \in 1..PlanLimit
  BY <1>2, <1>3 DEF PlanBounded
\* The answer is the task's own, an older one, or another step's with this id.
<1>6. \/ answer = plan[cursor].task
      \/ answer.rev \in 1..revision /\ answer.pos \in 1..PlanLimit /\ answer.rev < revision
      \/ /\ answer.rev \in 1..revision /\ answer.pos \in 1..PlanLimit
         /\ \E j \in 1..cursor - 1 : plan[j].id = plan[cursor].id /\ plan[j].answer = answer
  <2>1. CASE answer = Step.task
    BY <1>4, <2>1
  <2>2. CASE depth = 1 /\ answer # NoTask /\ answer = frame[1].answers[Step.id]
    <3>1. answer = frame[0].answers[Step.id]
      BY <2>2 DEF AnswersOnRecord
    <3>2. /\ answer.rev \in 1..revision /\ answer.pos \in 1..PlanLimit
          /\ \/ answer.rev < revision
             \/ \E i \in 1..Len(plan) :
                  plan[i].done /\ plan[i].id = Step.id /\ plan[i].answer = answer
      BY <1>4, <2>2, <3>1 DEF AnswersOnRecord
    <3> QED
      BY <1>2, <1>3, <1>4, <3>2
  <2> QED
    BY <1>1, <2>1, <2>2
<1>7. AnswersOnRecord'
  <2>1. ASSUME NEW id \in Ids, frame'[0].answers[id] # NoTask
        PROVE  LET a == frame'[0].answers[id] IN
               /\ a.rev \in 1..revision /\ a.pos \in 1..PlanLimit
               /\ \/ a.rev < revision
                  \/ \E i \in 1..Len(plan) :
                       plan'[i].done /\ plan'[i].id = id /\ plan'[i].answer = a
    <3>1. CASE id = Step.id
      BY <1>2, <1>4, <1>5, <1>6, <3>1
    <3>2. CASE id # Step.id
      <4>1. frame'[0].answers[id] = frame[0].answers[id]
        BY <1>2, <1>4, <3>2
      <4>2. \A i \in 1..Len(plan) : plan[i].done => plan'[i] = plan[i]
        BY <1>2, <1>3
      <4> QED
        BY <2>1, <4>1, <4>2 DEF AnswersOnRecord
    <3> QED
      BY <3>1, <3>2
  <2> QED
    BY <1>2, <1>3, <2>1 DEF AnswersOnRecord
<1>8. AnswerBelongs'
  <2>1. ASSUME NEW i \in 1..Len(plan), plan'[i].done
        PROVE  \/ plan'[i].answer = plan'[i].task
               \/ plan'[i].answer.rev < plan'[i].task.rev
               \/ \E j \in 1..i - 1 : plan'[j].id = plan'[i].id /\ plan'[j].answer = plan'[i].answer
    <3>1. CASE i = cursor
      <4>1. \A j \in 1..cursor - 1 : plan'[j] = plan[j]
        BY <1>2, <1>3
      <4> QED
        BY <1>2, <1>5, <1>6, <3>1, <4>1
    <3>2. CASE i # cursor
      <4>1. plan'[i] = plan[i] /\ plan[i].done /\ i < cursor
        BY <1>2, <1>3, <2>1, <3>2
      <4>2. \A j \in 1..i - 1 : plan'[j] = plan[j]
        BY <1>2, <1>3, <4>1
      <4> QED
        BY <4>1, <4>2 DEF AnswerBelongs
    <3> QED
      BY <3>1, <3>2
  <2> QED
    BY <1>2, <2>1 DEF AnswerBelongs
<1> QED
  BY <1>7, <1>8

LEMMA AnswersStep ==
  ASSUME GraphInv, AnswersInv, [Next]_vars
  PROVE  AnswersInv'
<1>1. CASE UNCHANGED vars
  BY <1>1, AnswersUndisturbed DEF vars, AnswersInv, AnswersOnRecord
<1>2. CASE CycleGate \/ PlannerFails \/ SelectNone \/ Finalize
  <2>1. UNCHANGED <<plan, revision, depth, frame>>
    BY <1>2 DEF CycleGate, PlannerFails, SelectNone, Finalize
  <2> QED
    BY <2>1, AnswersUndisturbed DEF AnswersInv, AnswersOnRecord
<1>3. CASE SelectStep
  <2>1. UNCHANGED <<plan, revision, depth>> /\ depth # 1
    BY <1>3 DEF SelectStep, GraphInv, NodesReady
  <2> QED
    BY <1>3, <2>1, SelectedFrame, AnswersUndisturbed
<1>4. CASE React
  <2>1. /\ pc = "reacting" /\ UNCHANGED <<iterations, revision, cursor>>
        /\ Stops \/ Continues \/ Completes \/ Grants
    BY <1>4, ReactKinds DEF GraphInv, NodesReady, OuterUnchanged
  <2>2. CASE Stops
    BY <2>1, <2>2, AnswersUndisturbed DEF Stops, Kept, AnswersInv, AnswersOnRecord
  <2>3. CASE Continues
    <3>1. depth' = 1 => frame'[1].answers = frame[0].answers
      BY <2>3 DEF Continues, AnswersInv, AnswersOnRecord
    <3> QED
      BY <2>1, <2>3, <3>1, AnswersUndisturbed DEF Continues, Kept
  <2>4. CASE Grants
    BY <2>1, <2>4, AnswersUndisturbed DEF Grants
  <2> QED
    BY <2>1, <2>2, <2>3, <2>4, CompletesAnswers
<1> QED
  BY <1>1, <1>2, <1>3, <1>4, PlanAnswers, RemainderAnswers DEF Next, Graph

(***************************************************************************)
(* A completed step has its own answer, or, because the subagent's results *)
(* are searched by step id in a copy of the parent's, one given to an      *)
(* earlier revision or to an earlier step with the same id; never that of  *)
(* a step with another id.                                                 *)
(***************************************************************************)
THEOREM AnswersAreOwn == Spec => []AnswerBelongs
<1>1. Init => AnswersInv
  BY DEF Init, EmptyFrame, AnswersInv, AnswersOnRecord, AnswerBelongs
<1>2. GraphInv /\ AnswersInv /\ [Next]_vars => AnswersInv'
  BY AnswersStep
<1>3. AnswersInv => AnswerBelongs
  BY DEF AnswersInv
<1> QED
  BY <1>1, <1>2, <1>3, GraphAlways, PTL DEF Spec

-------------------------------------------------------------------------------
(* What one selection of a step costs.                                     *)

LEMMA CallsStep ==
  ASSUME GraphInv, CallsPaid, [Next]_vars
  PROVE  CallsPaid'
<1> USE AgentGraphAssumption DEF GraphInv
<1>1. CASE UNCHANGED vars
  BY <1>1 DEF vars, CallsPaid, CallsBounded, CallBudget
<1>2. CASE CycleGate \/ Plan \/ PlanRemainder \/ PlannerFails \/ SelectNone \/ Finalize
  <2>1. pc' # "reacting" /\ UNCHANGED calls
    BY <1>2 DEF CycleGate, Fail, Plan, PlanRemainder, PlannerFails, SelectNone, Finalize
  <2> QED
    BY <2>1 DEF CallsPaid, CallsBounded, CallBudget
<1>3. CASE SelectStep
  <2>1. calls' = 0 /\ depth' = depth /\ depth = 0
    BY <1>3 DEF SelectStep, NodesReady
  <2>2. frame'[depth'].turn = 0
    BY <1>3, <2>1, SelectedFrame
  <2> QED
    BY <2>1, <2>2 DEF CallsPaid, CallsBounded, CallBudget
<1>4. CASE React
  <2>1. /\ pc = "reacting" /\ UNCHANGED <<iterations, revision, cursor>>
        /\ Decides \/ (pc' = "failed" /\ UNCHANGED calls)
        /\ Stops \/ Continues \/ Completes \/ Grants
    BY <1>4, ReactKinds DEF NodesReady, OuterUnchanged
  <2>2. CASE pc' = "failed" /\ UNCHANGED calls
    BY <2>2 DEF CallsPaid, CallsBounded, CallBudget
  <2>3. CASE Decides
    <3> DEFINE parent == IF depth = 1 THEN MaxReactTurns ELSE 0
               again == IF Current.overthinks[Step.id] = 1 THEN MaxReactTurns ELSE 0
    <3>1. /\ Current.turn \in Nat /\ Current.turn < MaxReactTurns /\ calls \in Nat
          /\ parent \in 0..MaxReactTurns /\ again \in 0..MaxReactTurns
      BY <2>1, <2>3, Typed DEF Decides, TypeOK
    <3>2. calls <= Current.turn + parent + again
      BY <2>1 DEF CallsPaid, Current, Step
    <3>3. calls' = calls + 1
      BY <2>3, <3>1, <3>2 DEF Decides, CallBudget
    <3>4. CallsBounded'
      BY <3>1, <3>2, <3>3 DEF CallsBounded, CallBudget
    <3>5. CASE pc' # "reacting"
      BY <3>4, <3>5 DEF CallsPaid
    <3>6. CASE Continues
      <4>1. plan' = plan /\ cursor' = cursor /\ depth \in 0..1
        BY <2>1, <3>6, Typed DEF Continues, Kept
      <4>2. CASE depth' = depth /\ TakesTurn(frame'[depth])
        <5>1. CASE frame'[depth].turn = Current.turn + 1
                   /\ frame'[depth].overthinks = Current.overthinks
          BY <3>1, <3>2, <3>3, <3>4, <4>1, <4>2, <5>1 DEF CallsPaid, Step
        <5>2. CASE /\ frame'[depth].turn = 0
                   /\ Current.overthinks[Step.id] = 0 /\ frame'[depth].overthinks[Step.id] = 1
          BY <3>1, <3>2, <3>3, <3>4, <4>1, <4>2, <5>2 DEF CallsPaid, Step
        <5> QED
          BY <4>2, <5>1, <5>2 DEF TakesTurn
      <4>3. CASE /\ depth = 0 /\ depth' = 1 /\ frame'[1].turn = 0
                 /\ frame'[1].overthinks = frame[0].overthinks
        BY <3>1, <3>2, <3>3, <3>4, <4>1, <4>3 DEF CallsPaid, Step, Current
      <4> QED
        BY <3>6, <4>2, <4>3 DEF Continues
    <3> QED
      BY <2>1, <3>5, <3>6 DEF Stops, Completes, CompleteStep, Grants
  <2> QED
    BY <2>1, <2>2, <2>3
<1> QED
  BY <1>1, <1>2, <1>3, <1>4 DEF Next, Graph

(***************************************************************************)
(* One selection of a step never costs more than three turn budgets of     *)
(* model calls: at most one restart after overthinking is granted to the   *)
(* loop and its subagent together.                                         *)
(***************************************************************************)
THEOREM CallsStayInBudget == Spec => []CallsBounded
<1>1. Init => CallsPaid
  BY AgentGraphAssumption DEF Init, CallsPaid, CallsBounded, CallBudget
<1>2. GraphInv /\ CallsPaid /\ [Next]_vars => CallsPaid'
  BY CallsStep
<1>3. CallsPaid => CallsBounded
  BY DEF CallsPaid
<1> QED
  BY <1>1, <1>2, <1>3, GraphAlways, PTL DEF Spec

-------------------------------------------------------------------------------
(* What the iteration limit is spent on.                                   *)

LEMMA SpentGrows ==
  ASSUME revision \in Nat, revision' = revision + 1
  PROVE  Spent \in Nat /\ Spent' = Spent + MaxPlanSteps + 1
BY AgentGraphAssumption DEF Spent

\* It is enough to look at one number of answered steps.
LEMMA PaidAfter ==
  ASSUME NEW m \in 0..Len(plan'), Len(plan') \in Nat,
         \A i \in 1..Len(plan') : plan'[i].done <=> i <= m,
         /\ pc' = "gate" =>
              iterations' + (IF mode' = "initial" THEN Len(plan') - m ELSE 0) <= Spent'
         /\ pc' = "planning" => iterations' <= Spent' + 1
         /\ pc' \in {"selecting", "reacting"} => iterations' + (Len(plan') - m) <= Spent' + 1
  PROVE  IterationsPaid'
<1>1. ASSUME NEW n \in 0..Len(plan'), \A i \in 1..Len(plan') : plan'[i].done <=> i <= n
      PROVE  n = m
  BY <1>1, AnsweredUnique
<1> QED
  BY <1>1 DEF IterationsPaid, Answered

LEMMA IterationsStep ==
  ASSUME GraphInv, IterationsPaid, [Next]_vars
  PROVE  IterationsPaid'
<1> USE AgentGraphAssumption DEF GraphInv
<1>1. PICK n \in 0..Len(plan) : Answered(n)
  BY DEF AnsweredInOrder
<1>2. /\ iterations \in Nat /\ revision \in Nat /\ Len(plan) \in Nat /\ n \in Nat
      /\ Spent \in Nat /\ (plan = << >> <=> Len(plan) = 0)
      /\ \A i \in 1..Len(plan) : plan[i].done <=> i <= n
  BY <1>1, Growth DEF Spent, TypeOK, Answered
<1>3. /\ pc = "gate" => iterations + (IF mode = "initial" THEN Len(plan) - n ELSE 0) <= Spent
      /\ pc = "planning" => iterations <= Spent + 1
      /\ pc \in {"selecting", "reacting"} => iterations + (Len(plan) - n) <= Spent + 1
  BY <1>1 DEF IterationsPaid
<1>4. CASE UNCHANGED vars
  BY <1>4 DEF vars, IterationsPaid, Answered, Spent
<1>5. CASE CycleGate
  <2>1. plan' = plan /\ Spent' = Spent /\ mode' = mode /\ pc = "gate"
    BY <1>5 DEF CycleGate, Spent
  <2>2. CASE pc' = "failed"
    BY <1>2, <2>1, <2>2, PaidAfter
  <2>3. CASE pc' # "failed"
    <3>1. /\ iterations' = iterations + 1
          /\ \/ pc' = "planning" /\ NeedsPlan
             \/ pc' = "selecting" /\ ~NeedsPlan
      BY <1>5, <2>3 DEF CycleGate, Fail
    <3>2. CASE pc' = "planning" /\ NeedsPlan
      <4>1. iterations <= Spent
        BY <1>2, <1>3, <2>1, <3>2 DEF NeedsPlan
      <4> QED
        BY <1>2, <2>1, <3>1, <3>2, <4>1, PaidAfter
    <3>3. CASE pc' = "selecting" /\ ~NeedsPlan
      <4>1. mode = "initial"
        BY <3>3 DEF NeedsPlan, TypeOK
      <4> QED
        BY <1>2, <1>3, <2>1, <3>1, <3>3, <4>1, PaidAfter
    <3> QED
      BY <3>1, <3>2, <3>3
  <2> QED
    BY <2>2, <2>3
<1>6. CASE Plan
  <2>1. PICK k \in 1..MaxPlanSteps : Planned(k)
    BY <1>6, PlanEffect
  <2>2. pc = "planning" /\ pc' = "gate" /\ revision' = revision + 1 /\ iterations' = iterations
    BY <1>6, PlanEffect
  <2>3. Spent' = Spent + MaxPlanSteps + 1
    BY <1>2, <2>2, SpentGrows
  <2>4. Len(plan') = k /\ k \in Nat /\ \A i \in 1..k : plan'[i].done <=> i <= 0
    BY <2>1 DEF Planned
  <2>5. iterations' + k <= Spent' /\ 0 \in 0..Len(plan')
    BY <1>2, <1>3, <2>2, <2>3, <2>4
  <2>6. iterations' + (IF mode' = "initial" THEN Len(plan') - 0 ELSE 0) <= Spent'
    BY <1>2, <2>2, <2>3, <2>4, <2>5
  <2>7. \A i \in 1..Len(plan') : plan'[i].done <=> i <= 0
    BY <2>4
  <2> QED
    BY <2>2, <2>4, <2>5, <2>6, <2>7, PaidAfter
<1>7. CASE PlanRemainder
  <2>1. PICK kept \in Nat : \E k \in 1..MaxPlanSteps : Remade(kept, k)
    BY <1>7, RemainderEffect
  <2>2. PICK k \in 1..MaxPlanSteps : Remade(kept, k)
    BY <2>1
  <2>3. pc = "planning" /\ pc' = "gate" /\ revision' = revision + 1 /\ iterations' = iterations
    BY <1>7, RemainderEffect
  <2>4. Spent' = Spent + MaxPlanSteps + 1
    BY <1>2, <2>3, SpentGrows
  <2>5. Len(plan') = kept + k /\ k \in Nat
    BY <2>2 DEF Remade
  <2>6. ASSUME NEW i \in 1..Len(plan')
        PROVE  plan'[i].done <=> i <= kept
    <3>1. CASE i <= kept
      BY <2>2, <2>5, <3>1 DEF Remade
    <3>2. CASE i > kept
      <4>1. i \in kept + 1..kept + k
        BY <2>5, <3>2
      <4> QED
        BY <2>2, <3>2, <4>1 DEF Remade
    <3> QED
      BY <2>5, <3>1, <3>2
  <2> QED
    BY <1>2, <1>3, <2>3, <2>4, <2>5, <2>6, PaidAfter
<1>8. CASE SelectStep
  <2>1. /\ plan' = plan /\ Spent' = Spent /\ iterations' = iterations
        /\ pc = "selecting" /\ pc' = "reacting"
    BY <1>8 DEF SelectStep, Spent
  <2> QED
    BY <1>2, <1>3, <2>1, PaidAfter
<1>9. CASE PlannerFails \/ SelectNone \/ Finalize
  <2>1. plan' = plan /\ pc' \notin {"gate", "planning", "selecting", "reacting"}
    BY <1>9 DEF PlannerFails, Fail, SelectNone, Finalize
  <2> QED
    BY <1>2, <2>1, PaidAfter
<1>10. CASE React
  <2>1. /\ pc = "reacting" /\ UNCHANGED <<iterations, revision, cursor>>
        /\ Stops \/ Continues \/ Completes \/ Grants
    BY <1>10, ReactKinds DEF NodesReady, OuterUnchanged
  <2>2. /\ cursor \in 1..Len(plan) /\ Spent' = Spent /\ mode = "initial"
        /\ n = cursor - 1
    <3>1. cursor \in 1..Len(plan) /\ cursor - 1 \in 0..Len(plan)
          /\ \A i \in 1..Len(plan) : plan[i].done <=> i <= cursor - 1
      BY <1>2, <2>1 DEF AnsweredInOrder, Answered
    <3>2. n = cursor - 1
      BY <1>2, <3>1, AnsweredUnique
    <3> QED
      BY <2>1, <3>1, <3>2 DEF Spent, NodesReady, NeedsPlan, TypeOK
  <2>3. CASE Stops \/ Continues
    <3>1. plan' = plan /\ pc' \in {"failed", "reacting"}
      BY <2>3 DEF Stops, Continues, Kept
    <3> QED
      BY <1>2, <1>3, <2>1, <2>2, <3>1, PaidAfter
  <2>4. CASE Completes
    <3>1. PICK answer \in Tasks : CompleteStep(answer) /\ mode' = mode
      BY <2>4 DEF Completes
    <3>2. Len(plan') = Len(plan) /\ pc' = "gate"
          /\ \A i \in 1..Len(plan) : plan'[i].done <=> i <= cursor
      BY <1>2, <2>1, <2>2, <3>1, CompletedPlan DEF CompleteStep
    <3> QED
      BY <1>2, <1>3, <2>1, <2>2, <3>1, <3>2, PaidAfter
  <2>5. CASE Grants
    <3>1. plan' = plan /\ pc' = "gate" /\ mode' # "initial"
      BY <2>5 DEF Grants
    <3>2. iterations' <= Spent'
      BY <1>2, <1>3, <2>1, <2>2
    <3>3. iterations' + (IF mode' = "initial" THEN Len(plan') - n ELSE 0) <= Spent'
      BY <1>2, <2>1, <2>2, <3>1, <3>2
    <3>4. n \in 0..Len(plan') /\ Len(plan') \in Nat
          /\ \A i \in 1..Len(plan') : plan'[i].done <=> i <= n
      BY <1>2, <3>1
    <3> QED
      BY <3>1, <3>3, <3>4, PaidAfter
  <2> QED
    BY <2>1, <2>3, <2>4, <2>5
<1> QED
  BY <1>4, <1>5, <1>6, <1>7, <1>8, <1>9, <1>10 DEF Next, Graph

(***************************************************************************)
(* The iteration limit strikes before another cycle only when both kinds   *)
(* of replan are used up, so no run with a replan left dies of the limit,  *)
(* provided that the replans are fewer than a plan's steps and three:      *)
(* every replan costs one iteration that plans, and the limit's formula    *)
(* only has the steps and those three to pay it from.                      *)
(***************************************************************************)
THEOREM LimitStrikesLast ==
  ASSUME MaxReplanCount + MaxStepReplanCount < MaxPlanSteps + 3
  PROVE  Spec => []LimitNeedsReplans
<1> USE AgentGraphAssumption
<1>1. Init => IterationsPaid
  <2> SUFFICES ASSUME Init PROVE IterationsPaid
    OBVIOUS
  <2>1. iterations = 0 /\ revision = 0 /\ Len(plan) = 0 /\ pc = "gate"
    BY DEF Init
  <2>2. Spent = 0
    BY <2>1 DEF Spent
  <2> QED
    BY <2>1, <2>2 DEF IterationsPaid
<1>2. GraphInv /\ IterationsPaid /\ [Next]_vars => IterationsPaid'
  BY IterationsStep
<1>3. GraphInv /\ IterationsPaid => LimitNeedsReplans
  <2> SUFFICES ASSUME GraphInv, IterationsPaid, iterations = MaxIterations, pc = "gate",
                      replans # MaxReplanCount \/ stepReplans # MaxStepReplanCount
               PROVE  FALSE
    BY DEF LimitNeedsReplans
  <2>1. iterations <= Spent /\ iterations \in Nat /\ revision \in Nat
    <3>1. PICK n \in 0..Len(plan) : Answered(n)
      BY DEF GraphInv, AnsweredInOrder
    <3>2. iterations \in Nat /\ Spent \in Nat /\ Len(plan) \in Nat /\ revision \in Nat
      BY Growth DEF GraphInv, TypeOK, Spent
    <3> QED
      BY <3>1, <3>2 DEF IterationsPaid
  <2> DEFINE granted == MaxReplanCount + MaxStepReplanCount
  <2>2. revision <= granted /\ granted \in Nat
    BY <2>1 DEF GraphInv, TypeOK, RevisionCountsReplans
  <2>3. (MaxPlanSteps + 1) * revision <= (MaxPlanSteps + 1) * granted
    BY <2>1, <2>2
  <2>4. (MaxPlanSteps + 1) * granted = MaxPlanSteps * granted + granted
        /\ MaxPlanSteps * granted \in Nat
    BY <2>2
  <2>5. MaxPlanSteps * (1 + granted) = MaxPlanSteps + MaxPlanSteps * granted
    BY <2>2
  <2>6. MaxIterations = MaxPlanSteps * (1 + granted) + 3
    BY DEF MaxIterations
  <2> QED
    BY <2>1, <2>2, <2>3, <2>4, <2>5, <2>6 DEF Spent
<1> QED
  BY <1>1, <1>2, <1>3, GraphAlways, PTL DEF Spec

-------------------------------------------------------------------------------
(* The graph implements PlanExecution.                                     *)

\* What Execution puts for whole and verdict; PartialPlans is what it puts for partial.
WholePlans ==
  (IF plan = << >> THEN 0 ELSE 1) + replans - (IF mode = "replan" THEN 1 ELSE 0)

Verdict == IF pc \in {"finished", "failed"} THEN pc ELSE "running"

(***************************************************************************)
(* The plan's revision is the number of plans made of either kind.         *)
(***************************************************************************)
LEMMA PlansCounted ==
  ASSUME GraphInv
  PROVE  /\ WholePlans \in Nat /\ PartialPlans \in Nat /\ revision \in Nat
         /\ revision = WholePlans + PartialPlans
<1> USE DEF GraphInv, TypeOK
<1>1. CASE mode = "initial"
  BY <1>1 DEF WholePlans, PartialPlans, RevisionCountsReplans
<1>2. CASE mode # "initial"
  BY <1>2 DEF WholePlans, PartialPlans, RevisionCountsReplans, NodesReady
<1> QED
  BY <1>1, <1>2

LEMMA StutterMaps ==
  ASSUME UNCHANGED <<plan, WholePlans, PartialPlans, Verdict>>
  PROVE  UNCHANGED Execution!vars
BY DEF Execution!vars, WholePlans, PartialPlans, Verdict

LEMMA GiveUpMaps ==
  ASSUME UNCHANGED <<plan, replans, stepReplans, mode>>, pc \notin {"finished", "failed"},
         pc' = "failed"
  PROVE  Execution!Next
BY DEF Execution!Next, Execution!GiveUp

LEMMA PlanMaps ==
  ASSUME GraphInv, Plan
  PROVE  Execution!Next
<1> USE DEF GraphInv
<1>1. PICK n \in 1..MaxPlanSteps : \E ids \in [1..n -> PlannerIds] :
        plan' = [i \in 1..n |-> NewStep(ids[i], i)]
  BY DEF Plan
<1>2. PICK ids \in [1..n -> PlannerIds] : plan' = [i \in 1..n |-> NewStep(ids[i], i)]
  BY <1>1
<1>3. /\ pc = "planning" /\ pc' = "gate" /\ mode \in {"initial", "replan"}
      /\ mode' = "initial" /\ UNCHANGED <<replans, stepReplans>>
  BY PlanEffect
<1>4. plan' # << >>
  BY PlanEffect DEF Planned
<1>5. /\ WholePlans <= MaxReplanCount
      /\ WholePlans' = WholePlans + 1 /\ PartialPlans' = PartialPlans
  <2>1. CASE mode = "replan"
    BY <1>3, <1>4, <2>1, AgentGraphAssumption
       DEF NodesReady, TypeOK, WholePlans, PartialPlans
  <2>2. CASE mode = "initial"
    BY <1>3, <1>4, <2>2, AgentGraphAssumption
       DEF NodesReady, NeedsPlan, TypeOK, WholePlans, PartialPlans
  <2> QED
    BY <1>3, <2>1, <2>2
<1>6. \A id, position : Execution!Fresh(id, position) = NewStep(id, position)
  <2>1. revision + 1 = WholePlans + PartialPlans + 1
    BY PlansCounted
  <2> QED
    BY <2>1 DEF Execution!Fresh, Execution!Unanswered, NewStep, NoTask, WholePlans, PartialPlans
<1>7. ids \in [1..n -> Ids] /\ plan' = [i \in 1..n |-> Execution!Fresh(ids[i], i)]
  BY <1>2, <1>6, AgentGraphAssumption
<1>8. Execution!PlanWhole
  BY <1>3, <1>5, <1>7 DEF Execution!PlanWhole, WholePlans, PartialPlans
<1> QED
  BY <1>3, <1>8 DEF Execution!Next

LEMMA RemainderMaps ==
  ASSUME GraphInv, PlanRemainder
  PROVE  Execution!Next
<1> USE DEF GraphInv
<1>1. PICK n \in 1..MaxPlanSteps :
        plan' = SubSeq(plan, 1, cursor - 1)
                \o [i \in 1..n |-> NewStep(cursor - 1 + i, cursor - 1 + i)]
  BY DEF PlanRemainder
<1>2. /\ pc = "planning" /\ mode = "step_replan" /\ pc' = "gate" /\ mode' = "initial"
      /\ UNCHANGED <<replans, stepReplans>>
  BY RemainderEffect
<1>3. plan' # << >>
  BY RemainderEffect DEF Remade
<1>4. cursor \in 1..Len(plan) /\ Answered(cursor - 1) /\ plan # << >>
  BY <1>2 DEF AnsweredInOrder
<1>5. /\ PartialPlans < MaxStepReplanCount
      /\ PartialPlans' = PartialPlans + 1 /\ WholePlans' = WholePlans
  BY <1>2, <1>3, <1>4, AgentGraphAssumption DEF TypeOK, WholePlans, PartialPlans
<1>6. \A id, position : Execution!Fresh(id, position) = NewStep(id, position)
  <2>1. revision + 1 = WholePlans + PartialPlans + 1
    BY PlansCounted
  <2> QED
    BY <2>1 DEF Execution!Fresh, Execution!Unanswered, NewStep, NoTask, WholePlans, PartialPlans
<1>7. PICK kept \in 0..Len(plan) - 1 : kept = cursor - 1
  BY <1>4 DEF TypeOK
<1>8. Execution!Answered(kept)
  BY <1>4, <1>7 DEF Answered, Execution!Answered
<1>9. plan' = SubSeq(plan, 1, kept) \o [i \in 1..n |-> Execution!Fresh(kept + i, kept + i)]
  BY <1>1, <1>6, <1>7
<1>10. Execution!PlanRest
  BY <1>2, <1>5, <1>8, <1>9 DEF Execution!PlanRest, WholePlans, PartialPlans
<1> QED
  BY <1>2, <1>10 DEF Execution!Next

LEMMA CompletesMaps ==
  ASSUME GraphInv, AnswersInv, pc = "reacting", Completes
  PROVE  Execution!Next
<1> USE DEF GraphInv, AnswersInv
<1>1. PICK answer \in Tasks :
        /\ CompleteStep(answer)
        /\ \/ answer = Step.task
           \/ depth = 1 /\ answer # NoTask /\ answer = frame[1].answers[Step.id]
  BY DEF Completes
<1>2. cursor \in 1..Len(plan) /\ Answered(cursor - 1) /\ mode = "initial"
  BY DEF AnsweredInOrder, NodesReady, NeedsPlan, TypeOK
<1>3. answer.rev \in 1..revision /\ answer.pos \in 1..PlanLimit
  <2>1. CASE answer = Step.task
    BY <1>2, <2>1 DEF PlanBounded, Step
  <2>2. CASE depth = 1 /\ answer # NoTask /\ answer = frame[1].answers[Step.id]
    <3>1. answer = frame[0].answers[Step.id] /\ Step.id \in Ids
      BY <2>2, Typed DEF AnswersOnRecord
    <3> QED
      BY <2>2, <3>1 DEF AnswersOnRecord
  <2> QED
    BY <1>1, <2>1, <2>2
<1>4. answer \in Execution!Posed
  <2>1. answer \in [rev : 1..revision, pos : 1..PlanLimit]
    BY <1>3 DEF Tasks
  <2> QED
    BY <2>1, PlansCounted DEF Execution!Posed, PlanLimit, WholePlans, PartialPlans
<1>5. Execution!Answered(cursor - 1)
  BY <1>2 DEF Answered, Execution!Answered
<1>6. plan' = [plan EXCEPT ![cursor].done = TRUE, ![cursor].answer = answer]
      /\ pc' = "gate" /\ UNCHANGED <<mode, replans, stepReplans>>
  BY <1>1 DEF CompleteStep, Completes
<1>7. plan # << >> /\ plan' # << >>
  <2>1. Len(plan') = Len(plan) /\ plan' \in Seq(Steps)
    BY <1>1, CompletedPlan
  <2>2. Len(plan) # 0
    BY <1>2
  <2> QED
    BY <2>1, <2>2
<1>8. Execution!Answer
  BY <1>2, <1>4, <1>5, <1>6, <1>7 DEF Execution!Answer
<1> QED
  BY <1>6, <1>8 DEF Execution!Next

LEMMA ExecutionStep ==
  ASSUME GraphInv, AnswersInv, [Next]_vars
  PROVE  [Execution!Next]_(Execution!vars)
<1> USE DEF GraphInv
<1>1. CASE UNCHANGED vars
  BY <1>1, StutterMaps DEF vars, WholePlans, PartialPlans, Verdict
<1>2. CASE CycleGate
  <2>1. pc = "gate" /\ pc' \in {"failed", "planning", "selecting"}
        /\ UNCHANGED <<plan, replans, stepReplans, mode>>
    BY <1>2 DEF CycleGate, Fail
  <2>2. CASE pc' = "failed"
    BY <2>1, <2>2, GiveUpMaps
  <2>3. CASE pc' # "failed"
    BY <2>1, <2>3, StutterMaps DEF WholePlans, PartialPlans, Verdict
  <2> QED
    BY <2>2, <2>3
<1>3. CASE PlannerFails
  BY <1>3, GiveUpMaps DEF PlannerFails, Fail
<1>4. CASE SelectStep \/ SelectNone
  <2>1. pc = "selecting" /\ pc' \in {"reacting", "finalizing"}
        /\ UNCHANGED <<plan, replans, stepReplans, mode>>
    BY <1>4 DEF SelectStep, SelectNone
  <2> QED
    BY <2>1, StutterMaps DEF WholePlans, PartialPlans, Verdict
<1>5. CASE Finalize
  <2>1. pc = "finalizing" /\ pc' \in {"finished", "failed"}
        /\ UNCHANGED <<plan, replans, stepReplans, mode>>
    BY <1>5 DEF Finalize
  <2>2. CASE pc' = "failed"
    BY <2>1, <2>2, GiveUpMaps
  <2>3. CASE pc' = "finished"
    <3>1. plan # << >> /\ Answered(Len(plan))
      BY <2>1 DEF NodesReady, NeedsPlan, AnsweredInOrder
    <3>2. Execution!Finish
      BY <2>1, <2>3, <3>1 DEF Execution!Finish, Execution!Answered, Answered
    <3> QED
      BY <2>1, <3>2 DEF Execution!Next
  <2> QED
    BY <2>1, <2>2, <2>3
<1>6. CASE React
  <2>1. /\ pc = "reacting" /\ UNCHANGED <<iterations, revision, cursor>>
        /\ Stops \/ Continues \/ Completes \/ Grants
    BY <1>6, ReactKinds DEF NodesReady, OuterUnchanged
  <2>2. CASE Stops
    BY <2>1, <2>2, GiveUpMaps DEF Stops, Kept
  <2>3. CASE Continues
    BY <2>1, <2>3, StutterMaps DEF Continues, Kept, WholePlans, PartialPlans, Verdict
  <2>4. CASE Completes
    BY <2>1, <2>4, CompletesMaps
  <2>5. CASE Grants
    <3>1. mode = "initial" /\ plan' = plan /\ pc' = "gate"
      BY <2>1, <2>5 DEF NodesReady, NeedsPlan, TypeOK, Grants
    <3>2. WholePlans' = WholePlans /\ PartialPlans' = PartialPlans
      BY <2>5, <3>1, AgentGraphAssumption DEF Grants, TypeOK, WholePlans, PartialPlans
    <3> QED
      BY <2>1, <3>1, <3>2, StutterMaps DEF Verdict
  <2> QED
    BY <2>1, <2>2, <2>3, <2>4, <2>5
<1> QED
  BY <1>1, <1>2, <1>3, <1>4, <1>5, <1>6, PlanMaps, RemainderMaps DEF Next, Graph

(***************************************************************************)
(* The graph with its ReAct loop, signals, restarts and subagents executes *)
(* its plan as PlanExecution promises: a step is answered in its turn and  *)
(* with a task that was posed, what is done survives a step replan, each   *)
(* kind of plan is made as often as granted, and "finished" means that the *)
(* last plan is done.                                                      *)
(***************************************************************************)
THEOREM GraphExecutesPlan == Spec => ExecutesPlan
<1>1. Init => Execution!Init /\ AnswersInv
  BY DEF Init, EmptyFrame, AnswersInv, AnswersOnRecord, AnswerBelongs, Execution!Init
<1>2. GraphInv /\ AnswersInv /\ [Next]_vars => AnswersInv'
  BY AnswersStep
<1>3. GraphInv /\ AnswersInv /\ [Next]_vars => [Execution!Next]_(Execution!vars)
  BY ExecutionStep
<1> QED
  BY <1>1, <1>2, <1>3, GraphAlways, PTL DEF Spec, ExecutesPlan, Execution!Spec
===============================================================================
