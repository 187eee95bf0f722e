\* Plans of up to two steps, both kinds of replan, a subagent, every decision.
SPECIFICATION FairSpec
CONSTANTS
  t1 = t1
  PlannerIds = {1, 2}
  Tools = {t1}
  MaxPlanSteps = 2
  MaxReplanCount = 1
  MaxStepReplanCount = 1
  MaxReactTurns = 3
  ThinkLimit = 2
  FindingMissingThreshold = 2
INVARIANTS TypeOK RevisionCountsReplans CallsBounded LimitNeedsReplans AnswerBelongs
PROPERTIES ExecutesPlan Terminates
CHECK_DEADLOCK FALSE
