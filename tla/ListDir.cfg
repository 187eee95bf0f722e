\* Every workspace of five paths, with limits small enough for each to be met.
SPECIFICATION Spec
CONSTANTS
  Nodes = 5
  MaxEntries = 3
  CollapseFiles = 1
  CollapseDirs = 1
  Matching <- MCMatching
INVARIANTS EverythingFound AnswersAreTruthful
CHECK_DEADLOCK FALSE
