\* Three commands of any kind, one at a time or all at once, killed anywhere, with removals that fail.
SPECIFICATION Spec
CONSTANTS
  p1 = p1  p2 = p2  p3 = p3
  Processes = {p1, p2, p3}
  Before = Before
  NoSession = NoSession
  NoCommand = NoCommand
  MaxId = 3
  InitialIds = {1}
  Faults = {"kill", "rmtree"}
INVARIANTS TypeOK CurrentHasData LostOnlyByDelete AloneGetsDaemon
SYMMETRY Symmetry
CHECK_DEADLOCK FALSE
