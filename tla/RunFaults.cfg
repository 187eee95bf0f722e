\* One CLI and its run, and everything that can go wrong around them.
SPECIFICATION FairSpec
CONSTANTS
  c1 = c1
  Clients = {c1}
  MaxQueue = 2
  HighWater = 1
  LowWater = 0
  MaxProgress = 2
  Faults = {"quit", "session", "open", "write", "encode", "persist", "refresh", "shutdown"}
  Troubled = {c1}
INVARIANTS EveryRunConcludes OneVerdict
PROPERTIES EndsUnlessLost StopsUnlessLost
CHECK_DEADLOCK FALSE
