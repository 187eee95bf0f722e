\* Two CLIs whose runs share the loop, with queues that overflow, failing refreshes and a shutdown.
SPECIFICATION Spec
CONSTANTS
  c1 = c1  c2 = c2
  Clients = {c1, c2}
  MaxQueue = 2
  HighWater = 0
  LowWater = 0
  MaxProgress = 0
  Faults = {"shutdown", "refresh"}
  Troubled = {c1}
INVARIANTS TypeOK SuccessIsTrue
PROPERTIES ShowsTheStream
CHECK_DEADLOCK FALSE
