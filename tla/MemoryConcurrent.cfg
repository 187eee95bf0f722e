\* One daemon: runs that finish at any time, one refresh thread, failing model calls and reports.
SPECIFICATION FairSpec
CONSTANTS
  r1 = r1  r2 = r2  r3 = r3  w1 = w1  w2 = w2
  Runs = {r1, r2, r3}
  Workers = {w1, w2}
  Updaters = {}
  Daemon = Daemon
  NoThread = NoThread
  Batch = 2
  Window = 1
  Faults = {"llm", "report"}
  MaxCrashes = 0
INVARIANTS OneAttemptPerSequence
PROPERTIES CoverageMonotone EventuallyAttempted
CHECK_DEADLOCK FALSE
