\* Expected to fail: a refresh that outlives its session writes the summary of the next one.
SPECIFICATION ReuseSpec
CONSTANTS
  r1 = r1  r2 = r2  w1 = w1  u1 = u1
  Runs = {r1, r2}
  Workers = {w1}
  Updaters = {}
  Daemon = Daemon
  NoThread = NoThread
  Batch = 1
  Window = 1
  Faults = {}
  MaxCrashes = 0
  MaxDeletes = 1
INVARIANT SummaryFaithful
SYMMETRY Symmetry
CHECK_DEADLOCK FALSE
