\* The session is deleted and created again while runs and refreshes go on.
SPECIFICATION ReuseSpec
CONSTANTS
  r1 = r1  r2 = r2  r3 = r3  w1 = w1  u1 = u1
  Runs = {r1, r2}
  Workers = {w1}
  Updaters = {u1}
  Daemon = Daemon
  NoThread = NoThread
  Batch = 1
  Window = 1
  Faults = {"llm", "state_write", "torn", "newline", "crash"}
  MaxCrashes = 1
  MaxDeletes = 2
INVARIANTS OwnRecordsOnly
SYMMETRY Symmetry
CHECK_DEADLOCK FALSE
