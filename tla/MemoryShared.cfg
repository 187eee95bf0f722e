\* The daemon and one UpdateMemory process on the same files: broken-off appends and a kill.
SPECIFICATION Spec
CONSTANTS
  r1 = r1  r2 = r2  r3 = r3  w1 = w1  w2 = w2  u1 = u1
  Runs = {r1, r2, r3}
  Workers = {w1, w2}
  Updaters = {u1}
  Daemon = Daemon
  NoThread = NoThread
  Batch = 1
  Window = 1
  Faults = {"torn", "newline", "crash"}
  MaxCrashes = 1
INVARIANTS TypeOK SummaryStaysFaithful RememberedKept OneRefresher RefresherHasTarget NewRecordUnlocks
PROPERTIES KeepsPromise
SYMMETRY Symmetry
CHECK_DEADLOCK FALSE
