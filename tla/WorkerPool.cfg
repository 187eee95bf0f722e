\* Two threads of a run and two workers that use the pool themselves, one at a time.
SPECIFICATION FairSpec
CONSTANTS
  c1 = c1  c2 = c2
  w1 = w1  w2 = w2
  Callers = {c1, c2}
  Workers = {w1, w2}
  MaxWorkers = 1
  Free = Free
INVARIANTS StatusWasTrue
PROPERTIES ShutdownReturns
CHECK_DEADLOCK FALSE
