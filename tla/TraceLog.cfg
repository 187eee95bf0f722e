\* One run with its refresh thread, and the loop, which sends its events to a client.
SPECIFICATION Spec
CONSTANTS
  r1 = r1
  c1 = c1
  Runs = {r1}
  Clients = {c1}
  Loop = Loop
  MaxRecords = 2
  MaxClock = 3
INVARIANTS StoryInOrder
CHECK_DEADLOCK FALSE
