SPECIFICATION Spec
CONSTANTS
  c1 = c1
  c2 = c2
  Client = {c1, c2}
  Transport <- Local
  MaxRuns = 1
  MaxData = 1
  MaxTicks = 1
  MaxSignals = 1
INVARIANTS
  CallbacksReachTheLiving
PROPERTIES
  LastWordsAreRead
  
  RunEnds
CHECK_DEADLOCK FALSE
