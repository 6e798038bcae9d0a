SPECIFICATION Spec
CONSTANTS
  NULL = NULL
  ServiceID = {s1, s2}
  Client = {c1, c2, c3, c4}
  BadDirectory = {s2}
  SpawnMayFail = TRUE
  ProcessMayDie = TRUE
  ProviderMayLeave = TRUE
  MaxRequests = 3
INVARIANTS
  EachRequestOnce
  DeliveredInOrder

  
  
CHECK_DEADLOCK FALSE
