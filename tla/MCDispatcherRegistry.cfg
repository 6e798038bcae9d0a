SPECIFICATION Spec
CONSTANTS
  Client = {c1, c2, c3, c4}
  ServiceID = {s1}
  Member = {m1}
  NULL = NULL
  ClientIDs = 3
  Reregister = FALSE
  MaxServices = 3
  MaxRegistrations = 2
  MaxSubscriptions = 0
  MaxRequests = 0
INVARIANTS
  RegistryIsAccurate
CHECK_DEADLOCK FALSE
