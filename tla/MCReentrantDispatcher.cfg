SPECIFICATION Spec
CONSTANTS
  Client = {c1, c2, c3}
  ServiceID = {s1, s2}
  Member = {m1}
  Reregister = FALSE
  EarlyExit = TRUE
  MaxServices = 2
  MaxRegistrations = 2
  MaxSubscriptions = 2
  MaxHungUp = 2
SYMMETRY Symmetry
INVARIANTS
  NoDanglingClient
CHECK_DEADLOCK FALSE
