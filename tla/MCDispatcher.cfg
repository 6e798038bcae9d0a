SPECIFICATION Spec
CONSTANTS
  Client = {c1, c2, c3}
  ServiceID = {s1}
  Member = {m1}
  NULL = NULL
  ClientIDs = 4
  Reregister = TRUE
  MaxServices = 2
  MaxRegistrations = 2
  MaxSubscriptions = 2
  MaxRequests = 1
SYMMETRY Symmetry
INVARIANTS
  IdentifierIsSlot
  AnswerReachesRequester
  ProviderIsCurrent
  NoDanglingClient
PROPERTIES
  SlotsAreNeverReused
  ImplementsProviderRegistry
CHECK_DEADLOCK FALSE
