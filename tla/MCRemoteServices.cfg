CONSTANTS
  h1 = h1
  h2 = h2
  a = a
  b = b
  c = c
  i1 = i1
  NULL = NULL
  Host = {h1, h2}
  ServiceID = {a, b, c}
  InstanceID = {i1}
  MayOffer <- SharedOffers
  WellKnown <- SomeWellKnown
  Lossy = TRUE
  Reorder = TRUE
  HostMayRestart = TRUE
  HostMayBeDown = TRUE
  Requests = TRUE
  Subscriptions <- SharedSubscriptions
  MaxMessages = 2
  MaxSent = 4
  MaxRestarts = 1
  SessionIDs = 4
SPECIFICATION Spec

  
  
  
PROPERTIES
  NoFalseReboot
CHECK_DEADLOCK FALSE
