CONSTANTS
  SessionIDs = 65536
  Host = {3, 515}
  Application <- MCApplication
  Service <- MCService
  Member = {33025}
  Arguments <- MCArguments
  StaticSize = 8
  Reserved = {0}
  FirstRequestID = 65535
  Chunk = {17}
  MaxCalls = 3
SPECIFICATION Spec
INVARIANTS
  AnswerIsForRequester
  
  SubscriptionsAreKnown
  
  
  SubscribersAreNotified
CHECK_DEADLOCK FALSE
