CONSTANTS
  Main = main
  NULL = NULL
  Thread = {main, t1}
  Calls = {"writeRequest", "sendMessageBlocking", "sendMessage"}
  NestedCalls = TRUE
  DaemonMayStop = TRUE
  RequestIDs = 8
  FirstRequestID = 1
  SocketCapacity = 1
  PipeCapacity = 5
  MaxSent = 2
  MaxCalls = 2
SPECIFICATION Spec
INVARIANTS
  AnswerIsNotStolen
PROPERTIES
  
  EverythingIsHandled
CHECK_DEADLOCK FALSE
