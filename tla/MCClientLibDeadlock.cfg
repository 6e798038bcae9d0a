CONSTANTS
  Main = main
  NULL = NULL
  Thread = {main, t1}
  Calls = {"writeRequest", "sendMessageBlocking"}
  NestedCalls = FALSE
  DaemonMayStop = FALSE
  RequestIDs = 8
  FirstRequestID = 1
  SocketCapacity = 1
  PipeCapacity = 9
  MaxSent = 1
  MaxCalls = 2
SPECIFICATION Spec
PROPERTY
  CallsReturn
CHECK_DEADLOCK FALSE
