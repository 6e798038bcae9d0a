SPECIFICATION StreamSpec
CONSTANTS
  Message <- MCMessage
  WatchedEvents <- MCEvents
  Transport = "UDS"
  Capacity = 3
  MaxMessages = 4
  SizeBytes = 2
  Base = 4
INVARIANTS
  DataOrderKept
  
  MessagesInOrder

  
CHECK_DEADLOCK FALSE
