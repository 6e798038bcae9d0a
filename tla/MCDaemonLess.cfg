SPECIFICATION Spec
CONSTANTS
  Application = {a1, a2}
  Service = {s1}
  Provider = {a1}
  MaxRegistrations = 2
  MaxCalls = 2
  MaxLost = 1
 
PROPERTIES ServiceBecomesVisible WithdrawnDisappears SubscriptionIsInstalled
CHECK_DEADLOCK FALSE
