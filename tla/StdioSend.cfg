CONSTANTS
  MaxAttempts = 2
  MaxRequests = 3
  MaxContexts = 1
  MaxNoise = 1
  Remains = {"lingering", "severed"}
SPECIFICATION FairSpec
PROPERTIES
  SendReturns
CHECK_DEADLOCK FALSE
