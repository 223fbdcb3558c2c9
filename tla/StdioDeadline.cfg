CONSTANTS
  MaxAttempts = 2
  MaxRequests = 3
  MaxContexts = 1
  MaxNoise = 1
  Remains = {"refused"}
SPECIFICATION ClientSpec
PROPERTIES
  DeadlineHonoured
CHECK_DEADLOCK FALSE
