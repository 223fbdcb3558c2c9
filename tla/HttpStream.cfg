CONSTANTS
  MaxRequests = 3
  MaxLines = 3
SPECIFICATION ClientSpec
PROPERTIES
  AnsweredReturns
CHECK_DEADLOCK FALSE
