CONSTANTS
  MaxRequests = 4
  MaxLines = 3
SPECIFICATION ClientSpec
INVARIANTS
  TypeOK
  FramesVerbatim
PROPERTIES
  KeepsPromise
CHECK_DEADLOCK FALSE
