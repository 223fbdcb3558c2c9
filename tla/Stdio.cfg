CONSTANTS
  MaxAttempts = 2
  MaxRequests = 3
  MaxContexts = 1
  MaxNoise = 1
  Remains = {"lingering", "severed", "refused"}
SPECIFICATION FairSpec
INVARIANTS
  TypeOK
  OwnAnswerOnly
  AttemptBudget
  HandshakeFirst
PROPERTIES
  KeepsPromise
  CallsReturn
CHECK_DEADLOCK FALSE
