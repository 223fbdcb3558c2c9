CONSTANTS
  MaxMessages = 2
  Capacity = 1
  Retries = 2
  MaxPages = 3
  Pages = 3
  Forms <- SomeForms
  Layouts <- SomeLayouts
SPECIFICATION MCSpec
INVARIANTS
  TypesOK
  AckAfterReply
  TakenIsSettled
  RepliesFollowExecution
  RunnerServesTheLoop
  CallsBounded
  AggregateIsChain
  PagesAccountedFor
PROPERTIES
  CancelEnds
  ArrivedIsSettled
  RepeatsOnlyTransient
  CallsForMessageInHand
  KeepsLoop
  KeepsTool
CHECK_DEADLOCK FALSE
