CONSTANTS
  Adapters <- ThreeRuns
SPECIFICATION MCSpec
INVARIANTS
  TypeOK
  SecretOutlivesUse
PROPERTIES
  KeepHonoured
  OrderlyEnd
  OwnedGoesWithOwner
CHECK_DEADLOCK FALSE
