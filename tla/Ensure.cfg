CONSTANTS
  Calls = {c1, c2, c3}
  Specs <- SomeSpecs
  MaxFaults = 1
  MaxDeletes = 1
SPECIFICATION Spec
INVARIANTS
  TypeOK
PROPERTIES
  NoBlindOverwrite
  LoneCallTakesEffect
  ActsAtomically
CHECK_DEADLOCK FALSE
