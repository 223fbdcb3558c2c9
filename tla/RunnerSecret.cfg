CONSTANTS
  r1 = r1
  r2 = r2
  Adapters = {r1, r2}
SPECIFICATION Spec
SYMMETRY AnyRun
PROPERTIES
  SecretShortLived
CHECK_DEADLOCK FALSE
