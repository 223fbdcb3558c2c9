CONSTANTS
  r1 = r1
  Adapters = {r1}
SPECIFICATION FairSpec
PROPERTIES
  NoOrphans
CHECK_DEADLOCK FALSE
