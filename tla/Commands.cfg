SPECIFICATION FairSpec
CONSTANTS
  Clients = {k1, k2}
  Ids = {c1, c2}
  Bodies = {"pure", "close", "effect"}
  MaxLost = 2
  MaxFaults = 1
INVARIANTS
  AppliedOnce
  OkIsDurable
  SameAnswer
PROPERTIES
  Answered
CHECK_DEADLOCK FALSE
