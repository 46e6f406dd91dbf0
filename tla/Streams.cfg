SPECIFICATION FairSpec
CONSTANTS
  Kinds = {"shell", "thread"}
  Classes = {"change", "other"}
  MaxSeq = 4
  ReplayLimit = 1
  MaxBehind = 1
  RetainMin = 1
  MaxTroubles = 2
  MaxSeen = 0
INVARIANTS
  NothingSkipped
  SyncedIsCaughtUp
PROPERTIES
  NeverBack
  CatchesUp
CHECK_DEADLOCK FALSE
