SPECIFICATION FairSpec
CONSTANTS
  Panes = {p1}
  Turns = {"working", "blocked"}
  Shelves = {"snoozed", "archived"}
  MaxTerms = 2
  MaxChanges = 2
  MaxFaults = 1
  MaxActs = 1
  MaxLate = 0
INVARIANTS
  NoTwins
PROPERTIES
  ReplacedRightly
  UserArchiveStands
  HerdMirrored
CHECK_DEADLOCK FALSE
