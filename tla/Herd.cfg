SPECIFICATION FairSpec
CONSTANTS
  Panes = {p1}
  SniffSets <- MCSniffSets
  MaxChanges = 2
  MaxFaults = 2
INVARIANTS
  PokeIsAnswered
  OneStream
  NoAlertLingers
  NoAlertMissed
PROPERTIES
  HerdSettles
