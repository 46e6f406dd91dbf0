SPECIFICATION FairWrites
CONSTANTS
  s1 = s1
  s2 = s2
  w1 = w1
  pane = pane
  Calls = {s1, s2, w1}
  Sends = {s1, s2}
  Keys = {pane}
  KeyOf <- MCKeyOf
  NoCall = NoCall
  LiveKeys = {pane}
  Human = Human
  Kits = {"plain", "held", "none"}
  PollAttempts = 2
  HeldReads = 1
  MaxPresses = 2
  MaxTroubles = 1
INVARIANTS
  NoOvertaking
  NeverBlind
  NothingMixed
  RefusedStaysOut
  SentIsSubmitted
PROPERTIES
  LivePanesServed
CHECK_DEADLOCK FALSE
