SPECIFICATION FairSpec
CONSTANTS
  phone = phone
  desk = desk
  Devices <- MCDevices
  Permission = {2}
  MaxDialogs = 2
  MaxTaps = 2
  MaxFaults = 2
INVARIANTS
  OneOpen
  KeysMeetTheirDialog
  AnsweredOnce
PROPERTIES
  AnswersStand
  RequestsFollow
CHECK_DEADLOCK FALSE
