\* The standalone MPD bridge and its back-off.
SPECIFICATION FairSpec
CONSTANTS
  UpdateInterval = 3
  BaseDelay = 2
  MaxDelay = 7
INVARIANTS
  TypeOK
PROPERTIES
  NoStorm
  Reconnects
