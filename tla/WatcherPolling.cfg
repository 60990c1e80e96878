\* Polling mode.
SPECIFICATION FairSpec
CONSTANTS
  Devices = {0, 1}
  Answer <- HybridAndForeign
  NULL = NULL
  UdevMode = FALSE
  IdentifyRetries = 2
  FailureThreshold = 2
  InitialSkip = 1
  MaxSkip = 2
  MaxTroubles = 3
INVARIANTS
  CooldownEarned
PROPERTIES
  Served
  StaleDropped
