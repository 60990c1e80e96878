\* Udev mode: a bridge that died is not always replaced.
SPECIFICATION FairSpec
CONSTANTS
  Devices = {0, 1}
  Answer <- HybridAndForeign
  NULL = NULL
  UdevMode = TRUE
  IdentifyRetries = 2
  FailureThreshold = 1
  InitialSkip = 1
  MaxSkip = 1
  MaxTroubles = 2
PROPERTIES
  BridgeRespawned
