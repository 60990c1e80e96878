\* Udev mode: safety and liveness.
SPECIFICATION FairSpec
CONSTANTS
  Devices = {0, 1}
  Answer <- HybridAndCava
  NULL = NULL
  UdevMode = TRUE
  IdentifyRetries = 2
  FailureThreshold = 1
  InitialSkip = 1
  MaxSkip = 1
  MaxTroubles = 4
INVARIANTS
  TypeOK
  OneBridge
  StaleOnlyIfLost
PROPERTIES
  Served
  CavaBridgeRespawned
