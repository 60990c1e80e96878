\* The identification of a display by the watcher and by the bridge.
SPECIFICATION FairSpec
CONSTANTS
  IdentifyRetries = 3
  MaxTty = 3
  MaxTroubles = 4
INVARIANTS
  TypeOK
  Agreement
  FailuresEarned
PROPERTIES
  Settles
