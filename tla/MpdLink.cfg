\* The link to MPD: safety and liveness.
SPECIFICATION FairSpec
CONSTANTS
  MaxLength = 2
  MaxTroubles = 2
INVARIANTS
  TypeOK
  InStep
PROPERTIES
  ShownHappened
  DisplayFollows
