\* What a bridge runs whose own identification was spoiled.
SPECIFICATION Spec
CONSTANTS
  IdentifyRetries = 3
  MaxTty = 3
  MaxTroubles = 1
INVARIANTS
  BridgeServes
