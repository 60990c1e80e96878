\* An error that leaves the connection in use.
SPECIFICATION Spec
CONSTANTS
  MaxLength = 1
  MaxTroubles = 1
PROPERTIES
  ErrorsFlip
