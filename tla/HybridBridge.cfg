\* The hybrid bridge: safety and liveness.
SPECIFICATION FairSpec
CONSTANT MaxOutages = 2
INVARIANTS
  TypeOK
  NoIoOnClosedPort
  CleanExit
  ReaderHasCava
PROPERTIES
  ImplementsLife
  DeathEndsProcess
  MpdRecovers
  DeferredStarts
