\* The queue: safety, its refinement of Outbox, and liveness.
SPECIFICATION FairSpec
CONSTANTS
  Senders = {s1, s2}
  Worker = worker
  Priorities = {0, 1}
  MaxQueueSize = 2
  MaxConsecutiveErrors = 3
  MaxSends = 5
INVARIANTS
  TypeOK
  Conservation
  FifoWithinPriority
  LatchCorrect
  StopCutsIntake
PROPERTIES
  ImplementsOutbox
  Drained
  StopReturns
