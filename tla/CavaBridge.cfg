\* The CAVA bridge: displays with fewer, as many and more bars than a frame
\* can carry, both formats.
SPECIFICATION FairSpec
CONSTANTS
  BarCounts = {1, 2, 3}
  MaxValues = 2
  ChunkFrames = 2
  PipeSize = 7
  MaxWait = 1
  MaxConsecutiveErrors = 3
  MaxSkip = 8
INVARIANTS
  TypeOK
  FramesWhole
  BackoffEarned
PROPERTIES
  SpectrumFlows
  NeitherOutlives
