SPECIFICATION FairSpec
CONSTANTS
  MAX_BURST_COUNT = 4
  BURST_ENABLE = TRUE
  BURST_REALIGN_ENABLE = TRUE
  FIFO_DEPTH = 8
  LENGTH_WORDS = 32
  Bases = {0, 2}
  Lengths = {2, 8, 10, 14, 16}
  BlockSizes = {4, 8, 16}
  Tests <- AlignedTests
INVARIANTS
  TypeOK
  DataBuffered
  EveryWordWritten
PROPERTIES
  BurstHeld
  ImplementsBurstMaster
  TestCompletes
