SPECIFICATION FairSpec
CONSTANTS
  MAX_BURST_COUNT = 4
  BURST_ENABLE = TRUE
  BURST_REALIGN_ENABLE = TRUE
  FIFO_DEPTH = 10
  LENGTH_WORDS = 32
  Bases = {0, 6}
  Lengths = {3, 6, 14, 18}
  BlockSizes = {4, 8, 12}
  Plans <- CompatiblePlans
INVARIANTS
  TypeOK
  RoomForPostedRead
PROPERTIES
  HoldWhileWaiting
  ImplementsBurstMaster
  TestCompletes
