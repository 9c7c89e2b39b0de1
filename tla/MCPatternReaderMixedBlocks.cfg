SPECIFICATION Spec
CONSTANTS
  MAX_BURST_COUNT = 2
  BURST_ENABLE = TRUE
  BURST_REALIGN_ENABLE = TRUE
  FIFO_DEPTH = 8
  LENGTH_WORDS = 32
  Bases = {0}
  Lengths = {18}
  BlockSizes = {9}
  Plans <- AllPlans
INVARIANT RequestsWithinCommand
