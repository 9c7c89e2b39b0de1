SPECIFICATION FairSpec
CONSTANTS
  FIFO_DEPTH = 2
  DEFAULT_BLOCK_SIZE = 2
  DEFAULT_TRAIL_DISTANCE = 1
  Bases = {5}
  Lengths = {2, 9}
  BlockSizes = {2, 3}
  Trails = {1, 2, 3}
  Concurrent = {TRUE, FALSE}
  CsrWrites <- TestWrites
INVARIANTS
  TypeOK
  CommandsFollowPlan
  CommandFifosSafe
  TurnTakingIsSafe
PROPERTIES
  CommandsHeld
  ImplementsTrailingTest
