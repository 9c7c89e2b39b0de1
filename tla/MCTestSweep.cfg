SPECIFICATION FairSpec
CONSTANTS
  NUM_OF_TESTS = 2
  NUMBER_OF_MINOR_TESTS = 4
  PRBS_TEST_NUMBER = 3
  TestsEnabled <- const_TestsEnabled
  BLOCK_SIZE_MINIMUM = 48
  BLOCK_SIZE_MAXIMUM = 100
  BLOCK_TRAIL_DISTANCE_MINIMUM = 1
  BLOCK_TRAIL_DISTANCE_MAXIMUM = 3
  RAM_LENGTH_MINIMUM = 64
  RAM_LENGTH_MAXIMUM = 128
  TIMEOUT = 3
  Modulus = 512
  BLOCK_MODULUS = 128
CHECK_DEADLOCK FALSE
INVARIANTS
  TypeOK
  NeverWaitsInVain
PROPERTIES
  ImplementsSweep
  SweepEnds
