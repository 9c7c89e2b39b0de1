SPECIFICATION FairSpec
CONSTANTS
  MAX_PATTERN_LENGTH = 4
  LENGTH_WRAP = 16
  Words = {0, 1}
  UnwrittenWord = 0
  NoWord = NoWord
  Patterns <- ThreeWords
  Payloads = {4}
  Modes <- SweepMode
  TIMEOUT = 2
  GAP = 3
  CHANNEL_WORDS = 4
INVARIANTS
  NoFalseAlarm
