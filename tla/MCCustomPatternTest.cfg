SPECIFICATION FairSpec
CONSTANTS
  MAX_PATTERN_LENGTH = 2
  LENGTH_WRAP = 16
  Words = {0, 1}
  UnwrittenWord = 0
  NoWord = NoWord
  Patterns <- TwoPatterns
  Payloads = {4}
  Modes <- AllModes
  TIMEOUT = 2
  GAP = 3
  CHANNEL_WORDS = 4
INVARIANTS
  TypeOK
  VerdictIsTrue
  InStep
  WrittenWhileStopped
PROPERTIES
  PayloadCompletes
