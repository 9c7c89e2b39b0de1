SPECIFICATION Spec
CONSTANTS
  WIDTH = 3
  POLYNOMIAL <- Taps
  SEED_VALUE <- Seed
  LENGTH_WRAP = 16
  NoWord = NoWord
  Payloads = {2, 4}
  Modes <- AllModes
  TIMEOUT = 3
  CHANNEL_WORDS = 3
INVARIANTS
  TypeOK
  InStep
  VerdictIsTrue
