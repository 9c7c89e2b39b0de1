SPECIFICATION SwitchFairSpec
CONSTANTS
  WORDS = 6
  DEPTH = 2
INVARIANTS
  RightChecker
PROPERTIES
  WordsArrive
