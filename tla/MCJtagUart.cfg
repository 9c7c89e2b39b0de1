SPECIFICATION FairSpec
CONSTANTS
  BUF_LEN = 3
  RX_DEPTH = 2
  TX_DEPTH = 1
  READ_IRQ_THRESHOLD = 0
  WRITE_IRQ_THRESHOLD = 0
  DEFAULT_TIMEOUT = 1
  INT_MAX = 3
  Timeouts = {1}
  Sizes = {2}
  MaxBytes = 5
CHECK_DEADLOCK FALSE
INVARIANTS
  TypeOK
  NoLostWakeup
PROPERTIES
  BytesInOrder
  GivesUpOnlyWhenStuck
  CallsReturn
  AcceptedIsSent
