CONSTANTS
  DATA_WIDTH = 2
  STRB_WIDTH = 2
  NUM_WORDS = 2
  Addrs <- OneAddr
  WBeats <- TwoBeats
SPECIFICATION SbSpec
INVARIANT NoMismatch
