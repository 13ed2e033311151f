CONSTANTS
  DATA_WIDTH = 4
  STRB_WIDTH = 2
  CONFIG_W = 2
  COUNTER_W = 2
  ID_RESET <- MCID
  Addrs <- ScratchAddrs
  WBeats <- StatusBeats
SPECIFICATION SbSpec
INVARIANT NoMismatch
