CONSTANTS
  DATA_WIDTH = 4
  STRB_WIDTH = 2
  CONFIG_W = 2
  COUNTER_W = 2
  ID_RESET <- MCID
  NUM_WORDS = 1
  REG_LIMIT = 4095
  MEM_BASE = 4096
  MEM_LIMIT = 5119
  Addrs <- LiveAddrs
  WBeats <- LiveBeats
  RBeats <- LiveReads
SPECIFICATION MCSpec
PROPERTIES
  WritesComplete
  ReadsComplete
  NoInterruptLost
  NoInterruptInvented
