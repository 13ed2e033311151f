CONSTANTS
  DATA_WIDTH = 4
  STRB_WIDTH = 2
  CONFIG_W = 2
  COUNTER_W = 1
  ID_RESET <- MCID
  NUM_WORDS = 1
  REG_LIMIT = 4095
  MEM_BASE = 4096
  MEM_LIMIT = 5119
  Addrs <- SysAddrs
  WBeats <- SysBeats
SPECIFICATION MCSpec
INVARIANT HalvesMeetAtSlaves
PROPERTIES PromisesKept ImplementsFiles
