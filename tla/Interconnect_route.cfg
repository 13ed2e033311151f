CONSTANTS
  DATA_WIDTH = 1
  STRB_WIDTH = 1
  REG_LIMIT = 4095
  MEM_BASE = 4096
  MEM_LIMIT = 5119
  Addrs <- RouteAddrs
  WBeats <- OneWrite
  RBeats <- RouteReads
SPECIFICATION Spec
INVARIANTS
  ResponsesRouted
  OnlyOwnerSees
PROPERTY SlavePortStable
