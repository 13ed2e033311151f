CONSTANTS
  DATA_WIDTH = 2
  STRB_WIDTH = 2
  NUM_WORDS = 2
  Addrs <- MemAddrs
  WBeats <- SbBeats
SPECIFICATION WorkloadSpec
INVARIANTS
  TypeOK
  ResponsesEarned
  NoMismatch
  DefinedLanesAgree
PROPERTY
  ImplementsMemFile
