CONSTANTS
  Testlist <- MCTestlist
  Features <- MCFeatures
  Invocations <- MCInvocations
  jobs = 2
  Defects <- MCDefects
  Designs <- MCDesigns
  Manifest <- MCManifest
  Exposes <- MCExposes
  MaxStamps = 3
  MaxResults = 2
  MaxFaults = 1
  MaxChanges = 2
  Documents <- MCDocuments
  SpecTables <- MCTables
  data_width = 8
  index_msb = 0
  index_lsb = 0
SPECIFICATION ScriptsSpec
INVARIANTS
  TypeOK
  GateSound
  VerdictsEarned
  LatestIsComplete
  ClustersAreFailures
  NewIsNew
  FlakyIsReal
  PassingIsEarned
  GreenMeansInSync
  RegcheckDecides
PROPERTIES
  RegressionEnds
CHECK_DEADLOCK FALSE
