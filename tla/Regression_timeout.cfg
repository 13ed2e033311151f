CONSTANTS
  Testlist <- MCTestlist
  Features <- MCFeatures
  Invocations <- MCInvocations
  jobs = 2
  Defects <- MCDefects
  Designs <- MCDesigns
  Manifest <- MCManifest
  Exposes <- MCExposes
  MaxStamps = 1
  MaxResults = 1
  MaxFaults = 1
  MaxChanges = 0
SPECIFICATION FairSpec
PROPERTY EveryRunIsReported
CHECK_DEADLOCK FALSE
