SPECIFICATION ExecutorFairSpec
CONSTANTS
  t1 = t1
  t2 = t2
  None = None
  Threads <- MCThreads
  Columns <- MCColumns
  Sizes <- MCSizes
  Limits <- MCLimits
  Scans <- MCScans
  ScanProfile <- MCScanProfile
  Remote <- MCRemote
  HttpLimits <- MCHttpLimits
  Storage <- MCStorage
  ChunkSizeMax = 255
  BatchRows = 2
  MaxPulls = 7
CHECK_DEADLOCK FALSE
INVARIANTS
  RowsInOrder
  NothingLeftBehind
  AccountingInOrder
  DecodedExactly
  TransferExact
  OpenedAsRequired
PROPERTIES
  FailureIsFinal
  CallsReturn
