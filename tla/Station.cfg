SPECIFICATION MCSpec
CONSTANTS
  Parts <- AllParts
  Allows <- StaAllows
  MaxCalls <- StaCalls
  ScanAllows <- MCScanAllows
  MaxScans <- MCMaxScans
  RocAllows <- MCRocAllows
  MaxTx <- MCMaxTx
  MaxRocs = 3
  MaxCookie = 2
CHECK_DEADLOCK FALSE
INVARIANTS ApRecorded LinkAgrees RightScan RocMatches
PROPERTIES RequestsEnd
