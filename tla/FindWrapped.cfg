CONSTANTS
  W = 4
  Identity = "producer"
  ChainID = "A"
  MaxSeq = 0
  MaxLines = 1
  MaxAnchors = 1
  MaxEntriesPerBatch = 3
  MaxBitmapChars = 2
  Statements <- OneStatement
  Monitors <- OneMonitor
  MaxBatches = 2
  MaxUnfit = 0
  MaxLives = 1
  MaxRun = 2
  MaxForged = 1
SPECIFICATION RelaySpec
CHECK_DEADLOCK FALSE
INVARIANTS
  AcceptedTimesAreSigned
