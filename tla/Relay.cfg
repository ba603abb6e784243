CONSTANTS
  W = 4
  Identity = "producer"
  ChainID = "A"
  MaxSeq = 1
  MaxLines = 2
  MaxAnchors = 3
  MaxEntriesPerBatch = 3
  MaxBitmapChars = 2
  Statements <- MCStatements
  Monitors <- MCMonitors
  MaxBatches = 3
  MaxUnfit = 1
  MaxLives = 2
  MaxRun = 3
  MaxForged = 1
SPECIFICATION RelaySpec
CHECK_DEADLOCK FALSE
INVARIANTS
  BatchRunFailsAtItsFirstBreak
  AnchorRunFailsAtItsFirstBreak
  WritesOneChain
  AnchorsCommitToPrefixes
