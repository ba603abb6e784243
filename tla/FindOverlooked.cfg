CONSTANTS
  W = 4
  Line <- MCLine
  Identity = "producer"
  ChainID = "A"
  ChainIDs = {"A"}
  Names <- MCNames
  MaxSeq = 1
  MaxLines = 1
  MaxAnchors = 0
  MaxCompressed = 1
  Questions <- MCQuestions
SPECIFICATION LiveSpec
CHECK_DEADLOCK FALSE
INVARIANTS
  EveryFileIsReplayed
