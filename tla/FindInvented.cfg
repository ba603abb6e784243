CONSTANTS
  W = 4
  Line <- MCLine
  Identity = "producer"
  ChainID = "A"
  Names <- MCNames
  Sibling = "B"
  ChainIDs = {"A", "B", ""}
  MaxSeq = 1
  MaxLines = 2
  MaxAnchors = 0
  MaxDamage <- Once
  Damages <- CutFile
  Asked <- AskVerifyDirectory
SPECIFICATION FairCustody
CHECK_DEADLOCK FALSE
INVARIANTS
  BreaksAreNotInvented
