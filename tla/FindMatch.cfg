CONSTANTS
  W = 4
  Line <- MCLine
  Identity = "producer"
  ChainID = "A"
  Names <- MCNames
  Sibling = "B"
  ChainIDs = {"A", "B", ""}
  MaxSeq = 0
  MaxLines = 3
  MaxAnchors = 1
  MaxDamage <- Once
  Damages <- EditLine
  Asked <- AskAnchors
SPECIFICATION FairCustody
CHECK_DEADLOCK FALSE
INVARIANTS
  MatchedPrefixIsIntact
