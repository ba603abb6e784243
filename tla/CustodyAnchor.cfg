CONSTANTS
  W = 4
  Line <- MCLine
  Identity = "producer"
  ChainID = "A"
  Names <- MCNames
  Sibling = "B"
  ChainIDs = {"A", "B", ""}
  MaxSeq = 1
  MaxLines = 3
  MaxAnchors = 1
  MaxDamage <- Once
  Damages <- MCDamages
  Asked <- MCAskAnchor
SPECIFICATION FairCustody
CHECK_DEADLOCK FALSE
INVARIANTS
  AnchorAcceptsExactlyTheOriginal
PROPERTIES
  EveryCommandExits
