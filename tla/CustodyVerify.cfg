CONSTANTS
  W = 4
  Line <- MCLine
  Identity = "producer"
  ChainID = "A"
  Names <- MCNames
  Sibling = "B"
  ChainIDs = {"A", "B", ""}
  MaxSeq = 2
  MaxLines = 2
  MaxAnchors = 0
  MaxDamage <- TwiceUnmixed
  Damages <- MCDamages
  Asked <- MCAskVerify
SPECIFICATION FairCustody
CHECK_DEADLOCK FALSE
INVARIANTS
  VerifyAcceptsExactlyTheRuns
  FileVerifyAcceptsExactlySegments
  IntactLogIsNotAccused
  AcceptedLinesAreOriginal
  NothingIsMissingBetween
