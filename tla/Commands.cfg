CONSTANTS
  W = 4
  Line <- MCCommandLine
  ChainIDs = {"A", "B", ""}
SPECIFICATION MCCommandSpec
INVARIANTS
  DirectoryPassIsExact
  JumpsCountTheAbsentFiles
  VerifyExitsZeroExactlyIfFlawless
  AnchorVerdictIsFounded
