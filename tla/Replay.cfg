CONSTANTS
  W = 4
  MaxLines = 3
  Line <- MCLine
SPECIFICATION MCSpec
INVARIANTS
  TypeOK
  ReportsExactlyTheBadLines
  CleanMeansChained
  SegmentsDescribeTheFile
  OnLineCountsFromTheStart
  TruncatedMeansOneFinding
PROPERTIES
  NothingIsRetracted
  ImplementsLineReport
