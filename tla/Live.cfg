CONSTANTS
  W = 4
  Line <- MCLine
  Identity = "producer"
  ChainID = "A"
  ChainIDs = {"A"}
  Names <- MCNames
  MaxSeq = 2
  MaxLines = 2
  MaxAnchors = 1
  MaxCompressed = 2
  Questions <- MCQuestions
SPECIFICATION LiveSpec
CHECK_DEADLOCK FALSE
INVARIANTS
  HealthyLogIsNotAccused
  WhatWasThereIsRead
  AnchorBeforeIsReached
