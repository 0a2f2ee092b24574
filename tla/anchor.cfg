\* Every anchor.
SPECIFICATION RiapiSpec
CONSTANTS
  Parts = {"parser"}
  MaxSize = 1000
  Side = 1
  SmallSide = 1
  Asked <- OneAsked
  Queries <- AnchorQueries
  Texts <- OneText
INVARIANTS AnchorSurvives
CHECK_DEADLOCK FALSE
