SPECIFICATION FairSpec
CONSTANTS
  Jobs <- AllJobs
  IoId <- MCIoId
  MaxNodes = 24
  MaxBitmaps = 12
  MaxPasses = 7
  RecursionLimit = 100
INVARIANTS
  TypeOK EncodesDenote PassesWithinDepth GraphIntact ExclusiveOwnership ExpandSeesTruth JobVerdict
PROPERTIES HeldFramesAreStable Termination
