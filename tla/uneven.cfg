SPECIFICATION Spec
CONSTANTS
  Jobs <- UnevenJobs
  IoId <- MCIoId
  MaxNodes = 16
  MaxBitmaps = 14
  MaxPasses = 40
  RecursionLimit = 100
INVARIANTS NextFrameIsPresent
