SPECIFICATION Spec
CONSTANTS
  Jobs <- UnfedJobs
  IoId <- MCIoId
  MaxNodes = 16
  MaxBitmaps = 6
  MaxPasses = 40
  RecursionLimit = 100
INVARIANTS EdgesValidatedFirst
