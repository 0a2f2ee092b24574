SPECIFICATION Spec
CONSTANTS
  Jobs <- SidewaysJobs
  IoId <- MCIoId
  MaxNodes = 16
  MaxBitmaps = 6
  MaxPasses = 40
  RecursionLimit = 100
INVARIANTS UprightJobsAccepted
