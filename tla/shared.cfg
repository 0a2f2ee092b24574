SPECIFICATION Spec
CONSTANTS
  Jobs <- SharedJobs
  IoId <- MCIoId
  MaxNodes = 16
  MaxBitmaps = 6
  MaxPasses = 40
  RecursionLimit = 100
PROPERTY ConsumedOnlyWhenUnwanted
