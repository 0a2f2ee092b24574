\* Two panics, the first of them cleared.
SPECIFICATION ContextSpec
CONSTANTS
  Parts = {"context"}
  Guarded = TRUE
  IoIds = {0, 1}
  Inputs <- SomeInputs
  Jobs <- SomeJobs
  IoLists <- SomeIoLists
  MaxCodecs = 2
  Address = {a1, a2, a3, a4}
  MaxLoans = 2
  Threads = {t1, t2, t3}
  Profiles = {p1, p2, png}
  OfPng = {png}
  Formats = {"Bgr32", "Bgra32"}
  Limit = 2
  Movies <- SomeMovies
  Bytes <- SomeBytes
  Capacities = {0, 1, 2, 3, 4, 5, 6, 7, 8, 9, 10, 11, 12, 13}
  Texts <- SomeTexts
  Endings <- SomeSuffixes
  Null = Null
  Space = Space
  Old = Old
INVARIANT EveryFailureIsSeen
CHECK_DEADLOCK FALSE
