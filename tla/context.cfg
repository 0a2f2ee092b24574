\* A client of the C functions, up to four codecs under two ids.  Four boxes, each
\* lent twice at most.  Three threads, six colours, a cache of two.  40 texts of up
\* to nine bytes, three suffixes, buffers of up to 13 bytes.
SPECIFICATION ContextSpec
CONSTANTS
  Parts = {"context", "set", "transforms", "gif", "text"}
  Guarded = TRUE
  IoIds = {0, 1}
  Inputs <- SomeInputs
  Jobs <- SomeJobs
  IoLists <- SomeIoLists
  MaxCodecs = 4
  Address = {a1, a2, a3, a4}
  MaxLoans = 2
  Threads = {t1, t2, t3}
  Profiles = {p1, p2, png}
  OfPng = {png}
  Formats = {"Bgr32", "Bgra32"}
  Limit = 2
  Movies <- SomeMovies
  Bytes <- SomeBytes
  Capacities = {0, 1, 2, 3, 4, 5, 6, 7, 8, 9, 10, 11, 12, 13}
  Texts <- SomeTexts
  Endings <- SomeSuffixes
  Null = Null
  Space = Space
  Old = Old
SYMMETRY Symmetry
INVARIANTS
  ContextTypeOK FailureIsSeen BrokenIsUnreachable  GifIsShown 
PROPERTIES CallsAreConsistent LoansAreSound
\* A destroyed context does nothing more.
CHECK_DEADLOCK FALSE
