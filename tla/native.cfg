\* Tables of up to 5 slots that grow twice, three addresses.  Buffers of 2 bytes,
\* streams of up to 5.  Images of six sizes and kinds.  Stacks of up to 8 frames.
SPECIFICATION NativeSpec
CONSTANTS
  Parts = {"heap", "io", "jpeg io", "decoder", "error"}
  Addr = {a1, a2, a3}
  Context = Context
  NULL = NULL
  MinSlots = 2
  MaxSlots = 5
  Aborts = FALSE
  Abandons = FALSE
  Byte = {0, 1}
  MinGrowth = 2
  MaxLength = 5
  Kinds = {"obuf", "memory", "file"}
  BufferSize = 2
  Eoi <- EndOfImage
  Images <- AllImages
  Hints <- SomeHints
  NoHints <- Unhinted
  Crashes = FALSE
  Statuses = {0, 10, 50, 202}
  Messages = {0, 1022}
  Locations <- SomeLocations
  Rooms = {0, 12, 13, 61, 400, 1500, 2048}
INVARIANTS   TeardownFreesAll StreamsMatch
PROPERTIES
  DestructorsFirst ImplementsForest DestructionReturns  SkippingEnds
  DecodedAsAnnounced FirstErrorIsTold
