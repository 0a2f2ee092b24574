\* Two threads; two entries in one directory, two blobs and two misfortunes; four
\* engines, two urls, a file and one lost entry; one license to cache, a thread of
\* another process and a failure; four license texts, three answers of the license
\* server and ninety seconds; two keys in either order, texts of up
\* to three lines.
SPECIFICATION ServerSideSpec
CONSTANTS
  Parts = {"folder", "requests", "license cache", "licenses", "license text"}
  Threads = {t1, t2}
  Keys = {k1, k2}
  Blobs = {b1, b2}
  None = None
  Cut = Cut
  Leaf <- OneLeaf
  MaxHarm = 2
  Requests <- SomeRequests
  Images = {jpg}
  OtherBodies = {html}
  MaxLosses = 1
  Tool = tool
  LicenseKeys = {"id_1f"}
  CacheHarm = 1
  LicenseTexts = {"placeholder", "full", "site", "broken"}
  BlobOf <- SomeBlobs
  Remotes <- SomeRemotes
  Required = {"R4Elite"}
  Scopes <- SomeScopes
  BuildDate = 0
  ThirtySeconds = 1
  Minute = 2
  MaxNow = 3
  Licenses <- SomeLicenses
  KeyRings <- SomeKeyRings
  DigestOf <- SomeDigestOf
  Byte = 8
SYMMETRY Symmetry
INVARIANTS ServerSideTypeOK FolderIsSound 
PROPERTIES ImplementsStore AnswersAreTrue LicensesAreKept 
