\* One thread asks permacache_proxy for one url.
SPECIFICATION ServerSideSpec
CONSTANTS
  Parts = {"requests"}
  Threads = {t1}
  Keys = {k1, k2}
  Blobs = {b1, b2}
  None = None
  Cut = Cut
  Leaf <- OneLeaf
  MaxHarm = 2
  Requests <- ProxyRequests
  Images = {jpg}
  OtherBodies = {html}
  MaxLosses = 0
  Tool = tool
  LicenseKeys = {"id_1f"}
  CacheHarm = 1
  LicenseTexts = {"placeholder", "full", "site", "broken"}
  BlobOf <- SomeBlobs
  Remotes <- SomeRemotes
  Required = {"R4Elite"}
  Scopes <- SomeScopes
  BuildDate = 0
  ThirtySeconds = 1
  Minute = 2
  MaxNow = 3
  Licenses <- SomeLicenses
  KeyRings <- SomeKeyRings
  DigestOf <- SomeDigestOf
  Byte = 8
INVARIANTS CachedIsServed
