SPECIFICATION Spec
CONSTANTS
  s1 = s1
  s2 = s2
  s3 = s3
  h1 = h1
  h2 = h2
  None = None
  Id <- Ids
  Handler <- Handlers
  Byte <- Bytes
  Alloc <- LowestFirst
  FrameCount = 2
  InitialFrames = 1
  MaxActiveSessions = 2
  MaxSessionBytes = 5
  MaxPNGCacheBytes = 3
VIEW SizesView
SYMMETRY Symmetry
INVARIANTS
  LimitsKept
  EveryPNGEvictable
PROPERTIES
  AdmissionKept
  StoreKept
