\* The five parts, one at a time.  A part ends when its bounds are used up.
SPECIFICATION Spec
CONSTANTS
  Saver = {s1, s2}
  Names = 2
  User = user
  None = none
  AuditKey = {a1, k1}
  AppStart = a1
  RingMax = 2
  Flush = 2
  MaxBytes = 2
  MaxTime = 3
  MaxCalls = 4
  Sender = {p1, p2}
  LogMax = 2
  MaxLines = 8
  NoFile = noFile
  MaxRuns = 3
  Nobody = nobody
  Area = {r1, r2, r3}
  Nothing = nothing
  Renderer = {w1, w2}
  MaxFrames = 2
  FrameSize = 1
  PNGSizes = {1, 2}
  InitialFrames = 1
  MaxCache = 5
  MaxPNGCacheBytes = 3
  PipeSize = 2
CHECK_DEADLOCK FALSE
INVARIANTS
  SavedIsThere
  AuditKept
  SenderLogKept
  ServerHonest
  SessionWhole
  ChildContained
PROPERTIES
  NeverReplaces
  ServerSettles
  CallEnds
  RegionsResumed
