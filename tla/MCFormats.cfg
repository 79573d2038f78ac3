\* The decoder stops when all frames have arrived, the others when they are done.
SPECIFICATION FormatsSpec
CONSTANTS
  b1 = b1
  b2 = b2
  b3 = b3
  None = None
  Block <- Blocks
  SeqNo <- Frames
  Composition <- FrameBlocks
  MaxTransferBytes = 67108864
  MaxSourceBlocks = 8192
  MaxChunkBytes = 2933
  MaxBlockCode = 16777215
  MaxFrameOverhead = 160
  MaxFileNameBytes = 360
  MaxMediumBytes = 2331
  NumColorPayloadBytes = 1587
  Request <- Requests
  U16 = 3
  MaxFileBytes = 9
  FixedPart = 3
  GzipMin = 4
  GzipGain = 1
  GzipLeast = 2
  DecimenBlockLen = 5
  DefaultType = 2
  MaxBlockLen = 5
  File <- Files
  Length = {1, 1586, 1587}
  Scale = {1, 2, 5, 20}
  Before = {0, 3, 9}
  Behind = {0, 95}
INVARIANTS
  SolvedRight
  CompleteHoldsAll
  PeelingExhausted
  FramesFit
  ContainerArrives
  ColourReads
PROPERTY ResolveReturns
CHECK_DEADLOCK FALSE
