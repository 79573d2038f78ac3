SPECIFICATION FairSpec
CONSTANTS
  r1 = r1
  w1 = w1
  w2 = w2
  p1 = p1
  p2 = p2
  None = None
  Region <- OneRegion
  Worker <- TwoWorkers
  Picture <- OnePicture
  DecCap = 1
  SaveCap = 1
  MaxSerial = 3
PROPERTIES
  Delivers
  NameWaitEnds
  CloseReturns
  PictureRetried
