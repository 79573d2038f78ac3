SPECIFICATION Spec
CONSTANTS
  r1 = r1
  w1 = w1
  w2 = w2
  p1 = p1
  None = None
  p2 = p2
  Region <- OneRegion
  Worker <- TwoWorkers
  Picture <- TwoPictures
  DecCap = 1
  SaveCap = 1
  MaxSerial = 3
SYMMETRY Symmetry
INVARIANTS
  NoStaleFrame
  DoneMeansVerified
  CloseSettles
