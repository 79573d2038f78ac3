SPECIFICATION PreviewSpec
CONSTANTS
  r1 = r1
  w1 = w1
  p1 = p1
  None = None
  Region <- OneRegion
  Worker <- OneWorker
  Picture <- OnePicture
  DecCap = 1
  SaveCap = 1
  MaxSerial = 1
INVARIANT ClearDropsPreview
