SPECIFICATION FairSpec
CONSTANTS
  s1 = s1
  q1 = q1
  q2 = q2
  g1 = g1
  g2 = g2
  e1 = e1
  e2 = e2
  None = None
  Session <- OneSession
  Request <- OneRequest
  Helper <- TwoHelpers
  Epoch <- OneEpoch
  Frames = 3
  Unrenderable = {1}
  Slots = 1
  Window = 1
PROPERTIES
  RequestAnswered
  CloseReturns
