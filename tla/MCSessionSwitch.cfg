SPECIFICATION Spec
CONSTANTS
  t1 = t1
  t2 = t2
  t3 = t3
  d1 = d1
  d2 = d2
  c1 = c1
  c2 = c2
  c3 = c3
  None = None
  TxqrId <- Txqr
  DecimenId <- Decimen
  Corrupt <- Bad
  Code <- Codes
  Need = 2
  SwitchAfter = 3
INVARIANT SwitchAcrossProtocols
