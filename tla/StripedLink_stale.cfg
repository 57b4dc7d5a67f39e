CONSTANTS
  l1 = l1
  l2 = l2
  Lanes = {l1, l2}
  None = None
  Ring = 4
  Modulus = 32
  AckRuns = 1
  Starts = {30}
  Sizes <- SmallFrames
  Restarts = 0
  Patience = {TRUE}
  Laggards = TRUE
  LaneBound = 1
  AckBound = 1
SPECIFICATION Spec
CHECK_DEADLOCK FALSE
PROPERTIES InOrder
