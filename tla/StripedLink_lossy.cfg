CONSTANTS
  l1 = l1
  l2 = l2
  Lanes = {l1, l2}
  None = None
  Ring = 2
  Modulus = 16
  AckRuns = 1
  Starts = {14}
  Sizes <- TwoFrames
  Restarts = 0
  Patience = {TRUE, FALSE}
  Laggards = FALSE
  LaneBound = 1
  AckBound = 1
SPECIFICATION FairSpec
CHECK_DEADLOCK FALSE
INVARIANTS TypeOK FramesWhole
PROPERTIES InOrder NothingOverwritten Lossless Settles
