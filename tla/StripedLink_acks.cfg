CONSTANTS
  l1 = l1
  l2 = l2
  Lanes = {l1, l2}
  None = None
  Ring = 4
  Modulus = 32
  AckRuns = 1
  Starts = {30}
  Sizes <- FourPieces
  Restarts = 1
  Patience = {TRUE}
  Laggards = FALSE
  LaneBound = 1
  AckBound = 2
SPECIFICATION Spec
CHECK_DEADLOCK FALSE
INVARIANTS AckedArrived
SYMMETRY Symmetric
