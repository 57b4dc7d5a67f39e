CONSTANTS
  c1 = c1
  e1 = e1
  l1 = l1
  Clients = {c1}
  Exits = {e1}
  Links = {l1}
  Zero = Zero
  None = None
  Window = 2
  MaxSeq = 1
  ClientMints = 2
  ExitMints = 2
  NoPong = {}
  Weathers = {{"replay"}, {"quiet", "lossy", "steady"}}
  Restarting = {c1, e1}
SPECIFICATION Spec
CHECK_DEADLOCK FALSE
INVARIANTS TypeOK DataOnce EchoBacked
PROPERTY Displacement
