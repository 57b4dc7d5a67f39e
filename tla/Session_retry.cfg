CONSTANTS
  c1 = c1
  e1 = e1
  l1 = l1
  Clients = {c1}
  Exits = {e1}
  Links = {l1}
  Zero = Zero
  None = None
  Window = 2
  MaxSeq = 0
  ClientMints = 1
  ExitMints = 1
  NoPong = {}
  Weathers = {{"quiet", "lossy", "steady"}}
  Restarting = {}
SPECIFICATION FairSpec
CHECK_DEADLOCK FALSE
PROPERTIES RetriesConfirmed
