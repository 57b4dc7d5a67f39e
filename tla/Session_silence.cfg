CONSTANTS
  c1 = c1
  e1 = e1
  l1 = l1
  Clients = {c1}
  Exits = {e1}
  Links = {l1}
  Zero = Zero
  None = None
  Window = 2
  MaxSeq = 0
  ClientMints = 2
  ExitMints = 2
  NoPong = {}
  Weathers = {{"quiet", "steady"}}
  Restarting = {e1}
SPECIFICATION FairSpec
CHECK_DEADLOCK FALSE
PROPERTIES SilenceNoticed
