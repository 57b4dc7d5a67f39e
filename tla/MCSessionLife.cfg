CONSTANTS
  c1 = c1
  e1 = e1
  l1 = l1
  Clients = {c1}
  Exits = {e1}
  Links = {l1}
  Zero = Zero
  None = None
  Window = 2
  MaxSeq = 0
  ClientMints = 2
  ExitMints = 3
  NoPong = {}
  Weathers = {{"quiet", "steady"}, {"lossy", "steady"}}
  Restarting = {c1, e1}
  b1 = b1
  b2 = b2
  b3 = b3
  x = x
  Names = {x}
  Builds = {b1, b2, b3}
  Tasks = {"task"}
  Overlap = FALSE
  First = {b1}
  Attached = {x}
  Packets = {"p1", "p2", "p3"}
  Depth = 1
  MaxCount = 2
SPECIFICATION LifeSpec
CHECK_DEADLOCK FALSE
INVARIANTS CarriersKnown NothingLost
PROPERTIES Rehandshake RetriesOverLossless ExitLetsGo KeepsTrying
