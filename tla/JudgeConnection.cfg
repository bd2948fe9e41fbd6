CONSTANTS
  c1 = c1  c2 = c2
  Conns = {c1, c2}
  Proxied = {c1}
  SizeBytes = 2
  HeaderLen = 3
  Sizes <- Lengths
  None = None
  MaxFaults = 1
SPECIFICATION Spec
INVARIANTS FramesIntact OnlineIsConnected
PROPERTIES EndIsNoticed
CHECK_DEADLOCK FALSE
