CONSTANTS
  c1 = c1
  None = None
  Conns <- OneConn
  Reqs <- TwoReqs
  Traffics <- Trouble
  RouteTimeout = TRUE
  FileChunks = 1
  BusyCap = 1
  MaxWire = 2
SPECIFICATION FairSpec
INVARIANTS NothingStuck
PROPERTIES RequestSettles
CHECK_DEADLOCK FALSE
