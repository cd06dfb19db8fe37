CONSTANTS
  c1 = c1
  None = None
  Conns <- OneConn
  Reqs <- TwoReqs
  Traffics <- Uploads
  RouteTimeout = TRUE
  FileChunks = 1
  BusyCap = 9
  MaxWire = 2
SPECIFICATION Spec
INVARIANTS No408InsideAnswer
CHECK_DEADLOCK FALSE
