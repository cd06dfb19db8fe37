CONSTANTS
  c1 = c1
  None = None
  Conns <- OneConn
  Reqs <- TwoReqs
  Traffics <- Mixed
  RouteTimeout = TRUE
  FileChunks = 2
  BusyCap = 9
  MaxWire = 3
SPECIFICATION Spec
INVARIANTS  NoIdleBacklogButUploads
 
CHECK_DEADLOCK FALSE
