SPECIFICATION LifecycleSpec
CONSTANTS
  i1 = i1  i2 = i2  e1 = e1  e2 = e2  k1 = k1  k2 = k2  x1 = x1  x2 = x2  x3 = x3
  Isolates <- TheIsolates
  Engines <- TheEngines
  Key <- TheKeys
  Ports <- ThePorts
  Port <- ThePort
  Tls <- TheTls
  Conns <- TheConns
  Ctxs <- TheCtxs
  Workloads <- TheWorkloads
  Helpers = {1, 2}
  RouteKeys = {"/both", "/old", "/new"}
  Setups = {"old", "new"}
  Does <- SomeDoes
  FirstSetup = "old"
  Ops = {1, 2, 3}
  Plans <- SomePlans
  Nothing = Nothing
INVARIANTS  RefsExact RoutesAgree RoutesStay
PROPERTIES OnlyInWindows StopReturns CallsEnd
CHECK_DEADLOCK FALSE
