CONSTANTS
  p1 = p1 p2 = p2 b1 = b1 b2 = b2 e1 = e1 e2 = e2 c1 = c1 c2 = c2 c3 = c3
  StreamPorts <- SomeStreamPorts
  Emitters <- SomeEmitters
  Calls <- SomeCalls
  Scalars <- SomeScalars
  BatchPort <- SomeBatchPorts
  Workloads <- SomeWorkloads
  MaxItems = 4
  Routes <- AllRoutes
  EarlyAnswers = TRUE
  Faults <- AllFaults
  MaxPayloads = 5
SPECIFICATION HandoverSpec
INVARIANTS NoReadAfterFree LogReaped BatchesHandedOver OnceUnlessOvertaken
PROPERTIES RunnerReleases EverythingArrives
CHECK_DEADLOCK FALSE
