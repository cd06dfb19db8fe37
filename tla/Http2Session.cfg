CONSTANTS
    Streams <- TwoStreams
    Heads <- SomeHeads
    Budget = 2
    MaxBody = 2
    MaxInFlight = 2
    OtherLoops <- OneLoop
SPECIFICATION Spec
INVARIANTS BudgetsHold HandlersInStep
PROPERTIES SessionSettles
CHECK_DEADLOCK FALSE
