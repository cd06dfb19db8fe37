CONSTANTS
    Frames <- SomeFrames
    MaxFrames = 2
    MaxSends = 1
    MaxMsg = 2
    MaxBuffer = 2
    MaxInbound = 1
    MaxPending = 3
SPECIFICATION MCSpec
INVARIANTS PayloadsAccounted MessagesInOrder
PROPERTIES ReportedSessionEnds VanishedPeerIsClosed
CHECK_DEADLOCK FALSE
