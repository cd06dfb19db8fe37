SPECIFICATION WireSpec
CONSTANTS
  l1 = l1  NoRoute = NoRoute
  Routes <- TheRoutes
  Requests <- TheRequests
  Paths <- ThePaths
  Params <- TheParams
  Standard <- TheStandard
  Customs <- TheCustoms
  Loops <- TheLoops
  MaxChanges = 4
  Messages <- MCMessages
  MaxBody = 2
  Slack = 12
  MaxTrailerBytes = 8
  MaxTrailerLines = 2
  MaxDigits = 2
  Frames <- MCFrames
  TextBytes <- MCTextBytes
  MaxText = 4
  TopBit = TopBit
  RequestLines <- MCRequestLines
  LineChars <- MCLineChars
  MaxLine = 5
  Fields <- MCFields
  MaxFields = 3
  Statuses = {101, 200, 204, 304}
  Clients <- MCClients
  MaxV1 = 20
  HelloLength = 3
  Peer = 1
  ReadSizes = {1, 2, 7}
  Samples = {1, 2}
  Headers <- MCHeaders
  MaxList = 3
  MaxHeaders = 2
  Values <- MCValues
  Inner <- MCInner
  Keys <- MCKeys
  FirstCap = 4
  Width = 8
  MaxCalls = 5
INVARIANTS   FramesExact    
CHECK_DEADLOCK FALSE
