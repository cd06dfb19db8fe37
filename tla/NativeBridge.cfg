CONSTANTS
  m1 = m1
  h1 = h1
  m2 = m2
  a1 = a1
  a2 = a2
  a3 = a3
  Null = Null
  Isolates <- MCIsolates
  Mains <- MCMains
  Keys <- MCKeys
  Key <- MCKey
  Addresses <- MCAddresses
  Streams = 2
  Ways = 1
  Exercised <- MCExercised
  Workloads <- MCWorkloads
SPECIFICATION BridgeSpec
INVARIANTS OwnUnlessTorn 
CHECK_DEADLOCK FALSE
