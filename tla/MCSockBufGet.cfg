\* One narrow sockbuf that reads from a peer: BUFSIZ of 2.
CONSTANTS
  BufSize = 2
  W = 1
  MaxWire = 5
  MaxGet = 4
  Waits <- MCWaits
SPECIFICATION GetThreadSpec
INVARIANTS
  DeliveryIntegrity
  EofOnlyAtEnd
PROPERTIES
  OobOnlyAtMark
  GetCallsReturn
  RecvTimeoutBounds
