\* The send timeout against a peer that need not read.
CONSTANTS
  BufSize = 3
  W = 1
  ChanCap = 2
  MaxBytes = 4
  MaxPut = 4
  Waits <- MCWaits
SPECIFICATION PutThreadSpec
PROPERTIES
  SendTimeoutBounds
