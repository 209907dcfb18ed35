\* One narrow sockbuf: BUFSIZ of 3, a kernel buffer smaller than BUFSIZ.
CONSTANTS
  BufSize = 3
  W = 1
  ChanCap = 2
  MaxBytes = 7
  MaxPut = 5
  Waits <- MCWaits
SPECIFICATION PutFairSpec
INVARIANTS
  StreamIntegrity
  EveryByteAccounted
PROPERTIES
  SilentAfterShutdown
  CallsReturn
