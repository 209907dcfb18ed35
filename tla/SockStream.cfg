\* A writer and a reader with areas of 2 characters over a 2-byte channel.
CONSTANTS
  BufSize = 2
  W = 1
  ChanCap = 2
  MaxBytes = 3
  MaxPut = 3
  MaxGet = 2
  Waits <- MCWaits
SPECIFICATION Spec
INVARIANTS
  FlushedIsReadable
PROPERTIES
  RefinesByteStream
