\* The wchar_t buffers, with characters of 2 bytes.
CONSTANTS
  BufSize = 2
  W = 2
  ChanCap = 2
  MaxBytes = 4
  MaxPut = 3
  MaxGet = 2
  Waits <- MCWaits
SPECIFICATION Spec
INVARIANTS
  WideStream
