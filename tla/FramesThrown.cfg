\* The string transfers report how much they have sent.
CONSTANTS
  Protocol <- MCProtocol
  Lengths = {0, 1, 3}
  PlainLen = 2
  HeaderSize = 2
  WCharSize = 2
  ChanCap = 4
  SendWait = 1
  RecvWait = 1
  Sockets = {1, 2}
  MaxPort = 4
  Privileged = 1
  Callers = {1, 2}
  MaxNest = 2
  MaxSize = 4
  MaxUsed = 2
SPECIFICATION MCSpec
INVARIANTS
  ThrownCountIsWritten
CHECK_DEADLOCK FALSE
