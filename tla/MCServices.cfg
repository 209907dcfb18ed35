\* Four ftp commands; smtp sessions of up to three commands with texts of up to
\* three characters in pieces of two; two echo clients.
CONSTANTS
  MaxCmds = 4
  FileLen = 2
  MaxSmtpCmds = 3
  BufLen = 2
  MaxText = 3
  MaxWritten = 5
  Clients = {1, 2}
  Room = 2
  EchoLen = 2
  Lengths = {3, 5, 6}
  MaxSaid = 6
SPECIFICATION MCSpec
INVARIANTS
  RepliesMatch
  StoredWhole
  NoEarlyEnd
  TextArrives
  RepliesInStep
PROPERTIES
  OperationsEnd
  EchoIsStream
  EchoEnds
CHECK_DEADLOCK FALSE
