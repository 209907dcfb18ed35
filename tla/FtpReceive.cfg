\* A session that receives a file.
CONSTANTS
  MaxCmds = 4
  FileLen = 2
SPECIFICATION FtpSpec
PROPERTIES
  ReceivingEnds
CHECK_DEADLOCK FALSE
