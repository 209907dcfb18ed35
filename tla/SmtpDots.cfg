\* A message read in pieces, with whatever lies behind them in the buffer.
CONSTANTS
  BufLen = 2
  MaxText = 4
  MaxSmtpCmds = 3
SPECIFICATION SmtpSpec
INVARIANTS
  EndsWhereItEnds
CHECK_DEADLOCK FALSE
