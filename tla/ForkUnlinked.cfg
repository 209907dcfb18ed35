\* Signals arrive while a Fork is constructed.
CONSTANTS
  Kids = {p1, p2}
  Fatal = {sigterm, sigint}
  Term = sigterm
SPECIFICATION ForkSpec
INVARIANTS
  SuicideKillsEveryChild
CHECK_DEADLOCK FALSE
