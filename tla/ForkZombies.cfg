\* Two children may share one SIGCHLD.
CONSTANTS
  Kids = {p1, p2}
  Fatal = {sigterm, sigint}
  Term = sigterm
SPECIFICATION ForkSpec
INVARIANTS
  NoZombies
CHECK_DEADLOCK FALSE
