\* The handler frees the object a Fork points to.
CONSTANTS
  Kids = {p1, p2}
  Fatal = {sigterm, sigint}
  Term = sigterm
SPECIFICATION ForkSpec
INVARIANTS
  ForkHasProcess
CHECK_DEADLOCK FALSE
