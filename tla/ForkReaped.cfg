\* commit_suicide meets objects of children that have been waited for.
CONSTANTS
  Kids = {p1, p2}
  Fatal = {sigterm, sigint}
  Term = sigterm
SPECIFICATION ForkSpec
PROPERTIES
  KillsOnlyChildren
CHECK_DEADLOCK FALSE
