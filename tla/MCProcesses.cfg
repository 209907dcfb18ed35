\* Fork: two children and two signals for commit_suicide, or three children.
\* Pipe streams: three streams and three processes.
CONSTANTS
  p1 = p1
  p2 = p2
  p3 = p3
  Kids = {p1, p2, p3}
  Fatal = {sigterm, sigint}
  Term = sigterm
  Streams = {s1, s2, s3}
  MaxProcs = 3
SPECIFICATION MCSpec
INVARIANTS
  ListIsChildren
  ExitLeavesNoChild
  FlaggedKilledFirst
  SuicideKillsAll
  EndsApart
  NoSelfWait
PROPERTIES
  SignalsOwnChild
  SuicideEnds
  ProcessesEnd
CHECK_DEADLOCK FALSE
