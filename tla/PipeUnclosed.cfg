\* Three streams and three processes.
CONSTANTS
  Streams = {s1, s2, s3}
  MaxProcs = 3
SPECIFICATION PipeSpec
PROPERTIES
  EndsAreClosed
CHECK_DEADLOCK FALSE
