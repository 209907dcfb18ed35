\* Four buffers, two streams, two descriptors.
CONSTANTS
  o1 = o1
  o2 = o2
  o3 = o3
  o4 = o4
  s1 = s1
  s2 = s2
  Objs <- MCObjs
  Streams <- MCStreams
  Descs <- MCDescs
SYMMETRY MCSymmetry
SPECIFICATION StreamSpec
INVARIANTS
  CountIsHolders
  LiveObjectsWork
  PointersValid
  StreamsWork
PROPERTIES
  ClosedFlushed
CHECK_DEADLOCK FALSE
