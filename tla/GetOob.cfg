\* The out-of-band check and urgent data that arrives after it.
CONSTANTS
  BufSize = 2
  W = 1
  MaxWire = 3
  MaxGet = 2
  Waits <- MCWaits
SPECIFICATION GetSpec
PROPERTIES
  OobNeverSkipped
