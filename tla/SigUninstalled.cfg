\* Two signals, three handlers, a walk that interrupts a walk.
CONSTANTS
  a = a
  b = b
  h1 = h1
  h2 = h2
  h3 = h3
  Signals <- MCSignals
  Handlers <- MCHandlers
  MaxDepth = 3
  MaxCalls = 5
SYMMETRY MCSymmetry
SPECIFICATION SigSpec
INVARIANTS
  ListedAreInvoked
CHECK_DEADLOCK FALSE
