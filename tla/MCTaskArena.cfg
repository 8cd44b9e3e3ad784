CONSTANTS
  k1 = k1
  k2 = k2
  k3 = k3
  k4 = k4
  Calls = {k1, k2, k3, k4}
  Workers = {w1, w2}
  ItemCount <- FourCalls
  NoCall = NoCall
SPECIFICATION Spec
INVARIANTS
  PublishIsExclusive
PROPERTIES
  ImplementsParallelFor
  RunsReturn
  WorkersExit
