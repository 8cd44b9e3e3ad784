CONSTANTS
  Main = main
  Workers = {w1, w2}
  Threads = {main, w1, w2}
  Tasks = {1, 2, 3, 4}
  NoTask = 0
  Capacity = 2
  MaxPush = 4
SPECIFICATION PrintSpec
INVARIANTS
  OutputsComplete
  ExitsOnlyWhenDrained
PROPERTIES
  PrintTerminates
  PrintsLikeParallelFor
