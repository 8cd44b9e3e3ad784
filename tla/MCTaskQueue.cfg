CONSTANTS
  Threads = {t1, t2, t3}
  Tasks = {a, b}
  NoTask = NoTask
  Capacity = 2
  MaxPush = 3
SYMMETRY Symmetry
SPECIFICATION Spec
INVARIANTS
  NoPayloadRace
  OneOwnerPerPosition
  SizeIsPlausible
PROPERTIES
  FailsOnlyWhenBlocked
  ImplementsFifo
