CONSTANTS
  Threads = {t1, t2, t3}
  Paths = {p, q}
  NoPath = NoPath
  MaxCalls = 3
  MaxEdits = 2
SPECIFICATION Spec
CHECK_DEADLOCK FALSE
INVARIANTS
  OneLoaderPerPath
  ParsedOncePerEviction
  FreshAfterDrop
PROPERTIES
  CallsReturn
  ImplementsSingleFlight
