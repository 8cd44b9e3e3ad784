CONSTANTS
  Rules = {r1, r2}
  DefaultRules = r1
  Selections = {s1, s2}
  DefaultSelections = s1
  Plain = Plain
  Empty = Empty
  Mixed = Mixed
  NoCache = NoCache
  LateCancel = TRUE
  MaxVersion = 2
  MaxRevision = 3
  MaxRetained = 1
SPECIFICATION Spec
INVARIANTS
  SnapshotsNeverChange
  NeverMixed
  LayerSetsBounded
PROPERTY ImplementsDocument
