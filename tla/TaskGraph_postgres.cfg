SPECIFICATION Spec
CONSTANTS
  Imports <- SmallFiles
  Task = {a, b, c}
  None = None
  Keep = Keep
  Store = "postgres"
  MaxBatch = 2
SYMMETRY TaskSymmetry
INVARIANTS
  TypeOK
  ParentForest
  DependencyDAG
  FinishedParentsClosed
  SomeTaskUnblocked
PROPERTIES
  OverlapOnlyByReparenting
  FinishingClosesScope
