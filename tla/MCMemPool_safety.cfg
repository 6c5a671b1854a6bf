SPECIFICATION Spec
CONSTANTS
  Var = {v1, v2}
  Block = {b1, b2, b3}
  Null = Null
  Batch = 2
  MaxSize = 2
SYMMETRY Symmetry
INVARIANTS
  TypeOK
  NoDangling
  CountsAreOwners
  DyingStayPooled
  PooledAreLive
PROPERTIES
  DestroyedBeforeFreed
  DrainIsComplete
  LostOnlyByFailure
