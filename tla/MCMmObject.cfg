SPECIFICATION Spec
CONSTANTS
  root = root
  child = child
  son = son
  Class = {root, child, son}
  Lineage <- Lineages
  Plain = {root}
  BaseFn = {hash}
  Fn = {hash, str}
  Addr = {o1, o2}
  Var = {v1, v2}
  Null = Null
  MaxDepth = 2
SYMMETRY Symmetry
INVARIANTS
  NoFault
  DestroyedInOrder
  OwnersSeeObjects
  CastsFind
  CallsFindLast
PROPERTY DestroyedBeforeFreed
