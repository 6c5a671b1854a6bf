SPECIFICATION AnySpec
CONSTANTS
  root = root
  child = child
  son = son
  Class = {root, child, son}
  Lineage <- Lineages
  Plain = {root}
  BaseFn = {hash}
  Fn = {hash, str}
  Addr = {o1, o2}
  Var = {v1, v2}
  Null = Null
  MaxDepth = 2
SYMMETRY Symmetry
INVARIANT DestroyedInOrder
CHECK_DEADLOCK FALSE
