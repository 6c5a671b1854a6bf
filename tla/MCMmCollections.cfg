SPECIFICATION Spec
CONSTANTS
  Addr = {o1, o2, o3}
  Var = {v1, v2}
  Val = {0, 1}
  Half = 2
  MaxItems = 2
  Null = Null
SYMMETRY Symmetry
INVARIANTS
  CountsAreOwners
  NoDangling
  MapsInOrder
  GarbageIsCyclic
PROPERTIES
  ImplementsDictionary
CHECK_DEADLOCK FALSE
