SPECIFICATION MCSpec
CONSTANTS
  o1 = o1
  o2 = o2
  o3 = o3
  x0 = x0
  Obj = {o1, o2, o3}
  Class <- Classes
  Layers <- ClassLayers
  Registered <- NotAll
  RootKey = 2
  Leaf = {x0}
  MaxDepth = 3
  Null = Null
INVARIANT StackFollowsCalls
CHECK_DEADLOCK FALSE
