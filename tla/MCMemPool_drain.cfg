SPECIFICATION TidySpec
CONSTANTS
  Var = {v1}
  Block = {b1, b2, b3}
  Null = Null
  Batch = 2
  MaxSize = 1
PROPERTY DrainTerminates
