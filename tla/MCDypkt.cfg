SPECIFICATION Spec
CONSTANTS
  MaxUint = 1073741823
  Item <- Items
  Memory = 24
  MaxItems = 3
INVARIANTS
  ReadsWhatWasSent
  ReadsAll
  StaysInside
PROPERTY ReaderEnds
CHECK_DEADLOCK FALSE
