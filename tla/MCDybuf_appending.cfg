SPECIFICATION AppendingSpec
CONSTANTS
  MaxUint = 7
  CacheUnit = 2
  MaxByte = 1
  MaxCap = 4
  Chunk <- Chunks
INVARIANT CursorOrder
