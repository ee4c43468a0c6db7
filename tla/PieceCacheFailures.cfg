SPECIFICATION Spec
CONSTANTS
  Pieces = {1, 2}
  Offs = {1, 2}
  CacheSizes = {0, 2, 3}
  Growth = {0, 2}
  DiskFails = TRUE
  BadData = TRUE
  Prefetching = FALSE
INVARIANTS TypeOK Coherent  ServesGood QueuedUntilWritten WithinLimit
CHECK_DEADLOCK FALSE
