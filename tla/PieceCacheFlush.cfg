SPECIFICATION FairSpec
CONSTANTS
  Pieces = {1, 2}
  Offs = {1, 2}
  CacheSizes = {3, 4}
  Growth = {0, 2}
  DiskFails = FALSE
  BadData = TRUE
  Prefetching = TRUE
PROPERTIES WrittenEventually
CHECK_DEADLOCK FALSE
