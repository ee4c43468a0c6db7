SPECIFICATION Spec
CONSTANTS
  NPieces = 3
  PieceLength = 2
  FileLengths <- Files3
  Lists <- SomeLists
  DiskFails = TRUE
  StagingFails = TRUE
  SaveInterrupted = TRUE
INVARIANTS TypeOK  NotFetchedAgain BytesExact 
CHECK_DEADLOCK FALSE
