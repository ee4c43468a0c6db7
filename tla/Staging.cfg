SPECIFICATION Spec
CONSTANTS
  v1 = v1
  v2 = v2
  FileLengths <- Files4
  PieceLength = 2
  CopySize = 1
  MaxOpen = 2
  MaxStageFile = 1
  MaxStageDir = 1
  MaxFiles = 3
  Versions = {v1, v2}
  Unknown = unknown
  Refusals = 1
ACTION_CONSTRAINT OneRewritten
INVARIANTS ReadsBack OpenExact MergeKnown PiecesInFiles
PROPERTY OneStore
CHECK_DEADLOCK FALSE
