SPECIFICATION FairSpec
CONSTANTS
  Pre = 2
  Shake = 3
  PieceHead = 1
  Slice = 3
  DefSize = 5
  Inc = 2
  MaxSize = 8
  MaxLen = 4
  Kinds = {"keepalive", "choke", "piece"}
  MaxMsgs = 3
INVARIANTS Framing RateExact
PROPERTIES InOrder Arrives
CHECK_DEADLOCK FALSE
