SPECIFICATION Spec
CONSTANTS
  a = a
  b = b
  Peers = {a, b}
  Pieces = {1, 2}
  SlicesPerPiece = 2
  Holds <- TwoSeeds
  Liars = {b}
  Slow = {}
  Speed <- SameSpeed
  Depths = {5}
  Upsets = {"health", "pause", "flush"}
  MaxUpsets = 1
INVARIANTS HonestNotBlamed OutCount
CHECK_DEADLOCK FALSE
