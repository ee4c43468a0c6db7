SPECIFICATION FairSpec
CONSTANTS
  a = a
  b = b
  Peers = {a, b}
  Pieces = {1, 2}
  SlicesPerPiece = 2
  Holds <- SeedAndLeech
  Liars = {}
  Slow = {}
  Speed <- SameSpeed
  Depths = {5}
  Upsets = {"choke", "close", "flush"}
  MaxUpsets = 1
PROPERTY Completes
CHECK_DEADLOCK FALSE
