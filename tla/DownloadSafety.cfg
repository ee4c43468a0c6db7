SPECIFICATION Spec
CONSTANTS
  a = a
  b = b
  Peers = {a, b}
  Pieces = {1, 2}
  SlicesPerPiece = 2
  Holds <- SeedAndLeech
  Liars = {}
  Slow = {}
  Speed <- FastA
  Depths = {2}
  Upsets = {"close", "choke", "write"}
  MaxUpsets = 2
INVARIANTS CursorExact CoversMissing 
CHECK_DEADLOCK FALSE
