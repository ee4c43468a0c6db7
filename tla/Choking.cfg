SPECIFICATION Spec
CONSTANTS
  p1 = p1
  p2 = p2
  p3 = p3
  Peers = {p1, p2, p3}
  MinUnchokes = 1
  NoPeer = NoPeer
  MaxPasses = 2
  Modes = {"leech", "full"}
SYMMETRY Symmetric
ACTION_CONSTRAINT AskedWhenFull
INVARIANTS TypeOK BestServed OptimisticFair
PROPERTIES NoOverbooking
