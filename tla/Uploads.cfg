SPECIFICATION Spec
CONSTANTS
  a = a
  b = b
  Peers = {a, b}
  Live = {a}
  Pieces = 4
  HaveqSize = 1
  MaxAsked = 2
INVARIANTS QueueExact ToldOnce
PROPERTIES Served 
