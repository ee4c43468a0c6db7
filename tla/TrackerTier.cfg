SPECIFICATION Spec
CONSTANTS
  NoTracker = "none"
  Tiers <- Triple
  Behaviours = {"refused", "failure", "redirect"}
  Reliable = {}
  Commands = {"stop", "restart", "rejoin"}
  MaxCommands = 2
INVARIANTS TypeOK QuitContactsKnown EndsAfterStop
CHECK_DEADLOCK FALSE
