SPECIFICATION FairSpec
CONSTANTS
  NoTracker = "none"
  Tiers <- OneEach
  Behaviours = {"refused", "silent", "error", "moved"}
  Reliable = {"b"}
  Commands = {"stop", "restart", "requit"}
  MaxCommands = 2
PROPERTIES Exits KeepsAnnouncing
CHECK_DEADLOCK FALSE
