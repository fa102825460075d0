SPECIFICATION Spec
CONSTANTS
  p1 = p1
  p2 = p2
  w1 = w1
  None = None
  Players <- NoClients
  Watchers <- OneWatcher
  IdSpace = 1
  MaxPlayers = 1
  InboxSize = 1
  ReliableSize = 2
  SessionQueue = 1
  MaxBacklog = 1
  SnapshotRate = 1
  TickRate = 1
  CtfMode = TRUE
  MaxEvents = 0
  MaxShots = 0
  StepEvents <- NoEvents
  StepMarks <- FlagMarks
INVARIANTS
  NewcomerLearnsFlags
CHECK_DEADLOCK FALSE
