SPECIFICATION Spec
CONSTANTS
  p1 = p1
  p2 = p2
  w1 = w1
  None = None
  Players <- TwoPlayers
  Watchers <- NoClients
  IdSpace = 2
  MaxPlayers = 1
  InboxSize = 1
  ReliableSize = 1
  SessionQueue = 1
  MaxBacklog = 1
  SnapshotRate = 1
  TickRate = 1
  CtfMode = FALSE
  MaxEvents = 0
  MaxShots = 0
  StepEvents <- NoEvents
  StepMarks <- NoMarks
INVARIANTS
  SessionsMatchWorld
  QueuesOpenWhileRegistered
PROPERTIES KeepsRoster
SYMMETRY Interchangeable
CHECK_DEADLOCK FALSE
