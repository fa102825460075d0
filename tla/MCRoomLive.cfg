SPECIFICATION FairSpec
CONSTANTS
  p1 = p1
  p2 = p2
  w1 = w1
  None = None
  Players <- OnePlayer
  Watchers <- NoClients
  IdSpace = 1
  MaxPlayers = 1
  InboxSize = 2
  ReliableSize = 1
  SessionQueue = 1
  MaxBacklog = 1
  SnapshotRate = 2
  TickRate = 3
  CtfMode = TRUE
  MaxEvents = 1
  MaxShots = 1
  StepEvents <- CapturesOnly
  StepMarks <- FlagMarks
PROPERTIES
  JoinReturns
  RunReturnsEventually
  RemovedSessionEnds
  NoGhosts
  ShutdownCompletes
CHECK_DEADLOCK FALSE
