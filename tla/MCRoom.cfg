SPECIFICATION Spec
CONSTANTS
  p1 = p1
  p2 = p2
  w1 = w1
  None = None
  Players <- OnePlayer
  Watchers <- OneWatcher
  IdSpace = 1
  MaxPlayers = 1
  InboxSize = 1
  ReliableSize = 2
  SessionQueue = 1
  MaxBacklog = 1
  SnapshotRate = 1
  TickRate = 1
  CtfMode = FALSE
  MaxEvents = 2
  MaxShots = 0
  StepEvents <- HitsAndDeaths
  StepMarks <- WeaponMarks
INVARIANTS
  TypeOK
  MailNamesItsSender
  NobodyMissesReliable
  
CHECK_DEADLOCK FALSE
