SPECIFICATION Spec
CONSTANTS
  ReliableSize = 2
  SessionQueue = 2
  Unreliable = TRUE
  MaxReliable = 4
  MaxSnapshots = 3
INVARIANTS
  TypeOK
  NewestSurvives
PROPERTY
  ReliableInOrder
CHECK_DEADLOCK FALSE
