SPECIFICATION LiveSpec
CHECK_DEADLOCK FALSE
CONSTANTS
  MaxQueued = 2
  MaxRequests = 3
  MaxShifts = 2
  MaxEnds = 1
INVARIANTS
  TypeOK
  AnsweredIsSeen
  PauseHolds
PROPERTIES
  StopEnds
  QueueDrains
