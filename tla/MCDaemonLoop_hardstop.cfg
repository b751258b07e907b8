SPECIFICATION Spec
CHECK_DEADLOCK FALSE
CONSTANTS
  MaxQueued = 1
  MaxRequests = 2
  MaxShifts = 2
  MaxEnds = 0
PROPERTIES
  HardStopHolds
