SPECIFICATION LiveSpec
CONSTANTS
  m1 = m1
  m2 = m2
  Moves <- TwoMoves
  MaxStand <- Uneven
  Guessed <- FirstOnly
  MaxShifts = 2
  MaxRequests = 2
  MaxTroubles = 1
INVARIANTS
  TypeOK
PROPERTIES
  QueueSurvivesScans
  FileFollowsRenovate
