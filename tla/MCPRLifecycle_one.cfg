SPECIFICATION Spec
CONSTANTS
  f1 = f1
  NoFinding = NoFinding
  Findings <- OneFinding
  EngageEnds <- EveryEngageEnd
  HarvestEnds <- EveryHarvestEnd
  MaxAttempts = 1
  MaxSameFailure = 2
  MaxPRs = 2
  MaxHead = 3
  MaxClock = 3
  MaxEvents = 2
  MaxFaults = 1
  MaxCrashes = 1
  MaxVerdicts = 1
INVARIANTS
  TypeOK
  StampIsForItsPR
  HarvestedOnce
  ClosedIsRecorded
PROPERTIES
  ReviewersCommitsKept
