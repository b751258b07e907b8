SPECIFICATION LiveSpec
CONSTANTS
  f1 = f1
  NoFinding = NoFinding
  Findings <- OneFinding
  EngageEnds <- AnswersOnly
  HarvestEnds <- MixedEnds
  MaxAttempts = 1
  MaxSameFailure = 2
  MaxPRs = 2
  MaxHead = 2
  MaxClock = 3
  MaxEvents = 2
  MaxFaults = 0
  MaxCrashes = 1
  MaxVerdicts = 1
PROPERTIES
  AttentionEnds
  EndIsNoticed
  PendingEnds
