SPECIFICATION Spec
CONSTANTS
  f1 = f1
  f2 = f2
  NoFinding = NoFinding
  Findings <- TwoFindings
  WorkFailures <- OneText
  WorkerEnds <- CapEnds
  MaxAttempts = 2
  MaxSameFailure = 2
  MaxJobs = 4
  MaxCrashes = 0
  MaxFaults = 1
  MaxVerdicts = 2
SYMMETRY Symmetry
INVARIANTS
  OneLiveAttempt
  BlockedHasCheckpoint
PROPERTIES
