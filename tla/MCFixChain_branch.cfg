SPECIFICATION Spec
CONSTANTS
  f1 = f1
  f2 = f2
  NoFinding = NoFinding
  Findings <- OneFinding
  WorkFailures <- OneText
  WorkerEnds <- PausingEnds
  MaxAttempts = 2
  MaxSameFailure = 2
  MaxJobs = 3
  MaxCrashes = 0
  MaxFaults = 0
  MaxVerdicts = 1
INVARIANTS
  FixBranchIsFree
