SPECIFICATION Spec
CONSTANTS
  f1 = f1
  f2 = f2
  NoFinding = NoFinding
  Findings <- OneFinding
  WorkFailures <- OneText
  WorkerEnds <- EveryEnd
  MaxAttempts = 2
  MaxSameFailure = 2
  MaxJobs = 3
  MaxCrashes = 1
  MaxFaults = 1
  MaxVerdicts = 3
INVARIANTS
  TypeOK
  NoStrandedClaim
  ClaimKept
  OneWorkerPerTree
PROPERTIES
  LiveTreeKept
  CheckpointKept
  OperatorVerdictKept
  FixesAsPromised
