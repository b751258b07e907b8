SPECIFICATION LiveSpec
CONSTANTS
  f1 = f1
  f2 = f2
  NoFinding = NoFinding
  Findings <- OneFinding
  WorkFailures <- OneText
  WorkerEnds <- FinalEnds
  MaxAttempts = 2
  MaxSameFailure = 2
  MaxJobs = 5
  MaxCrashes = 1
  MaxFaults = 0
  MaxVerdicts = 2
PROPERTIES
  QueuedFixEnds
  TreesReclaimed
