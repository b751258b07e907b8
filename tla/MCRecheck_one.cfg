SPECIFICATION LiveSpec
CONSTANTS
  Habits <- EveryHabit
  Asked = {"once"}
  Survive = TRUE
  MaxChains = 3
  MaxAttempts = 2
  MaxSameFailure = 2
  MaxTip = 2
  MaxTroubles = 1
  MaxAsks = 2
INVARIANTS
  TypeOK
  VerdictIsOfItsTree
PROPERTIES
  GivenUpOnItsOwn
  RecheckEnds
