SPECIFICATION HuntSpec
CONSTANTS
  NumRepos = 2
  MaxTries = 2
  MaxClock = 1
  MaxTip = 1
  MaxAsks = 1
  MaxCrashes = 1
  Operated <- None
  Faults = FALSE
PROPERTIES
  EveryRepoIsHunted
  RequestIsSettled
