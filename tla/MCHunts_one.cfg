SPECIFICATION ReapSpec
CONSTANTS
  NumRepos = 1
  MaxTries = 2
  MaxClock = 1
  MaxTip = 2
  MaxAsks = 2
  MaxCrashes = 1
  Operated <- FirstOnly
  Faults = TRUE
INVARIANTS
  TypeOK
  ReviewedToMark
  RequestIsAnswered
  ScopeSurvivesResume
  NoNotesWithoutRow
PROPERTIES
  DeletedIsReclaimed
