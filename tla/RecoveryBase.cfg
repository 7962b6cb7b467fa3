SPECIFICATION Spec
CONSTANTS
  NumRuns = 2
  Cloned = TRUE
  MaxRounds = 1
  MaxEdits = 2
INVARIANT ChainStartsOnTheBranch
CHECK_DEADLOCK FALSE
