SPECIFICATION Spec
CONSTANTS
  NumRuns = 2
  Cloned = TRUE
  MaxRounds = 1
  MaxEdits = 2
INVARIANTS TypeOK ProposalsAreReviewed OneProposal WorkIsOnTheBranch ForeignVerdictHasCause BaseIsNotPushed LockIsHeldByTheLiving
CHECK_DEADLOCK FALSE
