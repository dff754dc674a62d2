SPECIFICATION Spec
CONSTANTS
  Proposals <- CreatedProposal
  MaxCommands = 1
  MaxAttempts = 2
  Disturbed = TRUE
INVARIANTS WorkflowClaimsTrue
CHECK_DEADLOCK FALSE
