SPECIFICATION Spec
CONSTANTS
  Proposals <- ReviewedProposal
  MaxCommands = 2
  MaxAttempts = 2
  Disturbed = FALSE
INVARIANT NoDecisionLost
CHECK_DEADLOCK FALSE
