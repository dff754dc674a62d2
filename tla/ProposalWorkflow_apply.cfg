SPECIFICATION UserSpec
CONSTANTS
  Proposals <- ProposalsOfAllKinds
  MaxCommands = 1
  MaxAttempts = 2
  Disturbed = TRUE
INVARIANT OutcomeTruthful
PROPERTY WritesAuthorised
PROPERTY CreatesNeverReplace
PROPERTY LeaseReturns
CHECK_DEADLOCK FALSE
