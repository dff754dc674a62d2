SPECIFICATION InspectionSpec
CONSTANTS
  Documents <- AllDocuments
  MaxInput = 3
  MaxDocuments = 3
  MaxSegments = 3
  MaxTags = 2
  Limit <- MCLimit
  Overlong = {}
  Controlled = {"Control"}
  Humans <- MCHumans
  Machines <- MCMachines
  Teams <- MCTeams
  Blanks <- MCBlanks
  Moment <- MCMoment
  Day <- MCDay
  MaxSafeInteger = 9
  Times <- MCTimes
  NoTime = NoTime
  ReaderFailures <- MCReaderFailures
  FutureMinors <- MCFutureMinors
  MaxNodes = 9
  MaxFindings = 8
  MaxIdentityBytes = 20
  MaxPayloadBytes = 9
  Weight = 1
INVARIANT RetainedWithinLimits
INVARIANT FailuresExplain
INVARIANT LinksTruthful
INVARIANT FindingsAgreeWithGraph
INVARIANT PublishedGraphWhole
CHECK_DEADLOCK FALSE
