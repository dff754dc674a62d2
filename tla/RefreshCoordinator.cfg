SPECIFICATION FairSpec
CONSTANTS
  Roots = {r1, r2}
  NoRoot = NoRoot
  Changes <- MCChanges
  MaxPendingPaths = 1
  Debounce = 1
  MaxLatency = 2
  MaxGeneration = 3
  MaxDisk = 2
INVARIANT NoLostChange
INVARIANT BurstBounded
PROPERTY OneFreshLoad
PROPERTY ImplementsBundleView
PROPERTY ChangesAnswered
CHECK_DEADLOCK FALSE
