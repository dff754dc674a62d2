SPECIFICATION FairSpec
CONSTANTS
  r1 = r1
  r2 = r2
  f1 = f1
  f2 = f2
  Roots = {r1, r2}
  NoRoot = NoRoot
  Folders = {f1, f2}
  NoFolder = NoFolder
  Holders <- MCHolders
  MaxActions = 3
  MaxDisk = 1
INVARIANT SelectionAuthorised
INVARIANT ViewsAgree
INVARIANT WaitsForFreshAnswer
PROPERTY WaitingEnds
CHECK_DEADLOCK FALSE
