SPECIFICATION Spec
CONSTANTS
  p1 = p1
  p2 = p2
  p3 = p3
  root = root
  Publishers = {p1, p2, p3}
  Names = {root}
  Requested <- MCRequested
  Staging = Staging
  Other = Other
  Leaves = 2
  MaxMeddling = 3
SYMMETRY SameRequest
PROPERTY PublicationSafe
PROPERTY ImplementsNoReplace
CHECK_DEADLOCK FALSE
