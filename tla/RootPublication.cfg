SPECIFICATION Spec
CONSTANTS
  p1 = p1
  p2 = p2
  p3 = p3
  n1 = n1
  n2 = n2
  Publishers = {p1, p2, p3}
  Names = {n1, n2}
  Requested <- MCRequested
  Coordination = Coordination
  Other = Other
  Leaves = 2
  MaxMeddling = 2
SYMMETRY SameRequest
INVARIANT ReportsTrue
PROPERTY ResidueHandled
PROPERTY ImplementsNoReplace
CHECK_DEADLOCK FALSE
