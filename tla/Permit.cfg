SPECIFICATION Spec
CONSTANTS
  p = p
  q = q
  r = r
  Threads = {p, q, r}
  Capacity = 2
  PositionModulus = 4
  MaxItems = 4
SYMMETRY Symmetry
INVARIANT PermitsConserved
PROPERTY ImplementsQueue
CHECK_DEADLOCK FALSE
