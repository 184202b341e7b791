SPECIFICATION Spec
CONSTANTS
  p = p
  q = q
  Producers = {p, q}
  Capacity = 2
  PositionModulus = 4
  MaxReserved = 1
  MaxItems = 3
  MaxLag = 2
  Calls = {"recv"}
SYMMETRY Symmetry
INVARIANTS
  PublishFindsRoom
  RefusedOnlyWhenFull
  NoLostWakeup
PROPERTY ImplementsQueue
CHECK_DEADLOCK FALSE
