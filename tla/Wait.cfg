SPECIFICATION FairSpec
CONSTANTS
  Users = {"u", "v"}
  Workers = {"w", "x"}
  MaxQueued = 2
  MaxArms = 2
INVARIANTS
  DropIsSafe
  OwedIsTrue
PROPERTIES
  StopLeavesIdle
  DropCompletes
CHECK_DEADLOCK FALSE
