SPECIFICATION FairSpec
CONSTANTS
  Objects = {"o", "p"}
  Workers = {"w"}
  Healer = "healer"
  OverdueAfter = 1
  MaxEntries = 1
  MaxCancels = 2
  LastCancel = 1
  MaxTime = 2
INVARIANTS
  EveryRepairCounted
  NeverForgotten
  NothingDangles

  
CHECK_DEADLOCK FALSE
