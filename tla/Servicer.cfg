SPECIFICATION FairSpec
CONSTANTS
  Producers = {"p", "q"}
  Workers = {"w", "x"}
  Closers = {"c", "d"}
  Quiescers = {"z"}
  MaxRequests = 3
INVARIANTS
  OneAtATimeInOrder
  WaitingIsOwed
  DownIsFinal
PROPERTY Completes
CHECK_DEADLOCK FALSE
