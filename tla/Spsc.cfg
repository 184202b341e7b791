SPECIFICATION FairSpec
CONSTANTS
  Producers = {"producer"}
  Capacity = 2
  PositionModulus = 4
  MaxItems = 5
  Calls = {"pop", "recv", "recv_timeout"}
INVARIANTS
  NoLostWakeup
  StreamIntact
PROPERTIES
  ImplementsQueue
  RecvReturns
CHECK_DEADLOCK FALSE
