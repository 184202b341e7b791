SPECIFICATION Spec
CONSTANTS
  Producers = {"p", "q"}
  Capacity = 2
  PositionModulus = 8
  MaxItems = 3
  MaxLag = 2
  Calls = {"pop", "recv"}
INVARIANTS
  NoLostWakeup
  HighWaterWithinCapacity
PROPERTIES
  ImplementsQueue
  RefusedOnlyWhenFull
CHECK_DEADLOCK FALSE
