SPECIFICATION Spec
CONSTANTS
  TicksPerMilli = 2
  Infinite = 3
  Timeouts = {0, 1, 3, 5, 6, 7, 9, 30}
  MaxInstant = 16
INVARIANT DeadlineKept
PROPERTIES
  NeverPolls
  TimedCallReturns
