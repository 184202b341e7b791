SPECIFICATION Spec
CONSTANTS
  t = t
  u = u
  Threads = {t, u}
  Watches = {"v", "w"}
  Asking = {"w"}
  Bound = 2
  MaxSends = 2
  MaxReservations = 1
  MaxQuestions = 2
SYMMETRY Symmetry
INVARIANTS
  RoomKept
  LossIsReported
  QuestionsKept
  ClientIsTold
PROPERTIES
  RoomIsProdded
CHECK_DEADLOCK FALSE
