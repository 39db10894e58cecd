SPECIFICATION Spec
CONSTANTS
  NPch = 1
  NRank = 1
  NBG = 1
  NBA = 2
  Row = {1, 2}
  Templates <- HitConflictClosedBarrier
  MaxArrive = 1
  MaxLen = 5
  Open <- OneOpen
INVARIANT LoopAgrees
CHECK_DEADLOCK FALSE
