SPECIFICATION Spec
CONSTANTS
  NPch = 2
  NRank = 1
  NBG = 1
  NBA = 2
  Row = {1, 2}
  Requests <- BufferLevelTrace
  MaxReqs = 3
  MaxRefresh = 2
  MaxQuiet = 1
  Capacity <- BankLevelCapacity
  wr_high = 0
  wr_low = 0
  read_latency = 1
  Garbage = {}
INVARIANT SingleRow
PROPERTIES NoYoungerConflict BarrierOrder
CHECK_DEADLOCK FALSE
