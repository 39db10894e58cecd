SPECIFICATION Spec
CONSTANTS
  NPch = 2
  NRank = 1
  NBG = 1
  NBA = 1
  Row = {1, 2}
  Requests <- BankLevelTrace
  MaxReqs = 3
  MaxRefresh = 1
  MaxQuiet = 1
  Capacity <- BankLevelCapacity
  wr_high = 0
  wr_low = 0
  read_latency = 1
  Garbage = {}

INVARIANTS TypeOK SingleRow Conservation
PROPERTIES RefreshHoldsRows NoYoungerConflict BarrierOrder Drains RefreshServed
