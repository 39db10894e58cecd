SPECIFICATION Spec
CONSTANTS
  NPch = 1
  NRank = 1
  NBG = 2
  NBA = 1
  Row = {1, 2}
  Requests <- GroupLevelTrace
  MaxReqs = 2
  MaxRefresh = 1
  MaxQuiet = 1
  Capacity <- BankLevelCapacity
  wr_high = 0
  wr_low = 0
  read_latency = 1
  Garbage = {}


INVARIANT SameBanksAgree
