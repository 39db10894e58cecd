SPECIFICATION Spec
CONSTANTS
  NPch = 1
  NRank = 1
  NBG = 1
  NBA = 2
  Row = {1, 2}
  Requests <- MixedTrace
  MaxReqs = 2
  MaxRefresh = 0
  MaxQuiet = 1
  Capacity <- MixedCapacity
  wr_high = 1
  wr_low = 1
  read_latency = 2
  Garbage = {}


PROPERTY ActiveRowKept
