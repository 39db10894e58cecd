SPECIFICATION Spec
CONSTANTS
  Programs = {"a"}
  Settings <- OneProgram
  num_hbm = 2
  BufferRows = 1
  minimum_heads = 2
  MayFail = {1, 2}
  MaxStarts = 4
  MaxKills = 1
INVARIANT RowsMeasured
CHECK_DEADLOCK FALSE
