SPECIFICATION Spec
CONSTANTS
  Programs = {"a", "b"}
  Settings <- TwoPrograms
  num_hbm = 2
  BufferRows = 1
  minimum_heads = 2
  MayFail = {3}
  MaxStarts = 3
  MaxKills = 1
INVARIANTS TypeOK LogSound AnswerRight RowsOfName
CHECK_DEADLOCK FALSE
