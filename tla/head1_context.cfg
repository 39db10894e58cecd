SPECIFICATION Spec
CONSTANTS
  Generators = {"bank", "bg", "buffer"}
  Lengths = {1, 4, 7, 12, 17, 24}
  Dheads = {4, 8}
  Heads = {1, 2, 3, 4, 6, 7}
  n_channel = 2
  n_pch = 2
  n_rank = 1
  n_bg = 2
  n_bank = 2
  n_mac = 2
  n_group = 2
INVARIANT EveryContext
CHECK_DEADLOCK FALSE
