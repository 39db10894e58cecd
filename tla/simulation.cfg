SPECIFICATION Spec
CONSTANTS
  dbyte = 2
  trange <- MCtrange
  l1_tk = 2
  l2_split = 2
  Config <- MCConfig
  Args <- MCArgs
  Costs <- MCCosts
  DefaultGpus = 2
  bw_scale = 2
  ff_compute <- MCff_compute
INVARIANTS TypeOK WorkPreserved CapacityAgrees TilesOwn EnergiesAddUp ColumnsAddUp
PROPERTIES PipelineBounds Ends
CHECK_DEADLOCK FALSE
