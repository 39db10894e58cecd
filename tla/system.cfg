SPECIFICATION Spec
CONSTANTS
  Count <- MCCount
  PrefetchBytes = 4
  Traces <- MCTraces
  Capacity = 2
  MaxServed = 2
INVARIANTS TypeOK SentOnce RightPlace PhasesKept ReportComplete
PROPERTIES ChannelsPromise Terminates
CHECK_DEADLOCK FALSE
