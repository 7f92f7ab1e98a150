SPECIFICATION Spec
CONSTANTS
  Cases <- SignalCases
  QueueSize = 2
  MaxWrites = 2
  MaxInits = 2
CHECK_DEADLOCK FALSE
INVARIANTS
  OneCopyPerInit
  CloseReachesProviders
  EofIsLast
