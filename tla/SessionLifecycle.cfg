SPECIFICATION Spec
CONSTANTS
  PipeCapacity = 1
  Workers = 2
  MaxLines = 3
CHECK_DEADLOCK FALSE
INVARIANTS
  NoOrphan
  StderrLoggedInOrder
PROPERTIES
  LoggerQuietAfterEnd
  ConnectStallsOnlyOn
  ShutdownStallsOnlyOn
