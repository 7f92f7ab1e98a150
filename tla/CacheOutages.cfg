SPECIFICATION Spec
CONSTANTS
  Builds = {b1, b2}
  BuildBudget = 4
  ResetBudget = 1
  FailureThreshold = 2
  SkipRequests = 1
  SuccessThreshold = 2
  MaxU32 = 3
CHECK_DEADLOCK FALSE
INVARIANTS
  TypeOK
  MetricsBalance
  FailuresDegradeGracefully
  ColdSpellBounded
  OutageOpensCircuit
PROPERTIES
  OpensOnlyOnOutage
