SPECIFICATION Spec
CONSTANTS
  t1 = t1
  t2 = t2
  c1 = c1
  c2 = c2
  LongRun = 5
  ShortRun = 0
  Tasks <- MCTasks
  Clients <- MCClients
  ClientOf <- MCClientOf
  Guarded <- MCGuarded
  Cancellable <- MCNobody
  QueryBudget <- MCBudget
  MaxRetries = 1
  InitialBackoff = 1
  MaxBackoff = 3
  GrowthNum = 2
  GrowthDen = 1
  FailureThreshold = 2
  SkipRequests = 1
  SuccessThreshold = 2
  MaxU32 = 3
CHECK_DEADLOCK FALSE
INVARIANTS
  TypeOK
  BreakerSound
  CircuitReflectsHistory
  CircuitRecovers
PROPERTIES
  TripsOnlyOnFailureRun
