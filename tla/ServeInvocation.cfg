SPECIFICATION Spec
CONSTANTS
  scalar = scalar
  list = list
  Types <- MCTypes
  Parts <- MCParts
  Functions <- MCFunctions
  MaxAttempts = 1
  UserQueries = 1
CHECK_DEADLOCK FALSE
INVARIANTS
  OutcomeIsDelivered
  AnswersExclusive
  CalledBeforeAnswered
  RegistrationComplete
PROPERTIES
  StallsOnlyInUserCode
