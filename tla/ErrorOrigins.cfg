SPECIFICATION Spec
CONSTANTS
  MaxSpans = 5
  MaxFails = 3
CHECK_DEADLOCK FALSE
INVARIANTS
  OriginIsCause
  ErrorHasOrigin
