SPECIFICATION SdkSpec
CONSTANTS
  Schemas <- MCSchemas
  IdScalars <- MCIdScalars
  HiddenTypes <- MCHiddenTypes
  ZigKeywords <- MCZigKeywords
  ZigReserved <- MCZigReserved
  MaxEdits = 2
INVARIANTS
  GoodCallsWork
  OwnModuleIsBuilt
CHECK_DEADLOCK FALSE
