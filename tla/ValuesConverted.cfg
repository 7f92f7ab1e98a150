SPECIFICATION SdkSpec
CONSTANTS
  Schemas <- MCSchemas
  IdScalars <- MCIdScalars
  HiddenTypes <- MCHiddenTypes
  ZigKeywords <- MCZigKeywords
  ZigReserved <- MCZigReserved
  MaxEdits = 1
INVARIANTS
  ValuesConverted
CHECK_DEADLOCK FALSE
