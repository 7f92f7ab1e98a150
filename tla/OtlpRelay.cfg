SPECIFICATION BatchSpec
CONSTANTS
  Batches <- RelayBatches
  MaxHops = 3
  ValueToPB <- Value
  ValueFromPB <- AttrValue
  BodyToPB <- LogValueToPB
  BodyFromPB <- LogValueFromPB
CHECK_DEADLOCK FALSE
INVARIANTS
  NothingLost
  LiveStaysLive
  RelayKeepsValues
