SPECIFICATION MCSpec
CONSTANTS
  p1 = p1
  p2 = p2
  n1 = n1
  g1 = g1
  i1 = i1
  Requests <- Mixed
  Request <- MixedRequest
  Ids <- OneId
  NotUuid = NotUuid
  GET = GET
  NotJson = NotJson
  Asset = Asset
  NoAsset = NoAsset
  Decimals = 2
  MinUnits = 1
  MaxUnits = 9999
  NoRow = NoRow
  NoReply = NoReply
  Nobody = Nobody
  MaxFaults = 2
  BodyLen = 1
  CheckLen = 1
  Version = 65
  checksum <- Sum
  MinChars = 3
  MaxChars = 6
  Chars = {0, 3, 9, 10, 11}
  MaxLen = 6
  MaxDecimals = 2
  MaxStrDigits = 4
INVARIANTS OneIntake ParsesExactly ShortestForm AccountsHaveAddresses OneAddress
PROPERTIES ImplementsRegister EveryRequestAnswered
CHECK_DEADLOCK FALSE
