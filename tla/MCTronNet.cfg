SPECIFICATION NetSpec
CONSTANTS
  Payments <- TwoPayments
  Wallet <- Envelopes
  SolidityLag = 1
  InclusionDelay = 1
  Verifies <- RightKey
  SafetyMargin = 1
  MaxTime = 5
  MaxHead = 6
INVARIANT ChainRules
PROPERTIES RebuildTheorem ReceiptsFinal
CHECK_DEADLOCK FALSE
