SPECIFICATION Spec
CONSTANTS
  o1 = o1
  o2 = o2
  w1 = w1
  w2 = w2
  NoOp = NoOp
  NoTx = NoTx
  Nobody = Nobody
  Ops <- OneOp
  Workers <- OneWorker
  Payments <- OnePayment
  Pay <- PayOne
  StoreKind = "postgres"
  Verifies <- RightKey
  SolidityLag = 1
  InclusionDelay = 1
  Lease = 1
  ClaimBatch = 1
  TTL = 2
  Margin = 1
  MaxStall = 2
  MaxBuildAttempts = 2
  MaxSteps = 8
  MaxTime = 4
  MaxHead = 5
  StoreFails = FALSE
  MaxToken = 3
PROPERTY OwnerSettles
CHECK_DEADLOCK FALSE
