SPECIFICATION Spec
CONSTANTS
  o1 = o1
  o2 = o2
  w1 = w1
  w2 = w2
  NoOp = NoOp
  NoTx = NoTx
  Nobody = Nobody
  Ops <- TwoOps
  Workers <- OneWorker
  Payments <- OnePayment
  Pay <- PaySameTwice
  StoreKind = "memory"
  Verifies <- RightKey
  SolidityLag = 0
  InclusionDelay = 1
  Lease = 1
  ClaimBatch = 2
  TTL = 2
  Margin = 1
  MaxStall = 2
  MaxBuildAttempts = 2
  MaxSteps = 8
  MaxTime = 3
  MaxHead = 4
  StoreFails = FALSE
  MaxToken = 2
INVARIANT OneOwner
CHECK_DEADLOCK FALSE
