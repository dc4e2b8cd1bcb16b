SPECIFICATION Spec
CONSTANTS
  o1 = o1
  o2 = o2
  w1 = w1
  w2 = w2
  NoOp = NoOp
  NoTx = NoTx
  Nobody = Nobody
  Ops <- OneOp
  Workers <- TwoWorkers
  Payments <- OnePayment
  Pay <- PayOne
  StoreKind = "memory"
  Verifies <- RightKey
  SolidityLag = 1
  InclusionDelay = 1
  Lease = 1
  ClaimBatch = 1
  TTL = 1
  Margin = 0
  MaxStall = 1
  MaxBuildAttempts = 2
  MaxSteps = 8
  MaxTime = 2
  MaxHead = 4
  StoreFails = FALSE
  MaxToken = 2
SYMMETRY WorkerSymmetry
INVARIANTS VerdictMatchesChain VerdictIsFinal
PROPERTIES LegalTransitions ImplementsProgress
CHECK_DEADLOCK FALSE
