SPECIFICATION Spec
CONSTANTS
  o1 = o1
  o2 = o2
  w1 = w1
  w2 = w2
  NoOp = NoOp
  NoTx = NoTx
  Nobody = Nobody
  Ops <- TwoOps
  Workers <- TwoWorkers
  Payments <- OnePayment
  Pay <- PaySameTwice
  StoreKind = "postgres"
  Verifies <- RightKey
  SolidityLag = 1
  InclusionDelay = 1
  Lease = 0
  ClaimBatch = 2
  TTL = 2
  Margin = 1
  MaxStall = 2
  MaxBuildAttempts = 2
  MaxSteps = 3
  MaxTime = 1
  MaxHead = 2
  StoreFails = TRUE
  MaxToken = 2
SYMMETRY TwinSymmetry
INVARIANTS SingleWriter NoOrphanSends OneTransferEach
PROPERTY ZombieWritesNothing
CHECK_DEADLOCK FALSE
