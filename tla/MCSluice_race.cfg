SPECIFICATION Spec
CONSTANTS
  o1 = o1
  o2 = o2
  w1 = w1
  w2 = w2
  NoOp = NoOp
  NoTx = NoTx
  Nobody = Nobody
  Ops <- OneOp
  Workers <- TwoWorkers
  Payments <- OnePayment
  Pay <- PayOne
  StoreKind = "memory"
  Verifies <- KeySwapped
  SolidityLag = 0
  InclusionDelay = 1
  Lease = 1
  ClaimBatch = 1
  TTL = 2
  Margin = 1
  MaxStall = 2
  MaxBuildAttempts = 2
  MaxSteps = 8
  MaxTime = 3
  MaxHead = 4
  StoreFails = FALSE
  MaxToken = 2
SYMMETRY WorkerSymmetry
INVARIANTS TypeOK SingleWriter EnvelopeCoherent NoOrphanSends SignedNeverSent RetiredStaysDead AtMostOneLanded VerdictMatchesChain
PROPERTIES PaysOnce ZombieWritesNothing
CHECK_DEADLOCK FALSE
