SPECIFICATION AuditSpec
CONSTANTS
  o1 = o1
  w1 = w1
  w2 = w2
  Nobody = Nobody
  NoOp = NoOp
  NoCopy = NoCopy
  NoLease <- Null
  Ops <- OneOp
  CreatedAt <- Alone
  Workers <- TwoWorkers
  Targets <- TwoStates
  ClaimBatch = 1
  Lease = 1
  MaxTime = 3
  MaxToken = 2
  MaxEvents = 3
INVARIANTS AuditTrail NoDrift
PROPERTIES ImplementsContract CallsReturn
CHECK_DEADLOCK FALSE
