SPECIFICATION SettlingSpec
CONSTANTS
  o1 = o1
  o2 = o2
  w1 = w1
  w2 = w2
  Nobody = Nobody
  NoOp = NoOp
  Ops <- TwoOps
  Workers <- TwoWorkers
  First = o1
  ClaimBatch = 1
  MaxBuildAttempts = 1
  MaxFaults = 1
PROPERTIES EverySettles
CHECK_DEADLOCK FALSE
