SPECIFICATION Spec
CONSTANTS
  Costs <- CostsWithCorrections
  MaxMarginal = 1
  RefillInterval = 2
  ColdStart = 4
  SoftFloor = 0
  MaxOutstanding = 6
  ThresholdBps = 5000
  LatencyBuffer = 1
  AlphaBps = 5000
  MinAtomic = 1
  MaxSafe = 1000
  MaxConsumed = 7
  MaxFailures = 1
  MaxTime = 2
INVARIANTS TypeOK HeldCapped
PROPERTY GrowthLeavesRunway
CHECK_DEADLOCK FALSE
