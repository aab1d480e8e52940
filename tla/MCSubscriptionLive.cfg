SPECIFICATION FairSpec
CONSTANTS
  MaxRuns = 2
  MaxQueued = 1
  CycleLength = 2
  Grace = 1
  Lookahead = 1
  Lookback = 2
  Plans <- TwoPlans
  Ends = {1, 2}
  MaxTime = 3
  MaxEdits = 0
  MaxReports = 0
  MaxFaults = 1
  MaxOverlaps = 1
  Mixed = FALSE
PROPERTIES CycleIsGranted ServiceIsBilled
CHECK_DEADLOCK FALSE
