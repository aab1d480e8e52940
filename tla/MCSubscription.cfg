SPECIFICATION Spec
CONSTANTS
  MaxRuns = 2
  MaxQueued = 2
  CycleLength = 2
  Grace = 1
  Lookahead = 1
  Lookback = 2
  Plans <- ThreePlans
  Ends = {1, 7}
  MaxTime = 3
  MaxEdits = 2
  MaxReports = 1
  MaxFaults = 1
  MaxOverlaps = 1
  Mixed = FALSE
INVARIANTS TypeOK PeriodsTile NetIsEarned
PROPERTIES CycleMovesForward FinalStaysFinal
CHECK_DEADLOCK FALSE
