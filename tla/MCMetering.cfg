SPECIFICATION Spec
CONSTANTS
  Plans <- ThePlans
  MaxGrants = 2
  PeriodLength = 2
  Lateness = 0
  Values <- Readings
  MaxTime = 3
  MaxEvents = 4
  MaxUnits = 8
INVARIANTS TypeOK ChargedForUse MeteredIsRated LinearTracksMeter ReadIsWithinUse
PROPERTY LimitHolds
CHECK_DEADLOCK FALSE
