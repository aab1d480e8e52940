SPECIFICATION FairSpec
CONSTANTS
  t1 = t1
  t2 = t2
  Slots = {t1, t2}
  Costs = {1, 2}
  Times = {1}
  AlarmReasons = {}
  Deposit = 6
  MaxOutstanding = 2
  MaxReservations = 2
  MaxSeq = 5
  MaxEvents = 3
  MaxTopUps = 0
  MaxDenials = 0
  MaxDeletions = 1
  MaxCrashes = 1
  MaxFaults = 0
INVARIANTS TrackedByWindow PayloadStable
PROPERTIES ChargesSpec 
CHECK_DEADLOCK FALSE
