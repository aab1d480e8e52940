SPECIFICATION Spec
CONSTANTS
  t1 = t1
  t2 = t2
  Slots = {t1, t2}
  Costs = {1, 2}
  Times = {1}
  AlarmReasons = {}
  Deposit = 3
  MaxOutstanding = 2
  MaxReservations = 2
  MaxSeq = 3
  MaxEvents = 3
  MaxTopUps = 0
  MaxDenials = 1
  MaxDeletions = 0
  MaxCrashes = 0
  MaxFaults = 0
SYMMETRY SlotSymmetry
PROPERTIES ClosedIsCaptured
CHECK_DEADLOCK FALSE
