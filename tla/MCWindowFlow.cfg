SPECIFICATION Spec
CONSTANTS
  t1 = t1
  t2 = t2
  Slots = {t1, t2}
  Costs = {1, 2}
  Times = {1, 2}
  AlarmReasons = {}
  Deposit = 3
  MaxOutstanding = 2
  MaxReservations = 2
  MaxSeq = 3
  MaxEvents = 4
  MaxTopUps = 1
  MaxDenials = 1
  MaxDeletions = 0
  MaxCrashes = 0
  MaxFaults = 1
SYMMETRY SlotSymmetry
INVARIANTS TypeOK TrackedByWindow BooksAgree FundedUsage PayloadStable
PROPERTIES ChargesSpec
CHECK_DEADLOCK FALSE
