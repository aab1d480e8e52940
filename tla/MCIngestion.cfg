SPECIFICATION Spec
CONSTANTS
  e1 = e1
  e2 = e2
  d1 = d1
  d2 = d2
  Events = {e1, e2}
  Free <- FreeOfCharge
  Windows = {d1, d2}
  NoWindow = NoWindow
  Workers = {c1, c2}
  Amounts = {0, 1}
  MaxDeliveries = 2
  MaxAlloc = 1
  MaxSends = 2
  MaxExtras = 2
INVARIANTS TypeOK CountedOnce UsageIsReported
SYMMETRY Symmetry
CHECK_DEADLOCK FALSE
