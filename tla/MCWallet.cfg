SPECIFICATION FairSpec
CONSTANTS
  w1 = w1
  t1 = t1
  Windows = {w1}
  TopUps = {t1}
  MaxCredits = 2
  MaxReservations = 1
  MaxSeq = 1
  MaxAmount = 2
  MaxFunds = 3
  SweepLimit = 2
  MaxTime = 1
  MaxLateness = 1
INVARIANTS TypeOK ReservedBacked CreditConserved ExpiredIsEmpty
PROPERTIES OverdueIsSwept
CHECK_DEADLOCK FALSE
