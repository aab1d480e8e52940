SPECIFICATION Spec
CONSTANTS
  e1 = e1
  e2 = e2
  Events = {e1, e2}
  Methods = {"charge_automatically"}
  Dues = {"collectable"}
  MaxProviderInvoices = 1
  MaxFaults = 0
  Notifies = TRUE
SYMMETRY EventSymmetry
PROPERTY LateFailureHasNoEffect
CHECK_DEADLOCK FALSE
