SPECIFICATION Spec
CONSTANTS
  e1 = e1
  e2 = e2
  Events = {e1}
  Methods = {"charge_automatically"}
  Dues = {"collectable"}
  MaxProviderInvoices = 1
  MaxFaults = 1
  Notifies = FALSE
INVARIANT PaidIsSettled
CHECK_DEADLOCK FALSE
