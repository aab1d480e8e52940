SPECIFICATION FairSpec
CONSTANTS
  e1 = e1
  e2 = e2
  Events = {e1}
  Methods = {"charge_automatically", "send_invoice"}
  Dues = {"collectable", "nothing", "zero"}
  MaxProviderInvoices = 2
  MaxFaults = 1
  Notifies = TRUE
INVARIANTS TypeOK BookedIsPaid OneCollectable PaidIsSettled EventsFindTheirInvoice
PROPERTY PaymentTakesEffect
CHECK_DEADLOCK FALSE
