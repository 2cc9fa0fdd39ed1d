SPECIFICATION Spec
CONSTANTS
  MaxPayments = 3
  MaxReqs = 2
  Totals = {0, 10, 20}
  Transfers = {}
  Hooks = {}
  NoTransfer = NoTransfer
  MaxFaults = 0
  MaxEdits = 2
INVARIANTS TypeOK PaidMeansTaken OneLivePayment LiveQrIsPayable
CHECK_DEADLOCK FALSE
