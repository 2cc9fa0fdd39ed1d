SPECIFICATION FairSpec
CONSTANTS
  MaxPayments = 1
  MaxReqs = 0
  Totals = {0, 10}
  Transfers = {t1, t2}
  Hooks = {h1, h2}
  NoTransfer = NoTransfer
  MaxFaults = 1
  MaxEdits = 0
PROPERTY TransferIsFiled
CHECK_DEADLOCK FALSE
