SPECIFICATION Spec
CONSTANTS
  MaxPayments = 2
  MaxReqs = 1
  Totals = {0, 10}
  Transfers = {t1, t2}
  Hooks = {h1, h2}
  NoTransfer = NoTransfer
  MaxFaults = 1
  MaxEdits = 1
SYMMETRY Symmetry
INVARIANTS EvidenceHolds CompletedRequestIsPaid
PROPERTIES SettlesOnce RequestTriggerNeverRefuses
CHECK_DEADLOCK FALSE
