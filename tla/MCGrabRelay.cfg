CONSTANTS
  Orders = {o1}
  Tabs = {t1}
  Popup = Popup
  Runs = {w1, w2}
  MaxAttempts = 1
  MaxRev = 2
  MaxEnded = 1
  MaxCalls = 1
  MaxFaults = 1
  MaxPresses = 0
SPECIFICATION FairSpec
INVARIANTS TypeOK OneFlightPerOrder
PROPERTIES PaidIsFinal CancelReachesPos
CHECK_DEADLOCK FALSE
