CONSTANTS
  Orders = {o1, o2}
  Tabs = {t1}
  Popup = Popup
  Runs = {w1}
  MaxAttempts = 2
  MaxRev = 1
  MaxEnded = 0
  MaxCalls = 2
  MaxFaults = 1
  MaxPresses = 1
SPECIFICATION FairSpec
INVARIANT QueuedNotLost
PROPERTY OrderReachesPos
CHECK_DEADLOCK FALSE
