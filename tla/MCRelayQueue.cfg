CONSTANTS
  ra = ra  rb = rb  rc = rc  o1 = o1  o2 = o2
  Receipts = {ra, rb, rc}
  TextReceipts = {rc}
  Orders = {o1, o2}
  OrderOf <- MCOrderOf
  ShortRef <- MCShortRef
  Items <- MCItems
  NoRef = NoRef
  Conns = {c1}
  Loop = Loop
  LoopLimit = 1
  SlowPosts = FALSE
  MaxPrints = 2
  MaxFaults = 1
  MaxOperator = 1
SPECIFICATION FairSpec
INVARIANTS TypeOK OneRelayedOrder SentMeansOnPos OwnedWhileSent
PROPERTY QueueDrains
CHECK_DEADLOCK FALSE
