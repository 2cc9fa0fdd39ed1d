CONSTANTS
  KitchenJobs = {k1, k2}
  ReceiptJobs = {}
  Runs = {r1, r2}
  NoJob = NoJob
  MaxAttempts = 1
  MaxFaults = 1
  MaxRequests = 0
SPECIFICATION FairSpec
PROPERTY KitchenTicketSettles
