CONSTANTS
  KitchenJobs = {k1}
  ReceiptJobs = {b1}
  Runs = {r1, r2}
  NoJob = NoJob
  MaxAttempts = 2
  MaxFaults = 1
  MaxRequests = 2
SYMMETRY Symmetry
SPECIFICATION Spec
INVARIANTS TypeOK PrintedMeansHandedOver ExclusiveUntilReaped NoExtraCopies
