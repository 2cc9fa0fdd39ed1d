\* Two workers, an order whose invoice may be replaced or issued anew once.
SPECIFICATION FairSpec
CONSTANTS
  w1 = w1
  w2 = w2
  Workers <- MCWorkers
  MaxInvoice = 2
  MaxFaults = 2
  MaxDesk = 3
INVARIANTS TypeOK OneLegalInvoice NothingForgotten OneIssued
PROPERTIES JobSettles
CHECK_DEADLOCK FALSE
