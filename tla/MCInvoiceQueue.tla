--------------------------- MODULE MCInvoiceQueue ---------------------------
EXTENDS InvoiceQueue, TLC

CONSTANTS w1, w2

MCWorkers == {w1, w2}
=============================================================================
