---------------------------- MODULE MCGrabRelay ----------------------------
(* GrabRelay with model values: one order in two runs (MCGrabRelay.cfg) and
   two orders in one queue (MCGrabOrders.cfg). *)
EXTENDS GrabRelay
=============================================================================
