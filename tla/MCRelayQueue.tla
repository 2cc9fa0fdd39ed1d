--------------------------- MODULE MCRelayQueue ---------------------------
(* RelayQueue with an order printed twice (two rasters with different bytes)
   and a second order, printed as text, whose code ends in the same digits. *)
EXTENDS RelayQueue, TLC

CONSTANTS ra, rb, rc, o1, o2

MCOrderOf  == ra :> o1 @@ rb :> o1 @@ rc :> o2
MCShortRef == o1 :> "3626" @@ o2 :> "3626"
MCItems    == o1 :> "rice" @@ o2 :> "noodles"
SameDish   == o1 :> "rice" @@ o2 :> "rice"
=============================================================================
