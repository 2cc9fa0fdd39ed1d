---------------------------- MODULE Settlement ----------------------------
(***************************************************************************)
(* What everybody who can settle a bill promises together: the money is    *)
(* taken at most once, as much as the bill comes to at that moment; from   *)
(* then on the bill is fixed, the tender it is booked under may still be   *)
(* corrected, and the money may be returned, once.                         *)
(* OrderPayments implements this.                                          *)
(***************************************************************************)
EXTENDS Naturals

CONSTANTS Totals, Tender

VARIABLES bill, stage, amount, tender

settlement == <<bill, stage, amount, tender>>

Init ==
  /\ bill \in Totals
  /\ stage = "due"
  /\ amount = 0
  /\ tender = "none"

Rebill ==
  /\ stage = "due"
  /\ bill' \in Totals
  /\ UNCHANGED <<stage, amount, tender>>

Take ==
  /\ stage = "due"
  /\ stage' = "taken"
  /\ amount' = bill
  /\ tender' \in Tender
  /\ UNCHANGED bill

Correct ==
  /\ stage = "taken"
  /\ tender' \in Tender
  /\ UNCHANGED <<bill, stage, amount>>

Return ==
  /\ stage = "taken"
  /\ stage' = "returned"
  /\ UNCHANGED <<bill, amount, tender>>

Next == Rebill \/ Take \/ Correct \/ Return

Spec == Init /\ [][Next]_settlement

=============================================================================
