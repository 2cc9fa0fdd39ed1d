---------------------------- MODULE OrderLedger ----------------------------
(***************************************************************************)
(* The money side of one restaurant order as the SQL functions keep it:    *)
(* the orders row, its payments rows and its self_order_payment_requests   *)
(* rows.  A database state is a record                                     *)
(*    d = [order |-> ..., pay |-> ..., req |-> ...]                        *)
(* and every SQL function is an operator from d to the state it commits,   *)
(* with the triggers its UPDATEs fire.  Nothing here has a state: module   *)
(* OrderPayments turns the functions into actions.                         *)
(***************************************************************************)
EXTENDS Integers, FiniteSets

CONSTANTS
  MaxPayments,   \* bound: payments rows of the order
  MaxReqs,       \* bound: self-order payment requests of the order
  Totals         \* amounts the order may come to (0 is a full discount)

ASSUME LedgerAssumption ==
  /\ MaxPayments \in Nat
  /\ MaxReqs \in Nat
  /\ Totals \subseteq Nat
  /\ 0 \in Totals

Pids   == 1 .. MaxPayments
Rids   == 1 .. MaxReqs
NoPay  == 0                       \* payment_id IS NULL
Latest(S) == CHOOSE x \in S : \A y \in S : y <= x

\* Two amounts that the code's tolerance of one dong tells apart.
Differ(a, b) == a - b > 1 \/ b - a > 1

Tender        == {"cash", "vietqr"}
PaymentStatus == {"absent", "pending", "completed", "failed", "refunded"}
RequestStatus == {"absent", "active", "completed", "cancelled", "expired"}

\* status "open" stands for new .. served.
Orders   == [status : {"open", "completed", "cancelled"}, total : Totals,
             pay : {"unpaid", "pending", "paid"}, method : Tender \union {"none"}]
Payments == [status : PaymentStatus, method : Tender, amount : Totals]
\* status "active" is cash_call / vietqr_pending; due is expires_at <= now();
\* byGuest is cancel_reason = 'guest_cancelled_vietqr'.
Requests == [status : RequestStatus, method : {"cash_call", "vietqr"},
             payment : Pids \union {NoPay}, amount : Totals,
             due : BOOLEAN, byGuest : BOOLEAN]
Ledgers  == [order : Orders, pay : [Pids -> Payments], req : [Rids -> Requests]]

Payment(m, a, s)    == [status |-> s, method |-> m, amount |-> a]
Request(m, p, a)    == [status |-> "active", method |-> m, payment |-> p, amount |-> a,
                        due |-> FALSE, byGuest |-> FALSE]
NewOrder(t) ==
  [order |-> [status |-> "open", total |-> t, pay |-> "unpaid", method |-> "none"],
   pay   |-> [p \in Pids |-> Payment("cash", 0, "absent")],
   req   |-> [r \in Rids |-> [Request("vietqr", NoPay, 0) EXCEPT !.status = "absent"]]]

With(d, s)    == {p \in Pids : d.pay[p].status = s}
Live(d)       == {p \in Pids : d.pay[p].status \notin {"absent", "failed"}}
Active(d)     == {r \in Rids : d.req[r].status = "active"}
ActiveQr(d)   == {r \in Active(d) : d.req[r].method = "vietqr"}
PendingQr(d)  == {p \in With(d, "pending") : d.pay[p].method = "vietqr"}
FreePids(d)   == {p \in With(d, "absent") : \A q \in With(d, "absent") : p <= q}
FreeRids(d)   == {r \in Rids : /\ d.req[r].status = "absent"
                               /\ \A s \in Rids : s < r => d.req[s].status # "absent"}
TenderOf(m)   == IF m = "cash_call" THEN "cash" ELSE "vietqr"

-----------------------------------------------------------------------------
(* Triggers.                                                               *)

\* Requests R are paid by p, unless they are bound to a payment already.
Settle(d, R, p) ==
  [d EXCEPT !.req = [r \in Rids |->
     IF r \in R THEN [d.req[r] EXCEPT !.status = "completed",
                                      !.payment = IF @ = NoPay THEN p ELSE @]
                ELSE d.req[r]]]

Close(d, R, s) ==
  [d EXCEPT !.req = [r \in Rids |->
     IF r \in R THEN [d.req[r] EXCEPT !.status = s] ELSE d.req[r]]]

\* self_order_sync_payment_request_from_order
SyncFromOrder(d) ==
  LET done    == With(d, "completed")
      p       == Latest(done)
      matches == {r \in Active(d) : TenderOf(d.req[r].method) = d.pay[p].method}
      closed  == Close(Settle(d, matches, p), Active(d) \ matches, "cancelled")
  IN  IF d.order.pay = "paid"
        THEN IF done = {} THEN d ELSE closed
        ELSE IF d.order.status = "open" THEN d ELSE Close(d, Active(d), "cancelled")

\* UPDATE orders: the trigger is WHEN status or payment_status changed.
UpdateOrder(d, o) ==
  LET e == [d EXCEPT !.order = o]
  IN  IF o.status # d.order.status \/ o.pay # d.order.pay THEN SyncFromOrder(e) ELSE e

\* payment_status = 'unpaid', payment_method = NULL
ResetOrder(d) == UpdateOrder(d, [d.order EXCEPT !.pay = "unpaid", !.method = "none"])

ResetIfNothingPends(d) ==
  IF d.order.pay # "paid" /\ With(d, "pending") \union With(d, "completed") = {}
    THEN ResetOrder(d) ELSE d

\* Mutants: a request that the staff cancelled is settled too; the late payment
\* is not recorded.
OnCompletedLateByStaff(d, p) ==
  LET q    == d.pay[p]
      hit  == {r \in Active(d) :
                 \/ d.req[r].payment = p
                 \/ /\ d.req[r].payment = NoPay
                    /\ d.req[r].method = "cash_call"
                    /\ q.method = "cash"
                 \/ d.req[r].method = "vietqr" /\ q.method = "vietqr"}
      late == {r \in Rids : /\ d.req[r].status = "cancelled"
                            /\ d.req[r].amount = q.amount}
      e    == IF hit # {} THEN Settle(d, hit, p)
              ELSE IF q.method = "vietqr" /\ late # {}
                THEN [d EXCEPT !.req[Latest(late)].status = "completed",
                               !.req[Latest(late)].payment = p]
                ELSE d
  IN  [e EXCEPT !.order.method = q.method]
OnCompletedLateUnbound(d, p) ==
  LET q    == d.pay[p]
      hit  == {r \in Active(d) :
                 \/ d.req[r].payment = p
                 \/ /\ d.req[r].payment = NoPay
                    /\ d.req[r].method = "cash_call"
                    /\ q.method = "cash"
                 \/ d.req[r].method = "vietqr" /\ q.method = "vietqr"}
      late == {r \in Rids : /\ d.req[r].status = "cancelled"
                            /\ d.req[r].byGuest
                            /\ d.req[r].amount = q.amount}
      e    == IF hit # {} THEN Settle(d, hit, p)
              ELSE IF q.method = "vietqr" /\ late # {}
                THEN [d EXCEPT !.req[Latest(late)].status = "completed"]
                ELSE d
  IN  [e EXCEPT !.order.method = q.method]

\* The payments trigger when p becomes 'completed': the requests it settles or,
\* failing that, the VietQR request of the same amount that the guest cancelled.
\* The order takes the method of the payment.
OnCompleted(d, p) ==
  LET q    == d.pay[p]
      hit  == {r \in Active(d) :
                 \/ d.req[r].payment = p
                 \/ /\ d.req[r].payment = NoPay
                    /\ d.req[r].method = "cash_call"
                    /\ q.method = "cash"
                 \/ d.req[r].method = "vietqr" /\ q.method = "vietqr"}
      late == {r \in Rids : /\ d.req[r].status = "cancelled"
                            /\ d.req[r].byGuest
                            /\ d.req[r].amount = q.amount}
      e    == IF hit # {} THEN Settle(d, hit, p)
              ELSE IF q.method = "vietqr" /\ late # {}
                THEN [d EXCEPT !.req[Latest(late)].status = "completed",
                               !.req[Latest(late)].payment = p]
                ELSE d
  IN  [e EXCEPT !.order.method = q.method]

\* UPDATE payments SET status = 'failed', with its trigger.
FailPayment(d, p) ==
  LET e   == [d EXCEPT !.pay[p].status = "failed"]
      hit == {r \in Active(e) : e.req[r].payment = p}
  IN  IF hit = {} THEN e ELSE ResetIfNothingPends(Close(e, hit, "cancelled"))

\* Mutant: the amount the guest sees is not refreshed.
RefreshVietQrPaymentOnly(d) ==
  IF d.order.pay = "paid" \/ PendingQr(d) = {} \/ d.order.total = 0 THEN d
  ELSE [d EXCEPT !.pay[Latest(PendingQr(d))].amount = d.order.total]

\* refresh_pending_vietqr_for_order
RefreshVietQr(d) ==
  LET t  == d.order.total
      qr == PendingQr(d)
      e  == [d EXCEPT !.pay[Latest(qr)].amount = t]
  IN  IF d.order.pay = "paid" \/ qr = {} \/ t = 0 THEN d
      ELSE IF ActiveQr(d) = {} THEN e
      ELSE [e EXCEPT !.req[Latest(ActiveQr(d))].amount = t]

-----------------------------------------------------------------------------
(* Functions.                                                              *)

\* finalize_paid_order
FinalizePaidOrder(d) ==
  IF d.order.status = "open"
    THEN UpdateOrder(d, [d.order EXCEPT !.status = "completed"]) ELSE d

\* complete_payment_and_consume_stock of a pending payment.  Its callers have
\* just set the amount to the total, so that it never finds a mismatch.
CompletePayment(d, p) ==
  LET e == OnCompleted([d EXCEPT !.pay[p].status = "completed"], p)
  IN  FinalizePaidOrder(UpdateOrder(e, [e.order EXCEPT !.pay = "paid"]))

\* Mutant: a confirmation always inserts a row.
TargetNew(d) == FreePids(d)

\* The payment a confirmation works on: the live one, else a new row.
Target(d) == IF Live(d) # {} THEN {Latest(Live(d))} ELSE FreePids(d)

\* confirm_cash_payment of an order that has no completed payment
ConfirmCash(d, p) ==
  CompletePayment([d EXCEPT !.pay[p] = Payment("cash", d.order.total, "pending"),
                            !.order.method = "cash"], p)

\* confirm_sepay_payment: p is pending or new, or the payment is complete already.
ConfirmSepay(d, p) ==
  IF d.pay[p].status = "completed" THEN d
  ELSE CompletePayment([d EXCEPT !.pay[p] = Payment("vietqr", d.order.total, "pending")], p)

\* create_remote_payment_intent
RemoteIntent(d, p) ==
  [d EXCEPT !.pay[p] = Payment("vietqr", d.order.total, "pending"), !.order.method = "vietqr"]

\* cancel_pending_payment
CancelPending(d, p) ==
  LET bound == {r \in Active(d) : d.req[r].payment = p}
      e     == FailPayment(Close(d, bound, "cancelled"), p)
  IN  IF e.order.pay = "paid" THEN e ELSE ResetOrder(e)

\* How a request that is not paid ends: cancelled by the staff or the guest
\* (byGuest), or expired; the payment it waited for fails with it.
CloseRequest(d, r, s, byGuest, found) ==
  LET settled == Settle(d, {r}, IF found = {} THEN NoPay ELSE Latest(found))
      e       == [Close(d, {r}, s) EXCEPT !.req[r].byGuest = byGuest]
      failed  == found \intersect With(e, "pending")
      f       == IF failed = {} THEN e ELSE FailPayment(e, Latest(failed))
  IN  IF d.order.pay = "paid" \/ found \intersect With(d, "completed") # {} THEN settled
      ELSE IF d.req[r].method = "vietqr" THEN ResetIfNothingPends(f) ELSE f

Bound(d, r) == {p \in Pids : p = d.req[r].payment}
Paying(d, r) == {p \in With(d, "completed") : d.pay[p].method = TenderOf(d.req[r].method)}

\* self_order_cancel_payment_request (staff), self_order_cancel_vietqr_payment (guest)
CancelRequest(d, r, byGuest) ==
  CloseRequest(d, r, "cancelled", byGuest,
               IF Paying(d, r) # {} THEN Paying(d, r) ELSE Bound(d, r))

\* self_order_expire_payment_request
ExpireRequest(d, r) ==
  CloseRequest(d, r, "expired", FALSE,
               IF d.req[r].payment = NoPay /\ d.req[r].method = "cash_call"
                 THEN Paying(d, r) ELSE Bound(d, r))

\* The first step of self_order_create_payment_request.
DropExpired(d) ==
  LET due == {r \in Active(d) : d.req[r].due}
  IN  IF due = {} THEN d ELSE ExpireRequest(d, Latest(due))

\* self_order_adopt_pending_vietqr: request r is bound to the pending payment.
AdoptPending(d, r) ==
  LET p == Latest(PendingQr(d))
  IN  [d EXCEPT !.req[r] = Request("vietqr", p, d.pay[p].amount)]

\* Mutant: the request is named as the POS names the tender.
CashCallMisnamed(d, r) == [d EXCEPT !.req[r] = Request("cash", NoPay, d.order.total)]

\* The inserts of self_order_create_payment_request.
CashCall(d, r) == [d EXCEPT !.req[r] = Request("cash_call", NoPay, d.order.total)]
VietQrRequest(d, r, p) ==
  LET t == d.order.total
      e == [d EXCEPT !.pay[p] = Payment("vietqr", t, "pending")]
      f == UpdateOrder(e, [e.order EXCEPT !.pay = "pending", !.method = "vietqr"])
  IN  [f EXCEPT !.req[r] = Request("vietqr", p, t)]

\* Any edit of the bill, with trg_orders_refresh_pending_vietqr.
ChangeTotal(d, t) == RefreshVietQr([d EXCEPT !.order.total = t])

\* cancel_order; order_payment_code_is_exposed guards it.
CodeExposed(d) == PendingQr(d) # {}
CancelOrder(d) == UpdateOrder(d, [d.order EXCEPT !.status = "cancelled", !.total = 0])

\* Mutant: the order keeps the old method.
SetMethodPaymentOnly(d, p, m) == [d EXCEPT !.pay[p].method = m]

\* correct_payment_method
SetMethod(d, p, m) == [d EXCEPT !.pay[p].method = m, !.order.method = m]

\* refund_paid_order and reverse_payment_and_post
RefundOrder(d, p) ==
  LET e == [d EXCEPT !.pay[p].status = "refunded"]
  IN  UpdateOrder(e, [e.order EXCEPT !.status = "cancelled"])
ReversePayment(d, p) == [d EXCEPT !.pay[p].status = "refunded"]

=============================================================================
