--------------------------- MODULE OrderPayments ---------------------------
(***************************************************************************)
(* One order and everybody who may settle it: cashiers at the POS, the     *)
(* guest's phone (self-order), the bank, whose SePay webhook is delivered  *)
(* at least once to a serverless route, finance staff who link, replay and *)
(* correct payments, and the cleanup job.  SQL functions lock the order    *)
(* and are atomic; what interleaves are the calls, the two steps of a POS  *)
(* action and the steps of the webhook route.                              *)
(***************************************************************************)
EXTENDS OrderLedger

CONSTANTS
  Transfers,     \* bank transfers a payer may make (SePay transaction ids)
  Hooks,         \* activations of the webhook route alive at once
  NoTransfer,    \* an idle activation
  MaxFaults,     \* bound: lost answers, lost calls, crashes, overlapping deliveries
  MaxEdits       \* bound: edits of the bill

ASSUME TransfersAssumption == NoTransfer \notin Transfers
ASSUME BoundsAssumption    == MaxFaults \in Nat /\ MaxEdits \in Nat

VARIABLES
  db,        \* order, payments, requests: see OrderLedger
  desk,      \* tenders some POS call passed the promotion check for, and is not over
  event,     \* webhook_events, and transfers SePay still has to report
  match,     \* bank_transaction_reconciliation_matches: the payment, or NoPay
  hook,      \* the webhook route's activations
  acked,     \* transfers SePay got a 200 for
  faults,    \* bound counter
  edits      \* bound counter

bank == <<event, match>>
sepay == <<hook, acked>>
vars == <<db, desk, event, match, hook, acked, faults, edits>>

\* "review" stands for the codes a person may still resolve (missing code,
\* order not found, ambiguous code, amount mismatch), "conflict" for the others
\* (payment method, payment state, overpayment).
EventRecord == [status : {"none", "sent", "received", "processed", "failed"},
                code : {"none", "review", "conflict"}, payment : Pids \union {NoPay},
                amount : Totals, coded : BOOLEAN]
HookRecord  == [pc : {"idle", "reconcile", "reply", "mark"},
                event : Transfers \union {NoTransfer}]
IdleHook    == [pc |-> "idle", event |-> NoTransfer]

\* Every row stays in its table's checks, every activation and bound in its range.
TypeOK ==
  /\ db     \in Ledgers
  /\ desk   \subseteq Tender
  /\ event  \in [Transfers -> EventRecord]
  /\ match  \in [Transfers -> Pids \union {NoPay}]
  /\ hook   \in [Hooks -> HookRecord]
  /\ acked  \subseteq Transfers
  /\ faults \in 0 .. MaxFaults
  /\ edits  \in 0 .. MaxEdits

Init ==
  /\ \E t \in Totals \ {0} : db = NewOrder(t)
  /\ desk   = {}
  /\ event  = [e \in Transfers |-> [status |-> "none", code |-> "none",
                                    payment |-> NoPay, amount |-> 0, coded |-> FALSE]]
  /\ match  = [e \in Transfers |-> NoPay]
  /\ hook   = [h \in Hooks |-> IdleHook]
  /\ acked  = {}
  /\ faults = 0
  /\ edits  = 0

Fault     == faults < MaxFaults /\ faults' = faults + 1
Order     == db.order
Unpaid    == db.order.pay # "paid"
IsOpen    == db.order.status = "open"

\* Bound: a pending payment never takes the last row, a confirmation may need it.
Reserve(d) == {MaxPayments} \intersect FreePids(d)

Matched(e)      == event[e].status = "processed" /\ event[e].payment # NoPay
MatchedTo(p)    == {e \in Transfers : Matched(e) /\ event[e].payment = p}
HasEvidence(p)  == \E e \in Transfers : match[e] = p \/ event[e].payment = p

-----------------------------------------------------------------------------
(* The POS.                                                                *)

\* A payment action first evaluates the promotions of the order, which refuses
\* a terminal or paid order; the RPC is a call of its own, and any number of
\* devices may be between the two.
CheckOrder(m) ==
  /\ IsOpen /\ Unpaid
  /\ desk' = desk \union {m}
  /\ UNCHANGED <<db, bank, sepay, faults, edits>>

\* The expiry of a self-order request raises unless the service role calls it,
\* and a cashier's confirmation calls it first, in the cashier's own session.
ExpiryRefused(d) == \E r \in Active(d) : d.req[r].due

\* confirm_cash_payment_with_invoice_binding
CashConfirmed ==
  /\ "cash" \in desk
  /\ ~ExpiryRefused(db)
  /\ ActiveQr(db) = {}
  /\ \A r \in Active(db) : ~Differ(db.req[r].amount, Order.total)
  /\ Unpaid
  /\ With(db, "completed") = {}
  /\ \E p \in Target(db) :
       /\ db.pay[p].method = "vietqr" => ~HasEvidence(p)
       /\ db' = ConfirmCash(db, p)
  /\ UNCHANGED <<desk, bank, sepay, faults, edits>>

\* createPayment
VietQrCreated ==
  /\ "vietqr" \in desk
  /\ Unpaid
  /\ Order.total > 0
  /\ Live(db) \subseteq PendingQr(db)
  /\ \E p \in Target(db) \ Reserve(db) : db' = RemoteIntent(db, p)
  /\ UNCHANGED <<desk, bank, sepay, faults, edits>>

\* The last call for this tender is over, with or without an error.
CallsOver(m) ==
  /\ m \in desk
  /\ desk' = desk \ {m}
  /\ UNCHANGED <<db, bank, sepay, faults, edits>>

PendingCancelled(p) ==
  /\ p \in With(db, "pending")
  /\ db' = CancelPending(db, p)
  /\ UNCHANGED <<desk, bank, sepay, faults, edits>>

BillEdited(t) ==
  /\ IsOpen /\ Unpaid
  /\ t # Order.total
  /\ edits < MaxEdits
  /\ edits' = edits + 1
  /\ db' = ChangeTotal(db, t)
  /\ UNCHANGED <<desk, bank, sepay, faults>>

OrderCancelled ==
  /\ IsOpen
  /\ Unpaid => ~CodeExposed(db)
  /\ db' = CancelOrder(db)
  /\ UNCHANGED <<desk, bank, sepay, faults, edits>>

PaidOrderRefunded(p) ==
  /\ ~Unpaid
  /\ Order.status # "cancelled"
  /\ With(db, "completed") = {p}
  /\ db' = RefundOrder(db, p)
  /\ UNCHANGED <<desk, bank, sepay, faults, edits>>

-----------------------------------------------------------------------------
(* The guest's phone, the staff's queue of requests, and time.             *)

\* self_order_create_payment_request, after it dropped an expired request: a
\* live request is recovered or refuses; a pending payment is adopted.
GuestRequests(m) ==
  LET d == DropExpired(db)
  IN  /\ IsOpen /\ Unpaid
      /\ \/ /\ ActiveQr(d) # {} /\ m = "vietqr"
            /\ db' = RefreshVietQr(d)
         \/ /\ Active(d) = {} /\ m = "vietqr"
            /\ PendingQr(d) # {}
            /\ \A s \in Rids : d.req[s].payment # Latest(PendingQr(d))
            /\ \E r \in FreeRids(d) : db' = AdoptPending(RefreshVietQr(d), r)
         \/ /\ Active(d) = {} /\ m = "cash_call"
            /\ With(d, "pending") \union With(d, "completed") = {}
            /\ \E r \in FreeRids(d) : db' = CashCall(d, r)
         \/ /\ Active(d) = {} /\ m = "vietqr"
            /\ With(d, "pending") \union With(d, "completed") = {}
            /\ d.order.total > 0
            /\ \E r \in FreeRids(d), p \in FreePids(d) \ Reserve(d) :
                 db' = VietQrRequest(d, r, p)
  /\ UNCHANGED <<desk, bank, sepay, faults, edits>>

GuestCancelsVietQr(r) ==
  /\ r \in ActiveQr(db)
  /\ db' = CancelRequest(db, r, TRUE)
  /\ UNCHANGED <<desk, bank, sepay, faults, edits>>

StaffCancelsRequest(r) ==
  /\ r \in Active(db)
  /\ db' = CancelRequest(db, r, FALSE)
  /\ UNCHANGED <<desk, bank, sepay, faults, edits>>

\* The guest's phone repeats its call: the request it made is expired.
RequestExpired(r) ==
  /\ r \in Active(db)
  /\ db.req[r].due
  /\ db' = ExpireRequest(db, r)
  /\ UNCHANGED <<desk, bank, sepay, faults, edits>>

\* expires_at passes.
RequestDue(r) ==
  /\ r \in Active(db)
  /\ ~db.req[r].due
  /\ db' = [db EXCEPT !.req[r].due = TRUE]
  /\ UNCHANGED <<desk, bank, sepay, faults, edits>>

\* cleanup_abandoned_payments, hourly, of a payment pending for 24 hours
PaymentAbandoned(p) ==
  /\ p \in With(db, "pending")
  /\ db' = FailPayment(db, p)
  /\ UNCHANGED <<desk, bank, sepay, faults, edits>>

-----------------------------------------------------------------------------
(* Finance staff.                                                          *)

\* correct_payment_method; guard_payment_method_bank_evidence protects payments
\* that a bank transfer stands for.
MethodCorrected(p, m) ==
  /\ p \in With(db, "completed")
  /\ db.pay[p].method # m
  /\ m = "cash" => ~HasEvidence(p)
  /\ db' = SetMethod(db, p, m)
  /\ UNCHANGED <<desk, bank, sepay, faults, edits>>

PaymentReversed(p) ==
  /\ p \in With(db, "completed")
  /\ db' = ReversePayment(db, p)
  /\ UNCHANGED <<desk, bank, sepay, faults, edits>>

Link(e, p) == [event EXCEPT ![e].status = "processed", ![e].code = "none", ![e].payment = p]

\* reconcile_bank_transaction_targets: link_sepay_transaction_to_payment, and the
\* match of the bank transaction is replaced.
TransferLinked(e, p) ==
  /\ event[e].status = "processed"
  /\ event[e].payment = NoPay
  /\ event[e].code # "conflict"
  /\ p \in With(db, "completed")
  /\ db.pay[p].method = "vietqr"
  /\ db.pay[p].amount = event[e].amount
  /\ MatchedTo(p) = {}
  /\ \A f \in Transfers \ {e} : match[f] # p
  /\ event' = Link(e, p)
  /\ match' = [match EXCEPT ![e] = p]
  /\ UNCHANGED <<db, desk, sepay, faults, edits>>

-----------------------------------------------------------------------------
(* Evidence of the bank.                                                   *)

\* Mutant: any payment will do whose tender and amount are right.
CanConfirmAny(d) ==
  LET q == d.pay[Latest(Live(d))]
      o == d.order
  IN  \/ Live(d) = {} /\ o.pay = "unpaid" /\ o.method \in {"none", "vietqr"}
      \/ /\ Live(d) # {} /\ q.method = "vietqr" /\ o.method = "vietqr"
         /\ q.amount = o.total

\* reconcile_sepay_order_evidence_core: may the order be confirmed?
CanConfirm(d) ==
  LET p == Latest(Live(d))
      q == d.pay[p]
      o == d.order
  IN  /\ Cardinality(Live(d)) <= 1
      /\ \/ Live(d) = {} /\ o.pay = "unpaid" /\ o.method \in {"none", "vietqr"}
         \/ /\ Live(d) # {} /\ q.method = "vietqr" /\ o.method = "vietqr"
            /\ q.amount = o.total
            /\ \/ q.status = "pending" /\ o.pay # "paid"
               \/ q.status = "completed" /\ o.pay = "paid"

\* Mutant: the transfer is compared with itself only.
OverpaidByItself(d, e) == With(d, "completed") # {} /\ Matched(e)

\* The order is paid by a transfer that arrived before.
Overpaid(d, e) ==
  /\ With(d, "completed") # {}
  /\ \E f \in Transfers \ {e} : Matched(f)

\* What the core decides of transfer e: the code it is filed under.
Verdict(d, e) ==
  IF \/ ~event[e].coded
     \/ d.order.status = "cancelled"
     \/ event[e].amount # d.order.total
    THEN "review"
  ELSE IF ~CanConfirm(d) \/ Overpaid(d, e) THEN "conflict"
  ELSE "none"

\* ensure_sepay_payment_reconciliation: e and p are matched unless either has
\* another match, which is only noted in the audit log.
EnsureMatch(d, e, p) ==
  LET fits == /\ d.pay[p].status = "completed"
              /\ d.pay[p].method = "vietqr"
              /\ d.pay[p].amount = event[e].amount
      free == match[e] \in {NoPay, p} /\ \A f \in Transfers \ {e} : match[f] # p
  IN  IF fits /\ free THEN [match EXCEPT ![e] = p] ELSE match

Settled(e, p) ==
  /\ db' = ConfirmSepay(db, p)
  /\ event' = Link(e, p)
  /\ match' = EnsureMatch(ConfirmSepay(db, p), e, p)

\* reconcile_sepay_order_evidence.  An account that is not the tenant's own
\* files the event as failed, and the route still answers 200.
Reconcile(e, accountOk) ==
  \/ /\ event[e].status = "processed"
     /\ match' = IF Matched(e) THEN EnsureMatch(db, e, event[e].payment) ELSE match
     /\ UNCHANGED <<db, event>>
  \/ /\ event[e].status # "processed"
     /\ Verdict(db, e) # "none"
     /\ event' = [event EXCEPT ![e].status = "processed", ![e].code = Verdict(db, e)]
     /\ UNCHANGED <<db, match>>
  \/ /\ event[e].status # "processed"
     /\ Verdict(db, e) = "none"
     /\ \/ accountOk /\ \E p \in Target(db) : Settled(e, p)
        \/ /\ ~accountOk
           /\ event' = [event EXCEPT ![e].status = "failed", ![e].payment = NoPay]
           /\ UNCHANGED <<db, match>>

\* replay_signed_sepay_payment_evidence: finance names the pending payment.
TransferReplayed(e, p) ==
  /\ event[e].payment = NoPay
  /\ \/ event[e].status = "processed" /\ event[e].code = "review"
     \/ event[e].status = "failed"
  /\ p \in PendingQr(db)
  /\ Order.status # "cancelled"
  /\ event[e].amount = db.pay[p].amount
  /\ event[e].amount = Order.total
  /\ \A f \in Transfers \ {e} : ~Matched(f)
  /\ CanConfirm(db)
  /\ Settled(e, p)
  /\ UNCHANGED <<desk, sepay, faults, edits>>

-----------------------------------------------------------------------------
(* The webhook route and SePay's deliveries.                               *)

TransferSent(e, a, coded) ==
  /\ event[e].status = "none"
  /\ event' = [event EXCEPT ![e].status = "sent", ![e].amount = a, ![e].coded = coded]
  /\ UNCHANGED <<db, desk, match, sepay, faults, edits>>

\* Mutant: a delivery that finds a row is a duplicate.
DeliveredDuplicateIsDone(h, e) ==
  /\ hook[h].pc = "idle"
  /\ event[e].status # "none"
  /\ e \notin acked
  /\ IF \E g \in Hooks : hook[g].event = e THEN Fault ELSE UNCHANGED faults
  /\ IF event[e].status # "sent"
       THEN acked' = acked \union {e} /\ UNCHANGED <<event, hook>>
       ELSE /\ event' = [event EXCEPT ![e].status = "received"]
            /\ hook' = [hook EXCEPT ![h] = [pc |-> "reconcile", event |-> e]]
            /\ UNCHANGED acked
  /\ UNCHANGED <<db, desk, match, edits>>

\* POST, up to claimWebhookEvent.  SePay repeats what it has no 200 for; that it
\* repeats while an activation still works on the transfer is a fault.
Delivered(h, e) ==
  /\ hook[h].pc = "idle"
  /\ event[e].status # "none"
  /\ e \notin acked
  /\ IF \E g \in Hooks : hook[g].event = e THEN Fault ELSE UNCHANGED faults
  /\ IF event[e].status = "processed"
       THEN acked' = acked \union {e} /\ UNCHANGED <<event, hook>>
       ELSE /\ event' = IF event[e].status = "sent"
                          THEN [event EXCEPT ![e].status = "received"] ELSE event
            /\ hook' = [hook EXCEPT ![h] = [pc |-> "reconcile", event |-> e]]
            /\ UNCHANGED acked
  /\ UNCHANGED <<db, desk, match, edits>>

\* The RPC.  Its answer may be lost after it committed.
HookReconciles(h, accountOk, answered) ==
  /\ hook[h].pc = "reconcile"
  /\ IF answered THEN UNCHANGED faults ELSE Fault
  /\ Reconcile(hook[h].event, accountOk)
  /\ hook' = [hook EXCEPT ![h].pc = IF answered THEN "reply" ELSE "mark"]
  /\ UNCHANGED <<desk, acked, edits>>

\* The RPC fails before it does anything.
HookCallFails(h) ==
  /\ hook[h].pc = "reconcile"
  /\ Fault
  /\ hook' = [hook EXCEPT ![h].pc = "mark"]
  /\ UNCHANGED <<db, desk, bank, acked, edits>>

\* markWebhookEvent writes 'failed', 500, 'rpc_failed' and a null payment over
\* whatever the row holds; the route answers 500.
HookMarksFailed(h) ==
  /\ hook[h].pc = "mark"
  /\ event' = [event EXCEPT ![hook[h].event].status  = "failed",
                            ![hook[h].event].code    = "none",
                            ![hook[h].event].payment = NoPay]
  /\ hook' = [hook EXCEPT ![h] = IdleHook]
  /\ UNCHANGED <<db, desk, match, acked, faults, edits>>

HookReplies(h) ==
  /\ hook[h].pc = "reply"
  /\ acked' = acked \union {hook[h].event}
  /\ hook' = [hook EXCEPT ![h] = IdleHook]
  /\ UNCHANGED <<db, desk, bank, faults, edits>>

\* The activation dies, or its answer never reaches SePay.
HookDies(h) ==
  /\ hook[h].pc # "idle"
  /\ Fault
  /\ hook' = [hook EXCEPT ![h] = IdleHook]
  /\ UNCHANGED <<db, desk, bank, acked, edits>>

-----------------------------------------------------------------------------
Pos ==
  \/ \E m \in Tender : CheckOrder(m) \/ CallsOver(m)
  \/ CashConfirmed
  \/ VietQrCreated
  \/ \E p \in Pids : PendingCancelled(p) \/ PaidOrderRefunded(p)
  \/ \E t \in Totals : BillEdited(t)
  \/ OrderCancelled

SelfOrder ==
  \/ \E m \in {"cash_call", "vietqr"} : GuestRequests(m)
  \/ \E r \in Rids : \/ GuestCancelsVietQr(r) \/ StaffCancelsRequest(r)
                      \/ RequestExpired(r) \/ RequestDue(r)

Finance ==
  \/ \E p \in Pids : \E m \in Tender : MethodCorrected(p, m)
  \/ \E p \in Pids : PaymentReversed(p)
  \/ \E e \in Transfers, p \in Pids : TransferLinked(e, p) \/ TransferReplayed(e, p)

HookStep(h) ==
  \/ HookReconciles(h, TRUE, TRUE)
  \/ HookMarksFailed(h)
  \/ HookReplies(h)

Webhook ==
  \/ \E e \in Transfers, a \in Totals \ {0}, c \in BOOLEAN : TransferSent(e, a, c)
  \/ \E h \in Hooks, e \in Transfers : Delivered(h, e)
  \/ \E h \in Hooks, ok, answered \in BOOLEAN : HookReconciles(h, ok, answered)
  \/ \E h \in Hooks : HookCallFails(h) \/ HookMarksFailed(h) \/ HookReplies(h) \/ HookDies(h)

Next == Pos \/ SelfOrder \/ (\E p \in Pids : PaymentAbandoned(p)) \/ Finance \/ Webhook

Spec == Init /\ [][Next]_vars

(* SePay goes on delivering what it has no 200 for, and an activation goes on *)
(* until it answers or dies.  Nobody has to pay, to call or to fail.          *)
Fairness ==
  /\ \A e \in Transfers : WF_vars(\E h \in Hooks : Delivered(h, e))
  /\ \A h \in Hooks : WF_vars(HookStep(h))

FairSpec == Spec /\ Fairness

-----------------------------------------------------------------------------
(* Properties.                                                             *)

\* The order is paid exactly when a payment took the money, with the tender the
\* order names and the amount the bill came to.
PaidMeansTaken ==
  LET taken == With(db, "completed") \union With(db, "refunded")
  IN  /\ Order.pay = "paid" <=> taken # {}
      /\ \A p \in taken : /\ db.pay[p].method = Order.method
                          /\ db.pay[p].amount = Order.total

\* No two payments of the order are live, whoever starts them: the unique index
\* on payments never has to refuse one.
OneLivePayment == Cardinality(Live(db)) <= 1

\* A code a guest may scan is good: its payment waits for the total of an open,
\* unpaid bill, whatever was edited or cancelled since.
LiveQrIsPayable ==
  \A r \in ActiveQr(db) :
    /\ db.req[r].payment \in PendingQr(db)
    /\ IsOpen /\ Unpaid
    /\ Order.total > 0 => /\ db.pay[db.req[r].payment].amount = Order.total
                          /\ db.req[r].amount = Order.total

\* What the guest's phone shows as paid was paid: a completed request names the
\* payment that took the money.
CompletedRequestIsPaid ==
  \A r \in Rids : db.req[r].status = "completed" =>
    db.req[r].payment \in With(db, "completed") \union With(db, "refunded")

\* A transfer stands for the payment it was matched to, in amount and tender,
\* and for no other; no second transfer stands for it.
EvidenceHolds ==
  \A e \in Transfers : Matched(e) =>
    LET p == event[e].payment
    IN  /\ p \in With(db, "completed") \union With(db, "refunded")
        /\ db.pay[p].method = "vietqr"
        /\ db.pay[p].amount = event[e].amount
        /\ MatchedTo(p) = {e}

\* Cashier, guest, bank, finance and cleanup together settle the bill as module
\* Settlement says: the money is taken once, for the bill as it stands, and once
\* returned it is never taken again.
TakenBy == With(db, "completed") \union With(db, "refunded")
Money == INSTANCE Settlement WITH
  bill   <- Order.total,
  stage  <- IF With(db, "refunded") # {} THEN "returned"
            ELSE IF TakenBy # {} THEN "taken" ELSE "due",
  amount <- IF TakenBy = {} THEN 0 ELSE db.pay[Latest(TakenBy)].amount,
  tender <- IF TakenBy = {} THEN "none" ELSE db.pay[Latest(TakenBy)].method
SettlesOnce == Money!Spec

\* self_order_enforce_payment_request_invariants: what its trigger would refuse
\* is never attempted.
RequestStepAllowed(a, b) ==
  /\ a.payment # b.payment =>
       /\ b.payment # NoPay /\ b.status = "completed"
       /\ \/ a.payment = NoPay /\ a.status = "active"
          \/ a.status = "cancelled" /\ a.method = "vietqr" /\ a.byGuest
  /\ a.status # b.status =>
       \/ a.status = "active" /\ b.status \in {"completed", "cancelled", "expired"}
       \/ a.status = "cancelled" /\ a.method = "vietqr" /\ a.byGuest /\ b.status = "completed"
  /\ b.status = "completed" => b.payment # NoPay

RequestTriggerNeverRefuses ==
  [][\A r \in Rids : db.req[r].status # "absent" =>
       RequestStepAllowed(db.req[r], db'.req[r])]_db

\* A transfer that SePay reports is filed, in spite of lost answers, crashes and
\* repeated deliveries, and SePay is told so.
TransferIsFiled ==
  \A e \in Transfers :
    event[e].status = "sent" ~> e \in acked /\ event[e].status \in {"processed", "failed"}

-----------------------------------------------------------------------------
(* What the repository says and the code does not keep: TLC refutes these     *)
(* formulas on small instances, as README.md tells under "Known divergences". *)

\* reconcile_sepay_order_evidence "repairs" the canonical match in the same
\* transaction: every matched transfer has its bank match.
MatchedHasCanonicalMatch ==
  \A e \in Transfers : Matched(e) => match[e] = event[e].payment

\* webhook_events is the idempotency log that blocks duplicate processing: a
\* transfer that is filed, and that SePay got its 200 for, stays filed.
AckedStaysFiled ==
  [][\A e \in acked : event[e].status = "processed" => event'[e].status = "processed"]_event

\* A request that has expired does not keep the cashier from taking cash.
ExpiredRequestNeverBlocksCash ==
  "cash" \in desk /\ Unpaid /\ (\A r \in Active(db) : db.req[r].due) => ENABLED CashConfirmed

=============================================================================
