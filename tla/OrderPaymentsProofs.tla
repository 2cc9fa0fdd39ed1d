------------------------ MODULE OrderPaymentsProofs ------------------------
(***************************************************************************)
(* For any number of payments, requests, transfers and activations: no two *)
(* payments of the order are live, it is paid exactly when one took the    *)
(* money, OrderPayments implements Settlement, and a transfer stands for   *)
(* the payment it is matched to.                                           *)
(*                                                                         *)
(* The invariant (Sound) speaks of the orders row and the payments rows    *)
(* only.  What the functions do to requests never decides about money, so  *)
(* the requests and the webhook route occur in the proof only as guards.   *)
(* Most functions touch the money in a harmless way (Harmless): they fail, *)
(* refresh or forget what has not been paid.                               *)
(***************************************************************************)
EXTENDS OrderPayments, FiniteSetTheorems, TLAPS

TakenOf(d) == With(d, "completed") \union With(d, "refunded")

\* A ledger whose requests may be anything.
IsLedger(d) ==
  /\ d = [order |-> d.order, pay |-> d.pay, req |-> d.req]
  /\ d.order \in Orders
  /\ d.pay \in [Pids -> Payments]

OneLive(d) == \A p, q \in Live(d) : p = q

PaidTaken(d) ==
  /\ d.order.pay = "paid" <=> TakenOf(d) # {}
  /\ \A p \in TakenOf(d) : /\ d.pay[p].method = d.order.method
                           /\ d.pay[p].amount = d.order.total

PaidIsClosed(d) == d.order.pay = "paid" => d.order.status # "open"

\* The inductive invariant.
Sound(d) == IsLedger(d) /\ OneLive(d) /\ PaidTaken(d) /\ PaidIsClosed(d)

\* e differs from d in the requests only.
ReqOnly(d, e) == IsLedger(e) /\ e.order = d.order /\ e.pay = d.pay

\* From d to e nothing is taken, returned or billed; a paid order is as it was.
Harmless(d, e) ==
  /\ IsLedger(e)
  /\ e.order.total = d.order.total /\ e.order.status = d.order.status
  /\ Live(e) \subseteq Live(d)
  /\ TakenOf(e) = TakenOf(d)
  /\ \A p \in TakenOf(d) : e.pay[p] = d.pay[p]
  /\ d.order.pay = "paid" => e.order = d.order
  /\ e.order.pay = "paid" => d.order.pay = "paid"

-----------------------------------------------------------------------------
(* Rows.                                                                   *)

LEMMA LatestOfOne == \A p \in Pids : Latest({p}) = p
BY DEF Latest, Pids

\* Of the live payments there is at most one, and so of those among them.
LEMMA LatestIn ==
  ASSUME NEW d, OneLive(d), NEW S \in SUBSET Live(d), S # {}
  PROVE  Latest(S) \in S /\ S = {Latest(S)}
<1>1. PICK p : p \in S
  OBVIOUS
<1>2. S = {p} /\ p \in Pids
  BY <1>1 DEF OneLive, Live
<1> QED BY <1>1, <1>2, LatestOfOne

LEMMA LiveParts ==
  ASSUME NEW d
  PROVE  /\ TakenOf(d) \subseteq Live(d) /\ With(d, "pending") \subseteq Live(d)
         /\ With(d, "completed") \subseteq Live(d) /\ PendingQr(d) \subseteq Live(d)
         /\ TakenOf(d) \intersect With(d, "pending") = {}
BY DEF TakenOf, With, Live, PendingQr

LEMMA ReqChange ==
  ASSUME NEW d, IsLedger(d), NEW x
  PROVE  ReqOnly(d, [d EXCEPT !.req = x])
<1>1. [d EXCEPT !.req = x] = [order |-> d.order, pay |-> d.pay, req |-> x]
  BY DEF IsLedger
<1> QED BY <1>1 DEF IsLedger, ReqOnly

LEMMA OrderChange ==
  ASSUME NEW d, IsLedger(d), NEW o \in Orders
  PROVE  LET e == [d EXCEPT !.order = o]
         IN  IsLedger(e) /\ e.order = o /\ e.pay = d.pay
<1>1. [d EXCEPT !.order = o] = [order |-> o, pay |-> d.pay, req |-> d.req]
  BY DEF IsLedger
<1> QED BY <1>1 DEF IsLedger

LEMMA PayChange ==
  ASSUME NEW d, IsLedger(d), NEW p \in Pids, NEW q \in Payments
  PROVE  LET e == [d EXCEPT !.pay[p] = q]
         IN  /\ IsLedger(e) /\ e.order = d.order
             /\ e.pay[p] = q /\ \A x \in Pids \ {p} : e.pay[x] = d.pay[x]
<1>1. [d EXCEPT !.pay[p] = q] =
        [order |-> d.order, pay |-> [d.pay EXCEPT ![p] = q], req |-> d.req]
  BY DEF IsLedger
<1> QED BY <1>1 DEF IsLedger

LEMMA ReqOnlyHarmless ==
  ASSUME NEW d, NEW e, ReqOnly(d, e) PROVE Harmless(d, e)
BY DEF ReqOnly, Harmless, Live, TakenOf, With

LEMMA HarmlessTrans ==
  ASSUME NEW d, NEW e, NEW f, Harmless(d, e), Harmless(e, f) PROVE Harmless(d, f)
BY DEF Harmless

LEMMA HarmlessSound ==
  ASSUME NEW d, NEW e, Sound(d), Harmless(d, e) PROVE Sound(e)
<1>1. OneLive(e)
  BY DEF Sound, Harmless, OneLive
<1>2. PaidTaken(e)
  BY DEF Sound, Harmless, PaidTaken
<1>3. PaidIsClosed(e)
  BY DEF Sound, Harmless, PaidIsClosed
<1> QED BY <1>1, <1>2, <1>3 DEF Sound, Harmless

-----------------------------------------------------------------------------
(* Triggers.                                                               *)

LEMMA SettleClose ==
  ASSUME NEW d, IsLedger(d), NEW R, NEW p, NEW s
  PROVE  ReqOnly(d, Settle(d, R, p)) /\ ReqOnly(d, Close(d, R, s))
BY ReqChange DEF Settle, Close

LEMMA SyncReqOnly ==
  ASSUME NEW d, IsLedger(d) PROVE ReqOnly(d, SyncFromOrder(d))
<1>1. ReqOnly(d, d)
  BY DEF ReqOnly
<1>2. \A R, p, T, s : ReqOnly(d, Close(Settle(d, R, p), T, s))
  BY SettleClose DEF ReqOnly
<1>3. \A T, s : ReqOnly(d, Close(d, T, s))
  BY SettleClose
<1> QED BY <1>1, <1>2, <1>3 DEF SyncFromOrder

LEMMA UpdateOrderIs ==
  ASSUME NEW d, IsLedger(d), NEW o \in Orders
  PROVE  LET e == UpdateOrder(d, o)
         IN  IsLedger(e) /\ e.order = o /\ e.pay = d.pay
<1> DEFINE e == [d EXCEPT !.order = o]
<1>1. IsLedger(e) /\ e.order = o /\ e.pay = d.pay
  BY OrderChange
<1>2. ReqOnly(e, SyncFromOrder(e))
  BY <1>1, SyncReqOnly
<1> HIDE DEF e
<1>3. UpdateOrder(d, o) \in {e, SyncFromOrder(e)}
  BY DEF UpdateOrder, e
<1> QED BY <1>1, <1>2, <1>3 DEF ReqOnly

-----------------------------------------------------------------------------
(* Functions that take, return and bill nothing.                           *)

LEMMA ResetHarmless ==
  ASSUME NEW d, IsLedger(d), d.order.pay # "paid"
  PROVE  Harmless(d, ResetOrder(d))
<1> DEFINE o == [d.order EXCEPT !.pay = "unpaid", !.method = "none"]
           e == UpdateOrder(d, o)
<1>1. o \in Orders /\ o.total = d.order.total /\ o.status = d.order.status
        /\ o.pay = "unpaid"
  BY DEF IsLedger, Orders
<1> HIDE DEF o
<1>2. IsLedger(e) /\ e.order = o /\ e.pay = d.pay
  BY <1>1, UpdateOrderIs
<1>3. ResetOrder(d) = e
  BY DEF ResetOrder, e, o
<1> HIDE DEF e
<1> QED BY <1>1, <1>2, <1>3 DEF Harmless, Live, TakenOf, With

LEMMA ResetIfHarmless ==
  ASSUME NEW d, IsLedger(d) PROVE Harmless(d, ResetIfNothingPends(d))
<1>1. Harmless(d, d)
  BY DEF Harmless
<1> QED BY <1>1, ResetHarmless DEF ResetIfNothingPends

LEMMA FailHarmless ==
  ASSUME NEW d, IsLedger(d), NEW p \in With(d, "pending")
  PROVE  Harmless(d, FailPayment(d, p))
<1> DEFINE q == [d.pay[p] EXCEPT !.status = "failed"]
           e == [d EXCEPT !.pay[p] = q]
           hit == {r \in Active(e) : e.req[r].payment = p}
           f == Close(e, hit, "cancelled")
<1>1. p \in Pids /\ d.pay[p] \in Payments /\ d.pay[p].status = "pending"
  BY DEF With, IsLedger
<1>2. q \in Payments /\ q.status = "failed"
  BY <1>1 DEF Payments, PaymentStatus
<1> HIDE DEF q
<1>3. /\ IsLedger(e) /\ e.order = d.order
      /\ e.pay[p] = q /\ \A x \in Pids \ {p} : e.pay[x] = d.pay[x]
  BY <1>1, <1>2, PayChange
<1>4. FailPayment(d, p) \in {e, ResetIfNothingPends(f)}
  BY DEF FailPayment, IsLedger, q
<1> HIDE DEF e
<1>5. Harmless(d, e)
  BY <1>1, <1>2, <1>3 DEF Harmless, Live, TakenOf, With
<1>6. ReqOnly(e, f)
  BY <1>3, SettleClose
<1> HIDE DEF f
<1>7. Harmless(d, ResetIfNothingPends(f))
  BY <1>5, <1>6, ReqOnlyHarmless, ResetIfHarmless, HarmlessTrans DEF ReqOnly
<1> QED BY <1>4, <1>5, <1>7

LEMMA CancelPendingHarmless ==
  ASSUME NEW d, IsLedger(d), NEW p \in With(d, "pending")
  PROVE  Harmless(d, CancelPending(d, p))
<1> DEFINE bound == {r \in Active(d) : d.req[r].payment = p}
           e == Close(d, bound, "cancelled")
           f == FailPayment(e, p)
<1>1. ReqOnly(d, e)
  BY SettleClose
<1> HIDE DEF e
<1>2. p \in With(e, "pending") /\ IsLedger(e)
  BY <1>1 DEF ReqOnly, With
<1>3. Harmless(e, f)
  BY <1>2, FailHarmless
<1>4. CancelPending(d, p) = IF f.order.pay = "paid" THEN f ELSE ResetOrder(f)
  BY DEF CancelPending, f, e
<1> HIDE DEF f
<1>5. Harmless(d, f) /\ IsLedger(f)
  BY <1>1, <1>3, ReqOnlyHarmless, HarmlessTrans DEF Harmless
<1> QED BY <1>4, <1>5, ResetHarmless, HarmlessTrans

LEMMA CloseRequestHarmless ==
  ASSUME NEW d, Sound(d), NEW r, NEW s, NEW b, NEW found
  PROVE  Harmless(d, CloseRequest(d, r, s, b, found))
<1> DEFINE c == Close(d, {r}, s)
           e == [c EXCEPT !.req[r].byGuest = b]
           failed == found \intersect With(e, "pending")
           f == IF failed = {} THEN e ELSE FailPayment(e, Latest(failed))
           settled == Settle(d, {r}, IF found = {} THEN NoPay ELSE Latest(found))
<1>1. IsLedger(d) /\ OneLive(d)
  BY DEF Sound
<1>2. ReqOnly(d, c) /\ ReqOnly(d, settled)
  BY <1>1, SettleClose
<1>3. CloseRequest(d, r, s, b, found) \in {settled, f, ResetIfNothingPends(f)}
  BY DEF CloseRequest, f, failed, e, c, settled
<1> HIDE DEF settled, c
<1>4. e = [c EXCEPT !.req = [c.req EXCEPT ![r] = [c.req[r] EXCEPT !.byGuest = b]]]
  OBVIOUS
<1>5. ReqOnly(d, e)
  BY <1>2, <1>4, ReqChange DEF ReqOnly
<1> HIDE DEF e
<1>6. IsLedger(e) /\ OneLive(e)
  BY <1>1, <1>5 DEF ReqOnly, OneLive, Live
<1>7. failed # {} => Latest(failed) \in With(e, "pending")
  BY <1>6, LatestIn, LiveParts
<1> HIDE DEF failed
<1>8. Harmless(d, f)
  BY <1>5, <1>6, <1>7, ReqOnlyHarmless, FailHarmless, HarmlessTrans DEF f
<1> HIDE DEF f
<1>9. Harmless(d, ResetIfNothingPends(f))
  BY <1>8, ResetIfHarmless, HarmlessTrans DEF Harmless
<1> QED BY <1>2, <1>3, <1>8, <1>9, ReqOnlyHarmless

LEMMA RequestsHarmless ==
  ASSUME NEW d, Sound(d)
  PROVE  /\ \A r, b : Harmless(d, CancelRequest(d, r, b))
         /\ \A r : Harmless(d, ExpireRequest(d, r))
         /\ Harmless(d, DropExpired(d))
<1>1. \A r, b : Harmless(d, CancelRequest(d, r, b))
  BY CloseRequestHarmless DEF CancelRequest
<1>2. \A r : Harmless(d, ExpireRequest(d, r))
  BY CloseRequestHarmless DEF ExpireRequest
<1>3. Harmless(d, d)
  BY DEF Harmless, Sound
<1> QED BY <1>1, <1>2, <1>3 DEF DropExpired

LEMMA RefreshHarmless ==
  ASSUME NEW d, Sound(d) PROVE Harmless(d, RefreshVietQr(d))
<1> DEFINE t == d.order.total
           p == Latest(PendingQr(d))
           q == [d.pay[p] EXCEPT !.amount = t]
           e == [d EXCEPT !.pay[p] = q]
<1>1. Harmless(d, d)
  BY DEF Harmless, Sound
<1>2. CASE d.order.pay = "paid" \/ PendingQr(d) = {} \/ t = 0
  BY <1>1, <1>2 DEF RefreshVietQr
<1>3. CASE ~(d.order.pay = "paid" \/ PendingQr(d) = {} \/ t = 0)
  <2>1. p \in PendingQr(d)
    BY <1>3, LatestIn, LiveParts DEF Sound
  <2>2. /\ p \in Pids /\ d.pay[p] \in Payments /\ d.pay[p].status = "pending"
        /\ t \in Totals
    BY <2>1 DEF PendingQr, With, Sound, IsLedger, Orders
  <2>3. q \in Payments /\ q.status = "pending"
    BY <2>2 DEF Payments
  <2>4. RefreshVietQr(d) \in {e, [e EXCEPT !.req[Latest(ActiveQr(d))].amount = t]}
    BY <1>3 DEF RefreshVietQr
  <2> HIDE DEF q, p
  <2>5. /\ IsLedger(e) /\ e.order = d.order
        /\ e.pay[p] = q /\ \A x \in Pids \ {p} : e.pay[x] = d.pay[x]
    BY <2>2, <2>3, PayChange DEF Sound
  <2> HIDE DEF e
  <2>6. Harmless(d, e)
    BY <2>2, <2>3, <2>5 DEF Harmless, Live, TakenOf, With
  <2> DEFINE a == Latest(ActiveQr(d))
             f == [e EXCEPT !.req[a].amount = t]
  <2>7. f = [e EXCEPT !.req = [e.req EXCEPT ![a] = [e.req[a] EXCEPT !.amount = t]]]
    OBVIOUS
  <2>8. ReqOnly(e, f)
    BY <2>5, <2>7, ReqChange
  <2> QED BY <2>4, <2>6, <2>8, ReqOnlyHarmless, HarmlessTrans
<1> QED BY <1>2, <1>3

LEMMA OneRequestHarmless ==
  ASSUME NEW d, IsLedger(d), NEW r, NEW x
  PROVE  Harmless(d, [d EXCEPT !.req[r] = x])
<1>1. [d EXCEPT !.req[r] = x] = [d EXCEPT !.req = [d.req EXCEPT ![r] = x]]
  OBVIOUS
<1> QED BY <1>1, ReqChange, ReqOnlyHarmless

-----------------------------------------------------------------------------
(* Functions that bill, take, correct and return the money.                *)

\* The rows of e are those of d, but for payment p.
OtherwiseAs(d, e, p) == \A x \in Pids \ {p} : e.pay[x] = d.pay[x]

\* e is d with a new bill, and nothing was or is taken.
Rebilled(d, e) == Sound(e) /\ TakenOf(d) = {} /\ TakenOf(e) = {}

\* p has taken the bill as it stands.
Took(d, e, p) ==
  /\ Sound(e)
  /\ e.order.total = d.order.total
  /\ With(e, "completed") = {p} /\ TakenOf(e) = {p}

\* A pending payment is opened, or taken over, where no other is live.
LEMMA IntentSound ==
  ASSUME NEW d, Sound(d), d.order.pay # "paid",
         NEW p \in Pids, Live(d) \subseteq {p},
         NEW e, IsLedger(e), e.order.pay # "paid",
         e.pay[p].status = "pending", OtherwiseAs(d, e, p)
  PROVE  Rebilled(d, e)
<1>1. TakenOf(d) = {}
  BY DEF Sound, PaidTaken
<1>2. Live(e) = {p} /\ TakenOf(e) = {}
  BY DEF OtherwiseAs, Live, TakenOf, With
<1> QED BY <1>1, <1>2 DEF Rebilled, Sound, OneLive, PaidTaken, PaidIsClosed

LEMMA PaymentIs ==
  \A m \in Tender, a \in Totals, s \in PaymentStatus :
    /\ Payment(m, a, s) \in Payments
    /\ Payment(m, a, s).method = m /\ Payment(m, a, s).amount = a
    /\ Payment(m, a, s).status = s
BY DEF Payment, Payments

LEMMA RemoteIntentRebills ==
  ASSUME NEW d, Sound(d), d.order.pay # "paid", NEW p \in Pids, Live(d) \subseteq {p}
  PROVE  Rebilled(d, RemoteIntent(d, p))
<1> DEFINE q == Payment("vietqr", d.order.total, "pending")
           c == [d EXCEPT !.pay[p] = q]
           o == [c.order EXCEPT !.method = "vietqr"]
           e == [c EXCEPT !.order = o]
<1>1. q \in Payments /\ q.status = "pending"
  BY PaymentIs DEF Sound, IsLedger, Orders, Tender, PaymentStatus
<1>2. RemoteIntent(d, p) = e
  BY DEF RemoteIntent, Sound, IsLedger
<1> HIDE DEF q
<1>3. IsLedger(c) /\ c.order = d.order /\ c.pay[p] = q /\ OtherwiseAs(d, c, p)
  BY <1>1, PayChange DEF Sound, OtherwiseAs
<1> HIDE DEF c
<1>4. o \in Orders /\ o.pay = d.order.pay
  BY <1>3 DEF IsLedger, Orders, Tender
<1> HIDE DEF o
<1>5. IsLedger(e) /\ e.order = o /\ e.pay = c.pay
  BY <1>3, <1>4, OrderChange
<1> HIDE DEF e
<1> QED BY <1>1, <1>2, <1>3, <1>4, <1>5, IntentSound DEF OtherwiseAs

LEMMA VietQrRequestRebills ==
  ASSUME NEW d, Sound(d), d.order.pay # "paid", NEW p \in Pids, Live(d) \subseteq {p},
         NEW r
  PROVE  Rebilled(d, VietQrRequest(d, r, p))
<1> DEFINE q == Payment("vietqr", d.order.total, "pending")
           c == [d EXCEPT !.pay[p] = q]
           o == [c.order EXCEPT !.pay = "pending", !.method = "vietqr"]
           f == UpdateOrder(c, o)
           x == Request("vietqr", p, d.order.total)
           e == [f EXCEPT !.req[r] = x]
<1>1. q \in Payments /\ q.status = "pending"
  BY PaymentIs DEF Sound, IsLedger, Orders, Tender, PaymentStatus
<1>2. VietQrRequest(d, r, p) = e
  BY DEF VietQrRequest
<1> HIDE DEF q
<1>3. IsLedger(c) /\ c.order = d.order /\ c.pay[p] = q /\ OtherwiseAs(d, c, p)
  BY <1>1, PayChange DEF Sound, OtherwiseAs
<1> HIDE DEF c
<1>4. o \in Orders /\ o.pay = "pending"
  BY <1>3 DEF IsLedger, Orders, Tender
<1> HIDE DEF o
<1>5. IsLedger(f) /\ f.order = o /\ f.pay = c.pay
  BY <1>3, <1>4, UpdateOrderIs
<1> HIDE DEF f, x
<1>6. e = [f EXCEPT !.req = [f.req EXCEPT ![r] = x]]
  OBVIOUS
<1>7. ReqOnly(f, e)
  BY <1>5, <1>6, ReqChange
<1> HIDE DEF e
<1> QED BY <1>1, <1>2, <1>3, <1>4, <1>5, <1>7, IntentSound DEF OtherwiseAs, ReqOnly

\* The trigger of a completed payment: the tender of the order, and requests.
LEMMA OnCompletedIs ==
  ASSUME NEW d, IsLedger(d), NEW p \in Pids
  PROVE  LET e == OnCompleted(d, p)
         IN  /\ IsLedger(e) /\ e.pay = d.pay
             /\ e.order = [d.order EXCEPT !.method = d.pay[p].method]
<1> DEFINE o == [d.order EXCEPT !.method = d.pay[p].method]
<1>1. o \in Orders
  BY DEF IsLedger, Orders, Payments
<1>2. PICK c : ReqOnly(d, c) /\ OnCompleted(d, p) = [c EXCEPT !.order.method = d.pay[p].method]
  <2>1. \A x : ReqOnly(d, [d EXCEPT !.req = x])
    BY ReqChange
  <2>2. \A R : ReqOnly(d, Settle(d, R, p))
    BY SettleClose
  <2>3. ReqOnly(d, d)
    BY DEF ReqOnly
  <2>4. \A y : LET z == [d.req EXCEPT ![y].status = "completed", ![y].payment = p]
               IN  [d EXCEPT !.req[y].status = "completed", !.req[y].payment = p]
                     = [d EXCEPT !.req = z]
    BY DEF IsLedger
  <2> QED BY <2>1, <2>2, <2>3, <2>4 DEF OnCompleted
<1>3. OnCompleted(d, p) = [c EXCEPT !.order = o]
  BY <1>2 DEF ReqOnly
<1> HIDE DEF o
<1>4. IsLedger([c EXCEPT !.order = o]) /\ [c EXCEPT !.order = o].order = o
        /\ [c EXCEPT !.order = o].pay = c.pay
  BY <1>1, <1>2, OrderChange DEF ReqOnly
<1> QED BY <1>2, <1>3, <1>4 DEF ReqOnly, o

LEMMA FinalizeIs ==
  ASSUME NEW d, IsLedger(d)
  PROVE  LET e == FinalizePaidOrder(d)
         IN  /\ IsLedger(e) /\ e.pay = d.pay /\ e.order.status # "open"
             /\ e.order.total = d.order.total /\ e.order.pay = d.order.pay
             /\ e.order.method = d.order.method
<1> DEFINE o == [d.order EXCEPT !.status = "completed"]
<1>1. o \in Orders /\ o.status = "completed" /\ o.total = d.order.total
        /\ o.pay = d.order.pay /\ o.method = d.order.method
  BY DEF IsLedger, Orders
<1> HIDE DEF o
<1>2. IsLedger(UpdateOrder(d, o)) /\ UpdateOrder(d, o).order = o
        /\ UpdateOrder(d, o).pay = d.pay
  BY <1>1, UpdateOrderIs
<1>3. FinalizePaidOrder(d) = IF d.order.status = "open" THEN UpdateOrder(d, o) ELSE d
  BY DEF FinalizePaidOrder, o
<1> QED BY <1>1, <1>2, <1>3

\* A payment for the whole bill, and no other live: completing it takes the bill.
LEMMA CompleteTakes ==
  ASSUME NEW d, IsLedger(d), NEW p \in Pids, Live(d) \subseteq {p},
         d.pay[p].amount = d.order.total
  PROVE  /\ Took(d, CompletePayment(d, p), p)
         /\ CompletePayment(d, p).pay[p].method = d.pay[p].method
<1> DEFINE q == [d.pay[p] EXCEPT !.status = "completed"]
           c == [d EXCEPT !.pay[p] = q]
           e == OnCompleted(c, p)
           o == [e.order EXCEPT !.pay = "paid"]
           f == UpdateOrder(e, o)
           g == FinalizePaidOrder(f)
<1>1. /\ q \in Payments /\ q.status = "completed"
      /\ q.amount = d.order.total /\ q.method = d.pay[p].method
  BY DEF IsLedger, Payments, PaymentStatus
<1>2. CompletePayment(d, p) = g
  BY DEF CompletePayment, IsLedger
<1> HIDE DEF q
<1>3. IsLedger(c) /\ c.order = d.order /\ c.pay[p] = q /\ OtherwiseAs(d, c, p)
  BY <1>1, PayChange DEF OtherwiseAs
<1> HIDE DEF c
<1>4. IsLedger(e) /\ e.pay = c.pay /\ e.order = [c.order EXCEPT !.method = q.method]
  BY <1>3, OnCompletedIs
<1> HIDE DEF e
<1>5. o \in Orders /\ o.pay = "paid" /\ o.total = d.order.total /\ o.method = q.method
  BY <1>3, <1>4 DEF IsLedger, Orders
<1> HIDE DEF o
<1>6. IsLedger(f) /\ f.order = o /\ f.pay = e.pay
  BY <1>4, <1>5, UpdateOrderIs
<1> HIDE DEF f
<1>7. /\ IsLedger(g) /\ g.pay = c.pay /\ g.order.status # "open"
      /\ g.order.total = d.order.total /\ g.order.pay = "paid"
      /\ g.order.method = q.method
  BY <1>4, <1>5, <1>6, FinalizeIs
<1> HIDE DEF g
<1>8. Live(g) = {p} /\ TakenOf(g) = {p} /\ With(g, "completed") = {p}
  BY <1>1, <1>3, <1>7 DEF OtherwiseAs, Live, TakenOf, With
<1>9. OneLive(g) /\ PaidTaken(g) /\ PaidIsClosed(g)
  BY <1>1, <1>3, <1>7, <1>8 DEF OneLive, PaidTaken, PaidIsClosed
<1> QED BY <1>1, <1>2, <1>3, <1>7, <1>8, <1>9 DEF Took, Sound

LEMMA ConfirmTakes ==
  ASSUME NEW d, Sound(d), NEW p \in Pids, Live(d) \subseteq {p}
  PROVE  /\ Took(d, ConfirmCash(d, p), p)
         /\ d.pay[p].status # "completed" =>
              /\ Took(d, ConfirmSepay(d, p), p)
              /\ ConfirmSepay(d, p).pay[p].method = "vietqr"
<1>1. ASSUME NEW m \in Tender
      PROVE  LET c == [d EXCEPT !.pay[p] = Payment(m, d.order.total, "pending")]
             IN  /\ Took(d, CompletePayment(c, p), p)
                 /\ CompletePayment(c, p).pay[p].method = m
  <2> DEFINE q == Payment(m, d.order.total, "pending")
             c == [d EXCEPT !.pay[p] = q]
  <2>1. q \in Payments /\ q.amount = d.order.total /\ q.method = m
    BY PaymentIs DEF Sound, IsLedger, Orders, PaymentStatus
  <2> HIDE DEF q
  <2>2. IsLedger(c) /\ c.order = d.order /\ c.pay[p] = q /\ OtherwiseAs(d, c, p)
    BY <2>1, PayChange DEF Sound, OtherwiseAs
  <2> HIDE DEF c
  <2>3. Live(c) \subseteq {p}
    BY <2>2 DEF Live, OtherwiseAs
  <2>4. Took(c, CompletePayment(c, p), p) /\ CompletePayment(c, p).pay[p].method = m
    BY <2>1, <2>2, <2>3, CompleteTakes
  <2> QED BY <2>2, <2>4 DEF Took, c, q
<1>2. Took(d, ConfirmCash(d, p), p)
  <2> DEFINE q == Payment("cash", d.order.total, "pending")
             c == [d EXCEPT !.pay[p] = q]
             o == [c.order EXCEPT !.method = "cash"]
             e == [c EXCEPT !.order = o]
  <2>1. q \in Payments /\ q.amount = d.order.total
    BY PaymentIs DEF Sound, IsLedger, Orders, PaymentStatus, Tender
  <2>2. ConfirmCash(d, p) = CompletePayment(e, p)
    BY DEF ConfirmCash, Sound, IsLedger
  <2> HIDE DEF q
  <2>3. IsLedger(c) /\ c.order = d.order /\ c.pay[p] = q /\ OtherwiseAs(d, c, p)
    BY <2>1, PayChange DEF Sound, OtherwiseAs
  <2> HIDE DEF c
  <2>4. o \in Orders /\ o.total = d.order.total
    BY <2>3 DEF IsLedger, Orders, Tender
  <2> HIDE DEF o
  <2>5. IsLedger(e) /\ e.order = o /\ e.pay = c.pay
    BY <2>3, <2>4, OrderChange
  <2> HIDE DEF e
  <2>6. Live(e) \subseteq {p}
    BY <2>3, <2>5 DEF Live, OtherwiseAs
  <2>7. Took(e, CompletePayment(e, p), p)
    BY <2>1, <2>3, <2>4, <2>5, <2>6, CompleteTakes
  <2> QED BY <2>2, <2>4, <2>5, <2>7 DEF Took
<1>3. d.pay[p].status # "completed" =>
        /\ Took(d, ConfirmSepay(d, p), p)
        /\ ConfirmSepay(d, p).pay[p].method = "vietqr"
  BY <1>1 DEF ConfirmSepay, Tender
<1> QED BY <1>2, <1>3

\* An edited bill of an unpaid order: the waiting payment follows it.
LEMMA ChangeTotalRebills ==
  ASSUME NEW d, Sound(d), d.order.pay # "paid", NEW t \in Totals
  PROVE  Rebilled(d, ChangeTotal(d, t))
<1> DEFINE o == [d.order EXCEPT !.total = t]
           c == [d EXCEPT !.order = o]
<1>1. o \in Orders /\ o.pay # "paid"
  BY DEF Sound, IsLedger, Orders
<1>2. ChangeTotal(d, t) = RefreshVietQr(c)
  BY DEF ChangeTotal, Sound, IsLedger
<1> HIDE DEF o
<1>3. IsLedger(c) /\ c.order = o /\ c.pay = d.pay
  BY <1>1, OrderChange DEF Sound
<1> HIDE DEF c
<1>4. TakenOf(d) = {} /\ TakenOf(c) = {}
  BY <1>3 DEF Sound, PaidTaken, TakenOf, With
<1>5. Sound(c)
  BY <1>1, <1>3, <1>4 DEF Sound, OneLive, Live, PaidTaken, PaidIsClosed
<1>6. Harmless(c, RefreshVietQr(c))
  BY <1>5, RefreshHarmless
<1> QED BY <1>2, <1>4, <1>5, <1>6, HarmlessSound DEF Rebilled, Harmless

LEMMA CancelOrderRebills ==
  ASSUME NEW d, Sound(d), d.order.status = "open"
  PROVE  Rebilled(d, CancelOrder(d))
<1> DEFINE o == [d.order EXCEPT !.status = "cancelled", !.total = 0]
           e == UpdateOrder(d, o)
<1>1. o \in Orders /\ o.pay # "paid"
  BY LedgerAssumption DEF Sound, IsLedger, Orders, PaidIsClosed
<1>2. CancelOrder(d) = e
  BY DEF CancelOrder
<1>3. d.order.pay # "paid"
  BY DEF Sound, PaidIsClosed
<1> HIDE DEF o
<1>4. IsLedger(e) /\ e.order = o /\ e.pay = d.pay
  BY <1>1, UpdateOrderIs DEF Sound
<1> HIDE DEF e
<1>5. TakenOf(d) = {} /\ TakenOf(e) = {}
  BY <1>3, <1>4 DEF Sound, PaidTaken, TakenOf, With
<1> QED BY <1>1, <1>2, <1>4, <1>5
        DEF Rebilled, Sound, OneLive, Live, PaidTaken, PaidIsClosed

\* The payment that took the bill is booked under another tender.
Corrected(d, e) ==
  /\ Sound(e)
  /\ e.order.total = d.order.total
  /\ \E p \in Pids : /\ TakenOf(d) = {p} /\ With(d, "completed") = {p}
                     /\ TakenOf(e) = {p} /\ With(e, "completed") = {p}
                     /\ e.pay[p].amount = d.pay[p].amount

\* The payment that took the bill is given back.
Returned(d, e) ==
  /\ Sound(e)
  /\ e.order.total = d.order.total
  /\ \E p \in Pids : /\ TakenOf(d) = {p} /\ With(d, "completed") = {p}
                     /\ TakenOf(e) = {p} /\ With(e, "refunded") = {p}
                     /\ e.pay[p].amount = d.pay[p].amount
                     /\ e.pay[p].method = d.pay[p].method

LEMMA CompletedAlone ==
  ASSUME NEW d, Sound(d), NEW p \in With(d, "completed")
  PROVE  /\ p \in Pids /\ d.pay[p] \in Payments /\ d.pay[p].status = "completed"
         /\ Live(d) = {p} /\ TakenOf(d) = {p} /\ With(d, "completed") = {p}
         /\ d.order.pay = "paid" /\ d.order.status # "open"
         /\ d.pay[p].method = d.order.method /\ d.pay[p].amount = d.order.total
<1>1. p \in Pids /\ d.pay[p] \in Payments /\ d.pay[p].status = "completed"
  BY DEF With, Sound, IsLedger
<1>2. Live(d) = {p} /\ TakenOf(d) = {p} /\ With(d, "completed") = {p}
  BY <1>1 DEF Sound, OneLive, Live, TakenOf, With
<1> QED BY <1>1, <1>2 DEF Sound, PaidTaken, PaidIsClosed

LEMMA SetMethodCorrects ==
  ASSUME NEW d, Sound(d), NEW p \in With(d, "completed"), NEW m \in Tender
  PROVE  Corrected(d, SetMethod(d, p, m))
<1> DEFINE q == [d.pay[p] EXCEPT !.method = m]
           c == [d EXCEPT !.pay[p] = q]
           o == [c.order EXCEPT !.method = m]
           e == [c EXCEPT !.order = o]
<1>1. /\ q \in Payments /\ q.status = "completed" /\ q.method = m
      /\ q.amount = d.pay[p].amount
  BY CompletedAlone DEF Payments
<1>2. SetMethod(d, p, m) = e
  BY DEF SetMethod, Sound, IsLedger
<1> HIDE DEF q
<1>3. IsLedger(c) /\ c.order = d.order /\ c.pay[p] = q /\ OtherwiseAs(d, c, p)
  BY <1>1, CompletedAlone, PayChange DEF Sound, OtherwiseAs
<1> HIDE DEF c
<1>4. o \in Orders /\ o = [d.order EXCEPT !.method = m]
  BY <1>3 DEF IsLedger, Orders, Tender
<1>5. o.total = d.order.total /\ o.pay = d.order.pay /\ o.status = d.order.status /\ o.method = m
  BY <1>3 DEF IsLedger, Orders
<1> HIDE DEF o
<1>6. IsLedger(e) /\ e.order = o /\ e.pay = c.pay
  BY <1>3, <1>4, OrderChange
<1> HIDE DEF e
<1>7. Live(e) = {p} /\ TakenOf(e) = {p} /\ With(e, "completed") = {p}
  BY <1>1, <1>3, <1>6, CompletedAlone DEF OtherwiseAs, Live, TakenOf, With
<1>8. Sound(e)
  BY <1>1, <1>3, <1>5, <1>6, <1>7, CompletedAlone
     DEF Sound, OneLive, PaidTaken, PaidIsClosed
<1> QED BY <1>1, <1>2, <1>3, <1>5, <1>6, <1>7, <1>8, CompletedAlone DEF Corrected

LEMMA ReverseReturns ==
  ASSUME NEW d, Sound(d), NEW p \in With(d, "completed")
  PROVE  Returned(d, ReversePayment(d, p)) /\ Returned(d, RefundOrder(d, p))
<1> DEFINE q == [d.pay[p] EXCEPT !.status = "refunded"]
           c == [d EXCEPT !.pay[p] = q]
           o == [c.order EXCEPT !.status = "cancelled"]
           e == UpdateOrder(c, o)
<1>1. /\ q \in Payments /\ q.status = "refunded" /\ q.method = d.pay[p].method
      /\ q.amount = d.pay[p].amount
  BY CompletedAlone DEF Payments, PaymentStatus
<1>2. ReversePayment(d, p) = c /\ RefundOrder(d, p) = e
  BY DEF ReversePayment, RefundOrder, Sound, IsLedger
<1> HIDE DEF q
<1>3. IsLedger(c) /\ c.order = d.order /\ c.pay[p] = q /\ OtherwiseAs(d, c, p)
  BY <1>1, CompletedAlone, PayChange DEF Sound, OtherwiseAs
<1> HIDE DEF c
<1>4. o \in Orders /\ o.total = d.order.total /\ o.pay = d.order.pay
        /\ o.status # "open" /\ o.method = d.order.method
  BY <1>3 DEF IsLedger, Orders
<1> HIDE DEF o
<1>5. IsLedger(e) /\ e.order = o /\ e.pay = c.pay
  BY <1>3, <1>4, UpdateOrderIs
<1> HIDE DEF e
<1>6. ASSUME NEW f \in {c, e}
      PROVE  Returned(d, f)
  <2>1. /\ IsLedger(f) /\ f.pay = c.pay /\ f.order.total = d.order.total
        /\ f.order.pay = "paid" /\ f.order.status # "open"
        /\ f.order.method = d.order.method
    BY <1>3, <1>4, <1>5, CompletedAlone
  <2>2. Live(f) = {p} /\ TakenOf(f) = {p} /\ With(f, "refunded") = {p}
    BY <1>1, <1>3, <2>1, CompletedAlone DEF OtherwiseAs, Live, TakenOf, With
  <2>3. Sound(f)
    BY <1>1, <1>3, <2>1, <2>2, CompletedAlone
       DEF Sound, OneLive, PaidTaken, PaidIsClosed
  <2> QED BY <1>1, <1>3, <2>1, <2>2, <2>3, CompletedAlone DEF Returned
<1> QED BY <1>2, <1>6

-----------------------------------------------------------------------------
(* The actions.                                                            *)

\* What a step of the system may do to the money, short of correcting a tender.
MoneyStep(d, e) ==
  \/ Harmless(d, e)
  \/ Rebilled(d, e)
  \/ TakenOf(d) = {} /\ \E p \in Pids : Took(d, e, p)
  \/ Returned(d, e)

LEMMA MoneyStepSound ==
  ASSUME NEW d, NEW e, Sound(d), MoneyStep(d, e) \/ Corrected(d, e) PROVE Sound(e)
BY HarmlessSound DEF MoneyStep, Rebilled, Took, Corrected, Returned

LEMMA UnpaidTakesNothing ==
  ASSUME NEW d, Sound(d), d.order.pay # "paid" PROVE TakenOf(d) = {}
BY DEF Sound, PaidTaken

LEMMA TargetFits ==
  ASSUME NEW d, Sound(d), NEW p \in Target(d)
  PROVE  /\ p \in Pids /\ Live(d) \subseteq {p}
         /\ Live(d) # {} => p = Latest(Live(d)) /\ p \in Live(d)
         /\ Live(d) = {} => d.pay[p].status = "absent"
<1>1. CASE Live(d) # {}
  BY <1>1, LatestIn DEF Sound, Target, Live
<1>2. CASE Live(d) = {}
  BY <1>2 DEF Target, FreePids, With
<1> QED BY <1>1, <1>2

LEMMA SettledTakes ==
  ASSUME Sound(db), CanConfirm(db), NEW p \in Target(db)
  PROVE  MoneyStep(db, ConfirmSepay(db, p))
<1>1. p \in Pids /\ Live(db) \subseteq {p}
  BY TargetFits
<1>2. CASE db.pay[p].status = "completed"
  BY <1>2 DEF ConfirmSepay, MoneyStep, Harmless, Sound
<1>3. CASE db.pay[p].status # "completed"
  <2>1. db.order.pay # "paid"
    BY <1>3, TargetFits DEF CanConfirm
  <2> QED BY <1>1, <1>3, <2>1, UnpaidTakesNothing, ConfirmTakes DEF MoneyStep
<1> QED BY <1>2, <1>3

LEMMA ReconcileMoney ==
  ASSUME Sound(db), NEW e, NEW ok, Reconcile(e, ok)
  PROVE  MoneyStep(db, db')
<1>1. CASE UNCHANGED db
  BY <1>1 DEF MoneyStep, Harmless, Sound
<1>2. CASE /\ Verdict(db, e) = "none"
           /\ \E p \in Target(db) : Settled(e, p)
  <2>1. CanConfirm(db)
    BY <1>2 DEF Verdict
  <2> QED BY <1>2, <2>1, SettledTakes DEF Settled
<1> QED BY <1>1, <1>2 DEF Reconcile

LEMMA GuestMoney ==
  ASSUME Sound(db), NEW m, GuestRequests(m)
  PROVE  MoneyStep(db, db')
<1> DEFINE d == DropExpired(db)
<1>1. Harmless(db, d)
  BY RequestsHarmless
<1>2. db.order.pay # "paid"
  BY DEF GuestRequests, Unpaid
<1>3. \/ db' = RefreshVietQr(d)
      \/ \E r \in FreeRids(d) : db' = AdoptPending(RefreshVietQr(d), r)
      \/ \E r \in FreeRids(d) : db' = CashCall(d, r)
      \/ /\ With(d, "pending") \union With(d, "completed") = {}
         /\ \E r \in FreeRids(d), p \in FreePids(d) \ Reserve(d) : db' = VietQrRequest(d, r, p)
  BY DEF GuestRequests
<1> HIDE DEF d
<1>4. Sound(d) /\ IsLedger(d) /\ d.order.pay # "paid" /\ TakenOf(d) = {}
  BY <1>1, <1>2, HarmlessSound, UnpaidTakesNothing DEF Harmless
<1>5. Harmless(db, RefreshVietQr(d)) /\ IsLedger(RefreshVietQr(d))
  BY <1>1, <1>4, RefreshHarmless, HarmlessTrans DEF Harmless
<1>6. \A r : Harmless(db, AdoptPending(RefreshVietQr(d), r))
  BY <1>5, OneRequestHarmless, HarmlessTrans DEF AdoptPending
<1>7. \A r : Harmless(db, CashCall(d, r))
  BY <1>1, <1>4, OneRequestHarmless, HarmlessTrans DEF CashCall
<1>8. ASSUME NEW r, NEW p \in FreePids(d),
             With(d, "pending") \union With(d, "completed") = {}
      PROVE  Rebilled(db, VietQrRequest(d, r, p))
  <2>1. p \in Pids
    BY DEF FreePids, With
  <2>2. ASSUME NEW x \in Live(d) PROVE FALSE
    <3>1. x \in Pids /\ d.pay[x].status \in PaymentStatus
      BY <1>4 DEF IsLedger, Live, Payments
    <3> QED BY <1>4, <1>8, <3>1 DEF Live, With, TakenOf, PaymentStatus
  <2>3. Rebilled(d, VietQrRequest(d, r, p))
    BY <1>4, <2>1, <2>2, VietQrRequestRebills
  <2> QED BY <1>1, <2>3 DEF Rebilled, Harmless
<1> QED BY <1>3, <1>5, <1>6, <1>7, <1>8 DEF MoneyStep

LEMMA PosMoney ==
  ASSUME Sound(db), Pos PROVE MoneyStep(db, db')
<1>1. ASSUME NEW m \in Tender, CheckOrder(m) \/ CallsOver(m)
      PROVE  MoneyStep(db, db')
  BY <1>1 DEF CheckOrder, CallsOver, MoneyStep, Harmless, Sound
<1>2. ASSUME CashConfirmed PROVE MoneyStep(db, db')
  BY <1>2, TargetFits, UnpaidTakesNothing, ConfirmTakes DEF CashConfirmed, Unpaid, MoneyStep
<1>3. ASSUME VietQrCreated PROVE MoneyStep(db, db')
  BY <1>3, TargetFits, RemoteIntentRebills DEF VietQrCreated, Unpaid, MoneyStep
<1>4. ASSUME NEW p \in Pids, PendingCancelled(p) PROVE MoneyStep(db, db')
  BY <1>4, CancelPendingHarmless DEF PendingCancelled, MoneyStep, Sound
<1>5. ASSUME NEW p \in Pids, PaidOrderRefunded(p) PROVE MoneyStep(db, db')
  BY <1>5, ReverseReturns DEF PaidOrderRefunded, MoneyStep
<1>6. ASSUME NEW t \in Totals, BillEdited(t) PROVE MoneyStep(db, db')
  BY <1>6, ChangeTotalRebills DEF BillEdited, Unpaid, MoneyStep
<1>7. ASSUME OrderCancelled PROVE MoneyStep(db, db')
  BY <1>7, CancelOrderRebills DEF OrderCancelled, IsOpen, MoneyStep
<1> QED BY <1>1, <1>2, <1>3, <1>4, <1>5, <1>6, <1>7 DEF Pos

LEMMA SelfOrderMoney ==
  ASSUME Sound(db), SelfOrder PROVE MoneyStep(db, db')
<1>1. ASSUME NEW m, GuestRequests(m) PROVE MoneyStep(db, db')
  BY <1>1, GuestMoney
<1>2. ASSUME NEW r \in Rids, GuestCancelsVietQr(r) \/ StaffCancelsRequest(r)
      PROVE  MoneyStep(db, db')
  BY <1>2, RequestsHarmless DEF GuestCancelsVietQr, StaffCancelsRequest, MoneyStep
<1>3. ASSUME NEW r \in Rids, RequestExpired(r) PROVE MoneyStep(db, db')
  BY <1>3, RequestsHarmless DEF RequestExpired, MoneyStep
<1>4. ASSUME NEW r \in Rids, RequestDue(r) PROVE MoneyStep(db, db')
  <2>1. db' = [db EXCEPT !.req[r] = [db.req[r] EXCEPT !.due = TRUE]]
    BY <1>4 DEF RequestDue
  <2> QED BY <2>1, OneRequestHarmless DEF MoneyStep, Sound
<1> QED BY <1>1, <1>2, <1>3, <1>4 DEF SelfOrder

LEMMA FinanceMoney ==
  ASSUME Sound(db), Finance PROVE MoneyStep(db, db') \/ Corrected(db, db')
<1>1. ASSUME NEW p \in Pids, NEW m \in Tender, MethodCorrected(p, m)
      PROVE  Corrected(db, db')
  BY <1>1, SetMethodCorrects DEF MethodCorrected
<1>2. ASSUME NEW p \in Pids, PaymentReversed(p) PROVE MoneyStep(db, db')
  BY <1>2, ReverseReturns DEF PaymentReversed, MoneyStep
<1>3. ASSUME NEW e \in Transfers, NEW p \in Pids, TransferLinked(e, p)
      PROVE  MoneyStep(db, db')
  BY <1>3 DEF TransferLinked, MoneyStep, Harmless, Sound
<1>4. ASSUME NEW e \in Transfers, NEW p \in Pids, TransferReplayed(e, p)
      PROVE  MoneyStep(db, db')
  <2>1. p \in PendingQr(db) /\ db' = ConfirmSepay(db, p) /\ CanConfirm(db)
    BY <1>4 DEF TransferReplayed, Settled
  <2>2. p \in Live(db)
    BY <2>1, LiveParts
  <2>3. p \in Target(db)
    BY <2>2, LatestIn DEF Sound, OneLive, Target
  <2> QED BY <2>1, <2>3, SettledTakes
<1> QED BY <1>1, <1>2, <1>3, <1>4 DEF Finance

LEMMA WebhookMoney ==
  ASSUME Sound(db), Webhook PROVE MoneyStep(db, db')
<1>1. ASSUME NEW h \in Hooks, NEW ok \in BOOLEAN, NEW answered \in BOOLEAN,
             HookReconciles(h, ok, answered)
      PROVE  MoneyStep(db, db')
  BY <1>1, ReconcileMoney DEF HookReconciles
<1>2. CASE UNCHANGED db
  BY <1>2 DEF MoneyStep, Harmless, Sound
<1>3. ASSUME NEW e \in Transfers, NEW a \in Totals \ {0}, NEW c \in BOOLEAN,
             TransferSent(e, a, c)
      PROVE  UNCHANGED db
  BY <1>3 DEF TransferSent
<1>4. ASSUME NEW h \in Hooks, NEW e \in Transfers, Delivered(h, e) PROVE UNCHANGED db
  BY <1>4 DEF Delivered
<1>5. ASSUME NEW h \in Hooks,
             HookCallFails(h) \/ HookMarksFailed(h) \/ HookReplies(h) \/ HookDies(h)
      PROVE  UNCHANGED db
  BY <1>5 DEF HookCallFails, HookMarksFailed, HookReplies, HookDies
<1> QED BY <1>1, <1>2, <1>3, <1>4, <1>5 DEF Webhook

\* Every step of the system does one of these to the money, or nothing.
LEMMA NextMoney ==
  ASSUME Sound(db), [Next]_vars PROVE MoneyStep(db, db') \/ Corrected(db, db')
<1>1. ASSUME NEW p \in Pids, PaymentAbandoned(p) PROVE MoneyStep(db, db')
  BY <1>1, FailHarmless DEF PaymentAbandoned, MoneyStep, Sound
<1>2. CASE UNCHANGED vars
  BY <1>2 DEF vars, MoneyStep, Harmless, Sound
<1> QED BY <1>1, <1>2, PosMoney, SelfOrderMoney, FinanceMoney, WebhookMoney DEF Next

LEMMA InitSound == Init => Sound(db)
<1> SUFFICES ASSUME Init PROVE Sound(db)
  OBVIOUS
<1>1. PICK t \in Totals : db = NewOrder(t)
  BY DEF Init
<1>2. db.order \in Orders /\ db.order.pay = "unpaid"
  BY <1>1 DEF NewOrder, Orders, Tender
<1>3. /\ db.pay \in [Pids -> Payments]
      /\ \A p \in Pids : db.pay[p].status = "absent"
  BY <1>1, LedgerAssumption DEF NewOrder, Payment, Payments, PaymentStatus, Tender
<1>4. IsLedger(db)
  BY <1>1, <1>2, <1>3 DEF NewOrder, IsLedger
<1>5. Live(db) = {} /\ TakenOf(db) = {}
  BY <1>3 DEF Live, TakenOf, With
<1> QED BY <1>2, <1>4, <1>5 DEF Sound, OneLive, PaidTaken, PaidIsClosed

LEMMA SoundInvariant == Spec => []Sound(db)
<1>1. Sound(db) /\ [Next]_vars => Sound(db)'
  <2>1. SUFFICES ASSUME Sound(db), [Next]_vars PROVE Sound(db')
    BY DEF Sound, IsLedger, OneLive, PaidTaken, PaidIsClosed, Live, TakenOf, With
  <2> QED BY <2>1, NextMoney, MoneyStepSound
<1> QED BY InitSound, <1>1, PTL DEF Spec

-----------------------------------------------------------------------------
(* The theorems.                                                           *)

\* Whoever starts a payment, cashier, guest or bank, and whatever was lost or
\* delivered twice: at most one payment of the order is live, so the unique index
\* on payments (uq_payments_order_active) has nothing to refuse.
THEOREM OneLivePaymentHolds == Spec => []OneLivePayment
<1>1. Sound(db) => OneLivePayment
  <2> SUFFICES ASSUME Sound(db) PROVE Cardinality(Live(db)) <= 1
    BY DEF OneLivePayment
  <2>1. CASE Live(db) = {}
    BY <2>1, FS_EmptySet
  <2>2. CASE Live(db) # {}
    <3>1. PICK p : Live(db) = {p}
      BY <2>2, LatestIn DEF Sound
    <3> QED BY <3>1, FS_Singleton
  <2> QED BY <2>1, <2>2
<1> QED BY SoundInvariant, <1>1, PTL

\* The orders row says paid exactly when a payments row took the money, and the
\* two agree on tender and amount after any sequence of confirmations, transfers,
\* corrections, refunds and edits of the bill.
THEOREM PaidMeansTakenHolds == Spec => []PaidMeansTaken
<1>1. Sound(db) => PaidMeansTaken
  BY DEF Sound, PaidTaken, PaidMeansTaken, TakenOf, Order
<1> QED BY SoundInvariant, <1>1, PTL

\* What module Settlement reads of a ledger.
Stage(d)    == IF With(d, "refunded") # {} THEN "returned"
               ELSE IF TakenOf(d) # {} THEN "taken" ELSE "due"
AmountOf(d) == IF TakenOf(d) = {} THEN 0 ELSE d.pay[Latest(TakenOf(d))].amount
BookedAs(d) == IF TakenOf(d) = {} THEN "none" ELSE d.pay[Latest(TakenOf(d))].method

LEMMA StageOfOne ==
  ASSUME NEW d, IsLedger(d), NEW p \in Pids, TakenOf(d) = {p}
  PROVE  /\ Stage(d) = IF With(d, "refunded") = {p} THEN "returned" ELSE "taken"
         /\ With(d, "completed") = {p} => Stage(d) = "taken"
         /\ AmountOf(d) = d.pay[p].amount
         /\ BookedAs(d) = d.pay[p].method /\ BookedAs(d) \in Tender
<1>1. Latest(TakenOf(d)) = p
  BY LatestOfOne
<1>2. d.pay[p].method \in Tender
  BY DEF IsLedger, Payments
<1>3. /\ With(d, "refunded") = {} \/ With(d, "refunded") = {p}
      /\ With(d, "completed") = {p} => With(d, "refunded") = {}
  BY DEF TakenOf, With
<1> QED BY <1>1, <1>2, <1>3 DEF Stage, AmountOf, BookedAs

LEMMA StageOfNone ==
  ASSUME NEW d, TakenOf(d) = {}
  PROVE  Stage(d) = "due" /\ AmountOf(d) = 0 /\ BookedAs(d) = "none"
BY DEF Stage, AmountOf, BookedAs, TakenOf

\* A step that neither takes, corrects nor returns leaves the settlement alone,
\* but for the bill while it is due.
LEMMA HarmlessSettlement ==
  ASSUME NEW d, NEW e, Sound(d), Harmless(d, e)
  PROVE  /\ Stage(e) = Stage(d) /\ AmountOf(e) = AmountOf(d)
         /\ BookedAs(e) = BookedAs(d) /\ e.order.total = d.order.total
<1>1. CASE TakenOf(d) = {}
  BY <1>1, StageOfNone DEF Harmless
<1>2. CASE TakenOf(d) # {}
  <2>1. PICK p \in Pids : TakenOf(d) = {p}
    <3>1. Latest(TakenOf(d)) \in TakenOf(d) /\ TakenOf(d) = {Latest(TakenOf(d))}
      BY <1>2, LatestIn, LiveParts DEF Sound
    <3> QED BY <3>1 DEF TakenOf, With
  <2>2. TakenOf(e) = {p} /\ e.pay[p] = d.pay[p] /\ IsLedger(e) /\ IsLedger(d)
    BY <2>1 DEF Harmless, Sound
  <2>3. With(e, "refunded") = {p} <=> With(d, "refunded") = {p}
    BY <2>1, <2>2 DEF TakenOf, With
  <2> QED BY <2>1, <2>2, <2>3, StageOfOne DEF Harmless
<1> QED BY <1>1, <1>2

\* Cashiers, guests, the bank and finance together settle the bill as module
\* Settlement says: OrderPayments implements it, every step a step or a stutter.
THEOREM ImplementsSettlement == Spec => SettlesOnce
<1>1. /\ Stage(db) = IF With(db, "refunded") # {} THEN "returned"
                     ELSE IF TakenBy # {} THEN "taken" ELSE "due"
      /\ AmountOf(db) = IF TakenBy = {} THEN 0 ELSE db.pay[Latest(TakenBy)].amount
      /\ BookedAs(db) = IF TakenBy = {} THEN "none" ELSE db.pay[Latest(TakenBy)].method
  BY DEF Stage, AmountOf, BookedAs, TakenBy, TakenOf
<1>2. Init => Money!Init
  <2> SUFFICES ASSUME Init PROVE Money!Init
    OBVIOUS
  <2>1. Order.total \in Totals
    BY InitSound DEF Sound, IsLedger, Orders, Order
  <2>2. With(db, "refunded") = {} /\ TakenBy = {}
    BY DEF Init, NewOrder, Payment, With, TakenBy
  <2> QED BY <2>1, <2>2 DEF Money!Init
<1>3. Sound(db) /\ [Next]_vars => [Money!Next]_(Money!settlement)
  <2> SUFFICES ASSUME Sound(db), [Next]_vars PROVE [Money!Next]_(Money!settlement)
    OBVIOUS
  <2>1. /\ Stage(db') = (IF With(db, "refunded") # {} THEN "returned"
                         ELSE IF TakenBy # {} THEN "taken" ELSE "due")'
        /\ AmountOf(db') = (IF TakenBy = {} THEN 0 ELSE db.pay[Latest(TakenBy)].amount)'
        /\ BookedAs(db') = (IF TakenBy = {} THEN "none" ELSE db.pay[Latest(TakenBy)].method)'
    BY DEF Stage, AmountOf, BookedAs, TakenBy, TakenOf, With, Latest
  <2>2. Sound(db') /\ IsLedger(db) /\ IsLedger(db') /\ Order' = db'.order
    BY NextMoney, MoneyStepSound DEF Sound, Order
  <2>3. CASE Harmless(db, db')
    <3>1. /\ Stage(db') = Stage(db) /\ AmountOf(db') = AmountOf(db)
          /\ BookedAs(db') = BookedAs(db) /\ db'.order.total = db.order.total
      BY <2>3, HarmlessSettlement
    <3> QED BY <1>1, <2>1, <3>1 DEF Money!settlement, Order
  <2>4. CASE Rebilled(db, db')
    <3>1. /\ Stage(db) = "due" /\ AmountOf(db) = 0 /\ BookedAs(db) = "none"
          /\ Stage(db') = "due" /\ AmountOf(db') = 0 /\ BookedAs(db') = "none"
      BY <2>4, StageOfNone DEF Rebilled
    <3>2. db'.order.total \in Totals
      BY <2>2 DEF IsLedger, Orders
    <3>3. Money!Rebill
      BY <1>1, <2>1, <3>1, <3>2 DEF Money!Rebill, Order
    <3> QED BY <3>3 DEF Money!Next
  <2>5. ASSUME TakenOf(db) = {}, NEW p \in Pids, Took(db, db', p)
        PROVE  Money!Next
    <3>1. Stage(db) = "due"
      BY <2>5, StageOfNone
    <3>2. /\ Stage(db') = "taken" /\ BookedAs(db') \in Tender
          /\ AmountOf(db') = db'.pay[p].amount /\ db'.pay[p].amount = db'.order.total
          /\ db'.order.total = db.order.total
      BY <2>2, <2>5, StageOfOne DEF Took, Sound, PaidTaken
    <3>3. Money!Take
      BY <1>1, <2>1, <3>1, <3>2 DEF Money!Take, Order
    <3> QED BY <3>3 DEF Money!Next
  <2>6. CASE Corrected(db, db')
    <3>1. /\ Stage(db) = "taken" /\ Stage(db') = "taken" /\ BookedAs(db') \in Tender
          /\ AmountOf(db') = AmountOf(db) /\ db'.order.total = db.order.total
      BY <2>2, <2>6, StageOfOne DEF Corrected
    <3>2. Money!Correct
      BY <1>1, <2>1, <3>1 DEF Money!Correct, Order
    <3> QED BY <3>2 DEF Money!Next
  <2>7. CASE Returned(db, db')
    <3>1. /\ Stage(db) = "taken" /\ Stage(db') = "returned" /\ BookedAs(db') = BookedAs(db)
          /\ AmountOf(db') = AmountOf(db) /\ db'.order.total = db.order.total
      BY <2>2, <2>7, StageOfOne DEF Returned
    <3>2. Money!Return
      BY <1>1, <2>1, <3>1 DEF Money!Return, Order
    <3> QED BY <3>2 DEF Money!Next
  <2> QED BY <2>3, <2>4, <2>5, <2>6, <2>7, NextMoney DEF MoneyStep
<1> QED BY SoundInvariant, <1>2, <1>3, PTL DEF Spec, SettlesOnce, Money!Spec

-----------------------------------------------------------------------------
(* Bank evidence.                                                          *)

\* Transfer e stands for the payment it is matched to.
Stands(e) ==
  /\ event[e].payment \in TakenOf(db)
  /\ db.pay[event[e].payment].method = "vietqr"
  /\ db.pay[event[e].payment].amount = event[e].amount

\* The inductive invariant of the evidence, beside Sound: only a filed transfer
\* names a payment, stands for it, and is the only one to.
EvidenceInv ==
  /\ event \in [Transfers -> EventRecord]
  /\ \A e \in Transfers : event[e].payment # NoPay => event[e].status = "processed" /\ Stands(e)
  /\ \A e, f \in Transfers : event[e].payment = event[f].payment /\ event[e].payment # NoPay => e = f

\* The money that was taken is still there, under the tender it was taken with.
LEMMA MoneyKept ==
  ASSUME NEW d, NEW e, MoneyStep(d, e), NEW p \in TakenOf(d)
  PROVE  /\ p \in TakenOf(e)
         /\ e.pay[p].method = d.pay[p].method /\ e.pay[p].amount = d.pay[p].amount
BY DEF MoneyStep, Harmless, Rebilled, Returned

\* The money moves on, and the events stay.
LEMMA MoneyEvidence ==
  ASSUME EvidenceInv, MoneyStep(db, db'), event' = event
  PROVE  EvidenceInv'
<1>1. ASSUME NEW e \in Transfers, event[e].payment # NoPay
      PROVE  Stands(e)'
  BY <1>1, MoneyKept DEF EvidenceInv, Stands
<1> QED BY <1>1 DEF EvidenceInv

\* A transfer that names no payment is written without naming one.
LEMMA UnmatchedEvidence ==
  ASSUME EvidenceInv, db' = db, NEW e, NEW x,
         e \in Transfers => x \in EventRecord /\ x.payment = NoPay,
         event' = [event EXCEPT ![e] = x]
  PROVE  EvidenceInv'
<1>1. event' \in [Transfers -> EventRecord]
  BY DEF EvidenceInv
<1>2. \A f \in Transfers : event'[f] = event[f] \/ event'[f].payment = NoPay
  BY DEF EvidenceInv
<1> QED BY <1>1, <1>2 DEF EvidenceInv, Stands

\* Transfer e is matched to payment p, which takes its amount by VietQR.
LEMMA MatchedEvidence ==
  ASSUME EvidenceInv, NEW e \in Transfers, NEW p \in Pids, event' = Link(e, p),
         p \in TakenOf(db'), db'.pay[p].method = "vietqr",
         db'.pay[p].amount = event[e].amount,
         \A f \in Transfers \ {e} : event[f].payment # NoPay =>
           db' = db /\ event[f].payment # p
  PROVE  EvidenceInv'
<1> DEFINE x == [event[e] EXCEPT !.status = "processed", !.code = "none", !.payment = p]
<1>1. event[e] \in EventRecord
  BY DEF EvidenceInv
<1>2. x \in EventRecord /\ x.status = "processed" /\ x.payment = p
        /\ x.amount = event[e].amount
  BY <1>1 DEF EventRecord
<1>3. event' = [event EXCEPT ![e] = x]
  BY DEF Link
<1> HIDE DEF x
<1>4. /\ event' \in [Transfers -> EventRecord] /\ event'[e] = x
      /\ \A f \in Transfers \ {e} : event'[f] = event[f]
  BY <1>2, <1>3 DEF EvidenceInv
<1>5. ASSUME NEW f \in Transfers, event'[f].payment # NoPay
      PROVE  event'[f].status = "processed" /\ Stands(f)'
  <2>1. CASE f = e
    BY <1>2, <1>4, <2>1 DEF Stands
  <2>2. CASE f # e
    BY <1>4, <1>5, <2>2 DEF EvidenceInv, Stands
  <2> QED BY <2>1, <2>2
<1>6. ASSUME NEW f \in Transfers, NEW g \in Transfers,
             event'[f].payment = event'[g].payment, event'[f].payment # NoPay
      PROVE  f = g
  BY <1>2, <1>4, <1>6 DEF EvidenceInv
<1> QED BY <1>4, <1>5, <1>6 DEF EvidenceInv

LEMMA SettledEvidence ==
  ASSUME Sound(db), EvidenceInv, NEW e \in Transfers, event[e].amount = db.order.total,
         CanConfirm(db), NEW p \in Target(db), Settled(e, p),
         With(db, "completed") # {} => \A f \in Transfers \ {e} : ~Matched(f)
  PROVE  EvidenceInv'
<1>1. p \in Pids /\ Live(db) \subseteq {p}
  BY TargetFits
<1>2. db' = ConfirmSepay(db, p) /\ event' = Link(e, p)
  BY DEF Settled
<1>3. CASE db.pay[p].status = "completed"
  <2>1. Live(db) # {} /\ p = Latest(Live(db)) /\ p \in With(db, "completed")
    BY <1>1, <1>3, TargetFits DEF Live, With
  <2>2. db.pay[p].method = "vietqr" /\ db.pay[p].amount = event[e].amount
    BY <2>1 DEF CanConfirm
  <2>3. db' = db /\ p \in TakenOf(db)
    BY <1>2, <1>3, <2>1 DEF ConfirmSepay, TakenOf
  <2>4. \A f \in Transfers \ {e} : event[f].payment = NoPay
    BY <2>1 DEF EvidenceInv, Matched
  <2> QED BY <1>1, <1>2, <2>2, <2>3, <2>4, MatchedEvidence
<1>4. CASE db.pay[p].status # "completed"
  <2>1. db.order.pay # "paid"
    BY <1>4, TargetFits DEF CanConfirm
  <2>2. \A f \in Transfers : event[f].payment = NoPay
    BY <2>1, UnpaidTakesNothing DEF EvidenceInv, Stands
  <2>3. Took(db, db', p) /\ db'.pay[p].method = "vietqr"
    BY <1>1, <1>2, <1>4, ConfirmTakes
  <2>4. p \in TakenOf(db') /\ db'.pay[p].amount = event[e].amount
    BY <2>3 DEF Took, Sound, PaidTaken
  <2> QED BY <1>1, <1>2, <2>2, <2>3, <2>4, MatchedEvidence
<1> QED BY <1>3, <1>4

LEMMA ReconcileEvidence ==
  ASSUME Sound(db), EvidenceInv, NEW e, NEW ok, Reconcile(e, ok)
  PROVE  EvidenceInv'
<1>1. CASE e \notin Transfers
  <2>1. event' = event
    BY <1>1 DEF EvidenceInv, Reconcile, Settled, Link
  <2> QED BY <2>1, ReconcileMoney, MoneyEvidence
<1>2. CASE e \in Transfers
  <2>1. event[e] \in EventRecord /\ (event[e].status # "processed" => event[e].payment = NoPay)
    BY <1>2 DEF EvidenceInv
  <2>2. CASE UNCHANGED <<db, event>>
    BY <2>2, ReconcileMoney, MoneyEvidence
  <2>3. CASE /\ event[e].status # "processed"
             /\ event' = [event EXCEPT ![e].status = "processed", ![e].code = Verdict(db, e)]
             /\ db' = db
    <3> DEFINE x == [event[e] EXCEPT !.status = "processed", !.code = Verdict(db, e)]
    <3>1. x \in EventRecord /\ x.payment = NoPay
      BY <2>1, <2>3 DEF EventRecord, Verdict
    <3>2. event' = [event EXCEPT ![e] = x]
      BY <2>3
    <3> HIDE DEF x
    <3> QED BY <2>3, <3>1, <3>2, UnmatchedEvidence
  <2>4. CASE /\ event' = [event EXCEPT ![e].status = "failed", ![e].payment = NoPay]
             /\ db' = db
    <3> DEFINE x == [event[e] EXCEPT !.status = "failed", !.payment = NoPay]
    <3>1. x \in EventRecord /\ x.payment = NoPay
      BY <2>1 DEF EventRecord
    <3>2. event' = [event EXCEPT ![e] = x]
      BY <2>4
    <3> HIDE DEF x
    <3> QED BY <2>4, <3>1, <3>2, UnmatchedEvidence
  <2>5. CASE /\ Verdict(db, e) = "none"
             /\ \E p \in Target(db) : Settled(e, p)
    <3>1. /\ CanConfirm(db) /\ event[e].amount = db.order.total
          /\ With(db, "completed") # {} => \A f \in Transfers \ {e} : ~Matched(f)
      BY <2>5 DEF Verdict, Overpaid
    <3> QED BY <1>2, <2>5, <3>1, SettledEvidence
  <2> QED BY <2>2, <2>3, <2>4, <2>5 DEF Reconcile
<1> QED BY <1>1, <1>2

LEMMA FinanceEvidence ==
  ASSUME Sound(db), EvidenceInv, Finance PROVE EvidenceInv'
<1>1. ASSUME NEW p \in Pids, NEW m \in Tender, MethodCorrected(p, m)
      PROVE  EvidenceInv'
  <2>1. /\ p \in With(db, "completed") /\ db.pay[p].method # m
        /\ m = "cash" => ~HasEvidence(p)
        /\ db' = SetMethod(db, p, m) /\ event' = event
    BY <1>1 DEF MethodCorrected, bank
  <2>2. TakenOf(db) = {p}
    BY <2>1, CompletedAlone
  <2>3. ASSUME NEW e \in Transfers, event[e].payment # NoPay
        PROVE  FALSE
    <3>1. event[e].payment = p /\ db.pay[p].method = "vietqr"
      BY <2>2, <2>3 DEF EvidenceInv, Stands
    <3>2. HasEvidence(p) /\ m = "cash"
      BY <2>1, <3>1 DEF HasEvidence, Tender
    <3> QED BY <2>1, <3>2
  <2> QED BY <2>1, <2>3 DEF EvidenceInv
<1>2. ASSUME NEW p \in Pids, PaymentReversed(p) PROVE EvidenceInv'
  BY <1>2, ReverseReturns, MoneyEvidence DEF PaymentReversed, bank, MoneyStep
<1>3. ASSUME NEW e \in Transfers, NEW p \in Pids, TransferLinked(e, p)
      PROVE  EvidenceInv'
  <2>1. /\ p \in TakenOf(db) /\ db.pay[p].method = "vietqr"
        /\ db.pay[p].amount = event[e].amount /\ MatchedTo(p) = {}
        /\ event' = Link(e, p) /\ db' = db
    BY <1>3 DEF TransferLinked, TakenOf
  <2>2. \A f \in Transfers : event[f].payment # p
    BY <2>1 DEF EvidenceInv, MatchedTo, Matched, Pids, NoPay
  <2> QED BY <2>1, <2>2, MatchedEvidence
<1>4. ASSUME NEW e \in Transfers, NEW p \in Pids, TransferReplayed(e, p)
      PROVE  EvidenceInv'
  <2>1. /\ p \in PendingQr(db) /\ CanConfirm(db) /\ Settled(e, p)
        /\ event[e].amount = db.order.total
        /\ \A f \in Transfers \ {e} : ~Matched(f)
    BY <1>4 DEF TransferReplayed, Order
  <2>2. p \in Live(db)
    BY <2>1, LiveParts
  <2>3. p \in Target(db)
    BY <2>2, LatestIn DEF Sound, OneLive, Target
  <2> QED BY <2>1, <2>3, SettledEvidence
<1> QED BY <1>1, <1>2, <1>3, <1>4 DEF Finance

LEMMA WebhookEvidence ==
  ASSUME Sound(db), EvidenceInv, Webhook PROVE EvidenceInv'
<1>1. ASSUME NEW e \in Transfers, NEW a \in Totals \ {0}, NEW c \in BOOLEAN,
             TransferSent(e, a, c)
      PROVE  EvidenceInv'
  <2> DEFINE x == [event[e] EXCEPT !.status = "sent", !.amount = a, !.coded = c]
  <2>1. event[e] \in EventRecord /\ event[e].status = "none" /\ db' = db
    BY <1>1 DEF TransferSent, EvidenceInv
  <2>2. x \in EventRecord /\ x.payment = event[e].payment
    BY <2>1 DEF EventRecord
  <2>3. x.payment = NoPay
    BY <2>1, <2>2 DEF EvidenceInv
  <2>4. event' = [event EXCEPT ![e] = x]
    BY <1>1 DEF TransferSent
  <2> HIDE DEF x
  <2> QED BY <2>1, <2>2, <2>3, <2>4, UnmatchedEvidence
<1>2. ASSUME NEW h \in Hooks, NEW e \in Transfers, Delivered(h, e)
      PROVE  EvidenceInv'
  <2> DEFINE x == [event[e] EXCEPT !.status = "received"]
  <2>1. event[e] \in EventRecord /\ db' = db
    BY <1>2 DEF Delivered, EvidenceInv
  <2>2. CASE event' = event
    BY <2>1, <2>2 DEF EvidenceInv, Stands
  <2>3. CASE event[e].status = "sent" /\ event' = [event EXCEPT ![e] = x]
    <3>1. x \in EventRecord /\ x.payment = event[e].payment
      BY <2>1 DEF EventRecord
    <3>2. x.payment = NoPay
      BY <2>3, <3>1 DEF EvidenceInv
    <3> HIDE DEF x
    <3> QED BY <2>1, <2>3, <3>1, <3>2, UnmatchedEvidence
  <2> QED BY <1>2, <2>2, <2>3 DEF Delivered
<1>3. ASSUME NEW h \in Hooks, NEW ok \in BOOLEAN, NEW answered \in BOOLEAN,
             HookReconciles(h, ok, answered)
      PROVE  EvidenceInv'
  BY <1>3, ReconcileEvidence DEF HookReconciles
<1>4. ASSUME NEW h \in Hooks, HookCallFails(h) \/ HookReplies(h) \/ HookDies(h)
      PROVE  EvidenceInv'
  <2>1. db' = db /\ event' = event
    BY <1>4 DEF HookCallFails, HookReplies, HookDies, bank
  <2> QED BY <2>1 DEF EvidenceInv, Stands
<1>5. ASSUME NEW h \in Hooks, HookMarksFailed(h) PROVE EvidenceInv'
  <2> DEFINE e == hook[h].event
             x == [event[e] EXCEPT !.status = "failed", !.code = "none", !.payment = NoPay]
  <2>1. e \in Transfers => x \in EventRecord /\ x.payment = NoPay
    <3>1. e \in Transfers => event[e] \in EventRecord
      BY DEF EvidenceInv
    <3> QED BY <3>1 DEF EventRecord
  <2>2. event' = [event EXCEPT ![e] = x] /\ db' = db
    BY <1>5 DEF HookMarksFailed, EvidenceInv
  <2> HIDE DEF x
  <2> QED BY <2>1, <2>2, UnmatchedEvidence
<1> QED BY <1>1, <1>2, <1>3, <1>4, <1>5 DEF Webhook

LEMMA NextEvidence ==
  ASSUME Sound(db), EvidenceInv, [Next]_vars PROVE EvidenceInv'
<1>1. CASE Pos
  <2>1. event' = event
    BY <1>1 DEF Pos, CheckOrder, CallsOver, CashConfirmed, VietQrCreated, PendingCancelled,
                PaidOrderRefunded, BillEdited, OrderCancelled, bank
  <2> QED BY <1>1, <2>1, PosMoney, MoneyEvidence
<1>2. CASE SelfOrder
  <2>1. event' = event
    BY <1>2 DEF SelfOrder, GuestRequests, GuestCancelsVietQr, StaffCancelsRequest,
                RequestExpired, RequestDue, bank
  <2> QED BY <1>2, <2>1, SelfOrderMoney, MoneyEvidence
<1>3. ASSUME NEW p \in Pids, PaymentAbandoned(p) PROVE EvidenceInv'
  BY <1>3, FailHarmless, MoneyEvidence DEF PaymentAbandoned, bank, MoneyStep, Sound
<1>4. CASE UNCHANGED vars
  BY <1>4 DEF vars, EvidenceInv, Stands
<1> QED BY <1>1, <1>2, <1>3, <1>4, FinanceEvidence, WebhookEvidence DEF Next

LEMMA EvidenceInvariant == Spec => [](Sound(db) /\ EvidenceInv)
<1>1. Init => EvidenceInv
  BY LedgerAssumption DEF Init, EvidenceInv, EventRecord, NoPay
<1>2. Sound(db) /\ EvidenceInv /\ [Next]_vars => EvidenceInv'
  BY NextEvidence
<1> QED BY SoundInvariant, <1>1, <1>2, PTL DEF Spec

\* A transfer that is filed under a payment stands for it, in amount and tender,
\* and no second one does, whatever was delivered twice, answered too late, linked
\* or replayed by finance, corrected or refunded.
THEOREM EvidenceAlwaysHolds == Spec => []EvidenceHolds
<1>1. EvidenceInv => EvidenceHolds
  BY DEF EvidenceInv, EvidenceHolds, Matched, MatchedTo, Stands, TakenOf
<1> QED BY EvidenceInvariant, <1>1, PTL
=============================================================================
