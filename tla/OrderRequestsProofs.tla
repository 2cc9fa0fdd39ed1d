------------------------ MODULE OrderRequestsProofs ------------------------
(***************************************************************************)
(* The guest's side of an order, for any number of payments, requests,     *)
(* transfers and activations: a code that may be scanned is good, what the *)
(* phone shows as paid was paid, and the trigger on the requests table has *)
(* nothing to refuse.                                                      *)
(*                                                                         *)
(* OrderPaymentsProofs shows what the functions do to the money (Sound)    *)
(* whatever the requests are.  Here the requests join: ReqSound says how   *)
(* the active request, of which there is one at most, hangs together with  *)
(* the order and its payment.  A function that only closes requests        *)
(* (Closes) keeps that; the others are taken one by one.  The last section  *)
(* adds the types of the other variables.                                  *)
(***************************************************************************)
EXTENDS OrderPaymentsProofs, WellFoundedInduction

OneActive(d) == \A r, s \in Active(d) : r = s

\* An active request waits for an open bill, a VietQR request with its payment.
Waits(d) ==
  \A r \in Active(d) :
    /\ d.order.status = "open" /\ d.order.pay # "paid"
    /\ d.req[r].method = "vietqr" => d.req[r].payment \in PendingQr(d)
    /\ d.req[r].method = "cash_call" => d.req[r].payment = NoPay

\* The code shows what is due.
Fresh(d) ==
  \A r \in ActiveQr(d) : d.order.total > 0 =>
    /\ d.pay[d.req[r].payment].amount = d.order.total
    /\ d.req[r].amount = d.order.total

\* A request that is done names what was taken; the guest cancels VietQR only.
Past(d) ==
  \A r \in Rids :
    /\ d.req[r].status = "completed" => d.req[r].payment \in TakenOf(d)
    /\ d.req[r].byGuest => d.req[r].method = "vietqr"

ReqTyped(d) == d.req \in [Rids -> Requests]

\* The inductive invariant of the requests, beside Sound; Bound but for Fresh.
ReqBound(d) == ReqTyped(d) /\ OneActive(d) /\ Waits(d) /\ Past(d)
ReqSound(d) == ReqBound(d) /\ Fresh(d)

\* What one request may go through in a call: it stays (its amount and its due
\* time aside), it ends, or the late payment of a cancelled one is recorded.
Stays(a, b) ==
  /\ b.status = a.status /\ b.payment = a.payment
  /\ b.method = a.method /\ b.byGuest = a.byGuest
Drops(a, b) ==
  /\ a.status = "active" /\ b.status \in {"cancelled", "expired"}
  /\ b.payment = a.payment /\ b.method = a.method
  /\ b.byGuest => a.method = "vietqr"
IsPaid(a, b) ==
  /\ b.status = "completed" /\ b.payment # NoPay
  /\ b.method = a.method /\ b.byGuest = a.byGuest
  /\ \/ a.status = "active" /\ a.payment \in {NoPay, b.payment}
     \/ a.status = "cancelled" /\ a.method = "vietqr" /\ a.byGuest

\* From d to e requests are dropped, and no other is touched.
Closes(d, e) ==
  /\ ReqTyped(e)
  /\ \A r \in Rids : e.req[r] = d.req[r] \/ Drops(d.req[r], e.req[r])

\* What the trigger on the table lets pass.
Allowed(d, e) ==
  \A r \in Rids : d.req[r].status # "absent" =>
    \/ Stays(d.req[r], e.req[r])
    \/ Drops(d.req[r], e.req[r])
    \/ IsPaid(d.req[r], e.req[r])

\* What is still scanned in e has the payment it had in d.
Spares(d, e) ==
  \A r \in ActiveQr(e) : e.pay[e.req[r].payment] = d.pay[e.req[r].payment]

-----------------------------------------------------------------------------
(* Closing.                                                                *)

LEMMA ReqIs ==
  ASSUME NEW d, IsLedger(d), NEW x
  PROVE  [d EXCEPT !.req = x].req = x
<1>1. [d EXCEPT !.req = x] = [order |-> d.order, pay |-> d.pay, req |-> x]
  BY DEF IsLedger
<1> QED BY <1>1

LEMMA ClosesSelf ==
  ASSUME NEW d, NEW e, ReqTyped(d), e.req = d.req PROVE Closes(d, e)
BY DEF Closes, ReqTyped

LEMMA ClosesTrans ==
  ASSUME NEW d, NEW e, NEW f, Closes(d, e), Closes(e, f) PROVE Closes(d, f)
<1>1. ReqTyped(f)
  BY DEF Closes
<1>2. ASSUME NEW r \in Rids PROVE f.req[r] = d.req[r] \/ Drops(d.req[r], f.req[r])
  <2>1. e.req[r] = d.req[r] \/ Drops(d.req[r], e.req[r])
    BY DEF Closes
  <2>2. f.req[r] = e.req[r] \/ Drops(e.req[r], f.req[r])
    BY DEF Closes
  <2> QED BY <2>1, <2>2 DEF Drops
<1> QED BY <1>1, <1>2 DEF Closes

LEMMA ClosesActive ==
  ASSUME NEW d, NEW e, Closes(d, e)
  PROVE  /\ Active(e) \subseteq Active(d)
         /\ \A r \in Active(e) : e.req[r] = d.req[r]
BY DEF Closes, Active, Drops

LEMMA ClosesAllowed ==
  ASSUME NEW d, NEW e, Closes(d, e) PROVE Allowed(d, e)
BY DEF Closes, Allowed, Stays

\* Nothing was taken, nothing new is active, and what is scanned stays good.
LEMMA ClosesSound ==
  ASSUME NEW d, NEW e, ReqSound(d), Harmless(d, e), Closes(d, e), Spares(d, e)
  PROVE  ReqSound(e)
<1>1. Active(e) \subseteq Active(d) /\ \A r \in Active(e) : e.req[r] = d.req[r]
  BY ClosesActive
<1>2. ReqTyped(e) /\ OneActive(e)
  BY <1>1 DEF Closes, OneActive, ReqSound, ReqBound
<1>3. ASSUME NEW r \in Active(e)
      PROVE  /\ e.order.status = "open" /\ e.order.pay # "paid"
             /\ e.req[r].method = "vietqr" =>
                  /\ e.req[r].payment \in PendingQr(e)
                  /\ e.pay[e.req[r].payment] = d.pay[e.req[r].payment]
             /\ e.req[r].method = "cash_call" => e.req[r].payment = NoPay
  <2>1. /\ d.order.status = "open" /\ d.order.pay # "paid"
        /\ d.req[r].method = "vietqr" => d.req[r].payment \in PendingQr(d)
        /\ d.req[r].method = "cash_call" => d.req[r].payment = NoPay
    BY <1>1 DEF ReqSound, ReqBound, Waits
  <2>2. e.order.status = "open" /\ e.order.pay # "paid"
    BY <2>1 DEF Harmless
  <2>3. ASSUME e.req[r].method = "vietqr"
        PROVE  /\ e.req[r].payment \in PendingQr(e)
               /\ e.pay[e.req[r].payment] = d.pay[e.req[r].payment]
    <3>1. e.pay[e.req[r].payment] = d.pay[e.req[r].payment]
      BY <2>3 DEF Spares, ActiveQr
    <3> QED BY <1>1, <2>1, <2>3, <3>1 DEF PendingQr, With
  <2> QED BY <1>1, <2>1, <2>2, <2>3
<1>4. Fresh(e)
  BY <1>1, <1>3 DEF ReqSound, Fresh, ActiveQr, Harmless
<1>5. ASSUME NEW r \in Rids
      PROVE  /\ e.req[r].status = "completed" => e.req[r].payment \in TakenOf(e)
             /\ e.req[r].byGuest => e.req[r].method = "vietqr"
  <2>1. e.req[r] = d.req[r] \/ Drops(d.req[r], e.req[r])
    BY DEF Closes
  <2>2. /\ d.req[r].status = "completed" => d.req[r].payment \in TakenOf(d)
        /\ d.req[r].byGuest => d.req[r].method = "vietqr"
    BY DEF ReqSound, ReqBound, Past
  <2> QED BY <2>1, <2>2 DEF Drops, Harmless
<1> QED BY <1>2, <1>3, <1>4, <1>5 DEF ReqSound, ReqBound, Waits, Past

LEMMA CloseCloses ==
  ASSUME NEW d, IsLedger(d), ReqTyped(d), NEW R, R \subseteq Active(d),
         NEW s \in {"cancelled", "expired"}, \A r \in R : d.req[r].byGuest => d.req[r].method = "vietqr"
  PROVE  /\ Closes(d, Close(d, R, s))
         /\ \A r \in R : Close(d, R, s).req[r] = [d.req[r] EXCEPT !.status = s]
         /\ \A r \in Rids \ R : Close(d, R, s).req[r] = d.req[r]
         /\ Active(Close(d, R, s)) = Active(d) \ R
<1> DEFINE x == [r \in Rids |-> IF r \in R THEN [d.req[r] EXCEPT !.status = s] ELSE d.req[r]]
           e == Close(d, R, s)
<1>1. e.req = x
  BY ReqIs DEF Close
<1>2. \A r \in Rids : d.req[r] \in Requests
  BY DEF ReqTyped
<1>3. R \subseteq Rids /\ \A r \in R : d.req[r].status = "active"
  BY DEF Active
<1>4. ASSUME NEW r \in R
      PROVE  /\ x[r] \in Requests /\ x[r] = [d.req[r] EXCEPT !.status = s]
             /\ Drops(d.req[r], x[r])
  BY <1>2, <1>3 DEF Drops, Requests, RequestStatus
<1>5. \A r \in Rids \ R : x[r] = d.req[r] /\ x[r] \in Requests
  BY <1>2
<1>6. x \in [Rids -> Requests]
  BY <1>3, <1>4, <1>5
<1> HIDE DEF x, e
<1>7. Closes(d, e)
  BY <1>1, <1>4, <1>5, <1>6 DEF Closes, ReqTyped
<1>8. Active(e) = Active(d) \ R
  <2>1. \A r \in R : e.req[r].status # "active"
    BY <1>1, <1>4 DEF Drops
  <2>2. \A r \in Rids \ R : e.req[r] = d.req[r]
    BY <1>1, <1>5
  <2> QED BY <2>1, <2>2 DEF Active
<1> QED BY <1>1, <1>3, <1>4, <1>5, <1>7, <1>8 DEF e

-----------------------------------------------------------------------------
(* Functions that only drop requests.                                      *)

\* An order that is not paid: what is active is dropped with it, or stays.
LEMMA SyncUnpaid ==
  ASSUME NEW d, IsLedger(d), ReqTyped(d), Past(d), d.order.pay # "paid"
  PROVE  /\ Closes(d, SyncFromOrder(d))
         /\ d.order.status # "open" => Active(SyncFromOrder(d)) = {}
<1> DEFINE e == Close(d, Active(d), "cancelled")
<1>1. SyncFromOrder(d) = IF d.order.status = "open" THEN d ELSE e
  BY DEF SyncFromOrder
<1>2. Closes(d, e) /\ Active(e) = {}
  BY CloseCloses DEF Past, Active
<1> QED BY <1>1, <1>2, ClosesSelf

\* Without an active request there is nothing to do.
LEMMA SyncIdle ==
  ASSUME NEW d, IsLedger(d), ReqTyped(d), Active(d) = {}
  PROVE  SyncFromOrder(d).req = d.req
<1>1. ASSUME NEW R, R = {}, NEW s
      PROVE  Close(d, R, s).req = d.req
  BY <1>1, ReqIs DEF Close, ReqTyped
<1>2. ASSUME NEW R, R = {}, NEW T, T = {}, NEW p, NEW s
      PROVE  Close(Settle(d, R, p), T, s).req = d.req
  <2> DEFINE c == Settle(d, R, p)
  <2>1. ReqOnly(d, c)
    BY SettleClose
  <2>2. c.req = d.req
    BY <1>2, ReqIs DEF Settle, ReqTyped
  <2> HIDE DEF c
  <2>3. Close(c, T, s).req = [r \in Rids |-> c.req[r]]
    BY <1>2, <2>1, ReqIs DEF Close, ReqOnly
  <2>4. Close(c, T, s).req = d.req
    BY <2>2, <2>3 DEF ReqTyped
  <2> QED BY <2>4 DEF c
<1>3. \A S : {r \in Active(d) : r \in S} = {} /\ Active(d) \ S = {}
  OBVIOUS
<1>4. {r \in Active(d) : TenderOf(d.req[r].method) =
                           d.pay[Latest(With(d, "completed"))].method} = {}
  OBVIOUS
<1> QED BY <1>1, <1>2, <1>3, <1>4 DEF SyncFromOrder

LEMMA UpdateUnpaid ==
  ASSUME NEW d, IsLedger(d), ReqTyped(d), Past(d), NEW o \in Orders, o.pay # "paid"
  PROVE  /\ Closes(d, UpdateOrder(d, o))
         /\ o.status # "open" /\ o.status # d.order.status => Active(UpdateOrder(d, o)) = {}
         /\ o.status = "open" => UpdateOrder(d, o).req = d.req
<1> DEFINE e == [d EXCEPT !.order = o]
<1>1. IsLedger(e) /\ e.order = o /\ e.pay = d.pay
  BY OrderChange
<1>2. e.req = d.req
  BY DEF IsLedger
<1>3. UpdateOrder(d, o) = IF o.status # d.order.status \/ o.pay # d.order.pay
                            THEN SyncFromOrder(e) ELSE e
  BY DEF UpdateOrder
<1>4. ReqTyped(e) /\ Past(e) /\ Closes(d, e)
  BY <1>1, <1>2, ClosesSelf DEF ReqTyped, Past, TakenOf, With
<1> HIDE DEF e
<1>5. Closes(e, SyncFromOrder(e))
      /\ (o.status # "open" => Active(SyncFromOrder(e)) = {})
  BY <1>1, <1>4, SyncUnpaid
<1>6. o.status = "open" => SyncFromOrder(e) = e
  BY <1>1 DEF SyncFromOrder
<1> QED BY <1>2, <1>3, <1>4, <1>5, <1>6, ClosesTrans

LEMMA ClosesPast ==
  ASSUME NEW d, NEW e, Past(d), Closes(d, e), TakenOf(e) = TakenOf(d) PROVE Past(e)
BY DEF Past, Closes, Drops

LEMMA ResetCloses ==
  ASSUME NEW d, IsLedger(d), ReqTyped(d), Past(d)
  PROVE  /\ Closes(d, ResetOrder(d)) /\ ResetOrder(d).pay = d.pay
         /\ Closes(d, ResetIfNothingPends(d)) /\ ResetIfNothingPends(d).pay = d.pay
<1> DEFINE o == [d.order EXCEPT !.pay = "unpaid", !.method = "none"]
<1>1. o \in Orders /\ o.pay = "unpaid"
  BY DEF IsLedger, Orders
<1>2. ResetOrder(d) = UpdateOrder(d, o)
  BY DEF ResetOrder
<1> HIDE DEF o
<1>3. Closes(d, ResetOrder(d)) /\ ResetOrder(d).pay = d.pay
  BY <1>1, <1>2, UpdateUnpaid, UpdateOrderIs
<1> QED BY <1>3, ClosesSelf DEF ResetIfNothingPends

\* With a payment that fails, what waits for it is cancelled.
LEMMA FailCloses ==
  ASSUME NEW d, IsLedger(d), ReqTyped(d), Past(d), NEW p \in With(d, "pending")
  PROVE  LET e == FailPayment(d, p)
         IN  /\ Closes(d, e)
             /\ \A r \in Active(e) : e.req[r].payment # p
             /\ \A x \in Pids \ {p} : e.pay[x] = d.pay[x]
<1> DEFINE q == [d.pay[p] EXCEPT !.status = "failed"]
           e == [d EXCEPT !.pay[p] = q]
           hit == {r \in Active(e) : e.req[r].payment = p}
           f == Close(e, hit, "cancelled")
           g == ResetIfNothingPends(f)
<1>1. p \in Pids /\ d.pay[p] \in Payments /\ d.pay[p].status = "pending"
  BY DEF With, IsLedger
<1>2. q \in Payments /\ q.status = "failed"
  BY <1>1 DEF Payments, PaymentStatus
<1>3. e.req = d.req /\ FailPayment(d, p) = IF hit = {} THEN e ELSE g
  BY DEF FailPayment, IsLedger
<1> HIDE DEF q
<1>4. /\ IsLedger(e) /\ e.order = d.order
      /\ e.pay[p] = q /\ \A x \in Pids \ {p} : e.pay[x] = d.pay[x]
  BY <1>1, <1>2, PayChange
<1> HIDE DEF e
<1>5. TakenOf(e) = TakenOf(d)
  BY <1>1, <1>2, <1>4 DEF TakenOf, With
<1>6. ReqTyped(e) /\ Past(e) /\ Closes(d, e)
  BY <1>3, <1>5, ClosesSelf DEF ReqTyped, Past
<1>7. ReqOnly(e, f)
  BY <1>4, SettleClose
<1>8. Closes(e, f) /\ Active(f) = Active(e) \ hit /\ \A r \in Active(f) : f.req[r] = e.req[r]
  <2>1. hit \subseteq Active(e) /\ \A r \in hit : e.req[r].byGuest => e.req[r].method = "vietqr"
    BY <1>6 DEF Past, Active
  <2>2. Closes(e, f) /\ Active(f) = Active(e) \ hit
    BY <1>4, <1>6, <2>1, CloseCloses
  <2> QED BY <2>2, ClosesActive
<1>9. \A r \in Active(f) : f.req[r].payment # p
  BY <1>8
<1> HIDE DEF f, hit
<1>10. IsLedger(f) /\ ReqTyped(f) /\ Past(f) /\ f.pay = e.pay
  BY <1>6, <1>7, <1>8, ClosesPast DEF ReqOnly, Closes, TakenOf, With
<1>11. Closes(f, g) /\ g.pay = f.pay
  BY <1>10, ResetCloses
<1>12. Closes(d, g) /\ \A r \in Active(g) : g.req[r].payment # p
  BY <1>6, <1>8, <1>9, <1>11, ClosesTrans, ClosesActive
<1>13. hit = {} => \A r \in Active(e) : e.req[r].payment # p
  BY DEF hit
<1> QED BY <1>3, <1>4, <1>6, <1>10, <1>11, <1>12, <1>13

LEMMA SparesAll ==
  ASSUME NEW d, NEW e, ReqSound(d), Closes(d, e), NEW p,
         \A r \in Active(e) : e.req[r].payment # p,
         \A x \in Pids \ {p} : e.pay[x] = d.pay[x]
  PROVE  Spares(d, e)
<1>1. ASSUME NEW r \in ActiveQr(e) PROVE e.req[r].payment \in Pids \ {p}
  <2>1. r \in Active(d) /\ e.req[r] = d.req[r] /\ e.req[r].payment # p
    BY ClosesActive DEF ActiveQr
  <2>2. d.req[r].payment \in PendingQr(d)
    BY <2>1 DEF ReqSound, ReqBound, Waits, ActiveQr
  <2> QED BY <2>1, <2>2 DEF PendingQr, With
<1> QED BY <1>1 DEF Spares

LEMMA FailSound ==
  ASSUME NEW d, Sound(d), ReqSound(d), NEW p \in With(d, "pending")
  PROVE  Closes(d, FailPayment(d, p)) /\ ReqSound(FailPayment(d, p))
<1> DEFINE e == FailPayment(d, p)
<1>1. Harmless(d, e)
  BY FailHarmless DEF Sound
<1>2. /\ Closes(d, e) /\ \A r \in Active(e) : e.req[r].payment # p
      /\ \A x \in Pids \ {p} : e.pay[x] = d.pay[x]
  BY FailCloses DEF Sound, ReqSound, ReqBound
<1> HIDE DEF e
<1>3. ReqSound(e)
  BY <1>1, <1>2, SparesAll, ClosesSound
<1> QED BY <1>2, <1>3 DEF e

LEMMA CancelPendingSound ==
  ASSUME NEW d, Sound(d), ReqSound(d), NEW p \in With(d, "pending")
  PROVE  Closes(d, CancelPending(d, p)) /\ ReqSound(CancelPending(d, p))
<1> DEFINE bound == {r \in Active(d) : d.req[r].payment = p}
           e == Close(d, bound, "cancelled")
           f == FailPayment(e, p)
           g == ResetOrder(f)
<1>1. IsLedger(d) /\ ReqTyped(d) /\ Past(d) /\ Harmless(d, CancelPending(d, p))
  BY CancelPendingHarmless DEF Sound, ReqSound, ReqBound
<1>2. ReqOnly(d, e)
  BY <1>1, SettleClose
<1>3. Closes(d, e)
  <2>1. bound \subseteq Active(d) /\ \A r \in bound : d.req[r].byGuest => d.req[r].method = "vietqr"
    BY <1>1 DEF Past, Active
  <2> QED BY <1>1, <2>1, CloseCloses
<1>4. CancelPending(d, p) = IF f.order.pay = "paid" THEN f ELSE g
  BY DEF CancelPending
<1> HIDE DEF e
<1>5. /\ IsLedger(e) /\ ReqTyped(e) /\ Past(e) /\ e.pay = d.pay
      /\ p \in With(e, "pending")
  BY <1>1, <1>2, <1>3, ClosesPast DEF ReqOnly, Closes, TakenOf, With
<1>6. /\ Closes(e, f) /\ \A r \in Active(f) : f.req[r].payment # p
      /\ \A x \in Pids \ {p} : f.pay[x] = e.pay[x]
      /\ Harmless(e, f)
  BY <1>5, FailCloses, FailHarmless
<1> HIDE DEF f
<1>7. IsLedger(f) /\ ReqTyped(f) /\ Past(f)
  BY <1>5, <1>6, ClosesPast DEF Harmless, Closes
<1>8. Closes(f, g) /\ g.pay = f.pay
  BY <1>7, ResetCloses
<1> HIDE DEF g
<1>9. ASSUME NEW h \in {f, g}
      PROVE  /\ Closes(d, h) /\ \A r \in Active(h) : h.req[r].payment # p
             /\ \A x \in Pids \ {p} : h.pay[x] = d.pay[x]
  <2>1. Closes(f, h) /\ h.pay = f.pay
    BY <1>7, <1>8, ClosesSelf
  <2>2. Closes(d, h)
    BY <1>3, <1>6, <2>1, ClosesTrans
  <2>3. \A r \in Active(h) : r \in Active(f) /\ h.req[r] = f.req[r]
    BY <2>1, ClosesActive
  <2> QED BY <1>5, <1>6, <2>1, <2>2, <2>3
<1>10. CancelPending(d, p) \in {f, g}
  BY <1>4
<1> QED BY <1>1, <1>9, <1>10, SparesAll, ClosesSound

\* An unpaid order has no completed payment.
LEMMA NoneTaken ==
  ASSUME NEW d, Sound(d), Active(d) # {}, ReqSound(d)
  PROVE  d.order.pay # "paid" /\ d.order.status = "open" /\ TakenOf(d) = {}
         /\ With(d, "completed") = {}
BY UnpaidTakesNothing DEF ReqSound, ReqBound, Waits, TakenOf

\* The request that ends was the only one.
LEMMA CloseRequestSound ==
  ASSUME NEW d, Sound(d), ReqSound(d), NEW r \in Active(d),
         NEW s \in {"cancelled", "expired"}, NEW b \in BOOLEAN,
         b => d.req[r].method = "vietqr", NEW found
  PROVE  LET g == CloseRequest(d, r, s, b, found)
         IN  Closes(d, g) /\ Active(g) = {} /\ ReqSound(g)
<1> DEFINE c == Close(d, {r}, s)
           x == [c.req[r] EXCEPT !.byGuest = b]
           e == [c EXCEPT !.req = [c.req EXCEPT ![r] = x]]
           failed == found \intersect With(e, "pending")
           f == IF failed = {} THEN e ELSE FailPayment(e, Latest(failed))
           g == CloseRequest(d, r, s, b, found)
<1>1. /\ IsLedger(d) /\ OneLive(d) /\ ReqTyped(d) /\ Past(d) /\ r \in Rids
      /\ Active(d) = {r} /\ d.req[r].status = "active" /\ d.req[r] \in Requests
  BY DEF Sound, ReqSound, ReqBound, OneActive, Active, ReqTyped
<1>2. d.order.pay # "paid" /\ With(d, "completed") = {}
  BY NoneTaken
<1>3. g \in {f, ResetIfNothingPends(f)}
  BY <1>2 DEF CloseRequest
<1>4. /\ ReqOnly(d, c) /\ c.req[r] = [d.req[r] EXCEPT !.status = s]
      /\ \A y \in Rids \ {r} : c.req[y] = d.req[y]
      /\ ReqTyped(c)
  BY <1>1, SettleClose, CloseCloses DEF Past, Closes
<1>5. Harmless(d, g)
  BY CloseRequestHarmless
<1> HIDE DEF c, g
<1>6. x \in Requests /\ Drops(d.req[r], x)
  BY <1>1, <1>4 DEF Requests, RequestStatus, Drops
<1> HIDE DEF x
<1>7. ReqOnly(c, e) /\ e.req = [c.req EXCEPT ![r] = x]
  BY <1>4, ReqChange, ReqIs DEF ReqOnly
<1> HIDE DEF e
<1>8. ReqTyped(e) /\ e.req[r] = x /\ \A y \in Rids \ {r} : e.req[y] = d.req[y]
  BY <1>1, <1>4, <1>6, <1>7 DEF ReqTyped
<1>9. Closes(d, e) /\ Active(e) = {}
  <2>1. Closes(d, e)
    BY <1>6, <1>8 DEF Closes
  <2>2. r \notin Active(e)
    BY <1>6, <1>8 DEF Active, Drops
  <2> QED BY <1>1, <2>1, <2>2, ClosesActive
<1>10. IsLedger(e) /\ OneLive(e) /\ Past(e) /\ e.pay = d.pay
  BY <1>1, <1>4, <1>7, <1>9, ClosesPast DEF ReqOnly, OneLive, Live, TakenOf, With
<1>11. failed # {} => Latest(failed) \in With(e, "pending")
  BY <1>10, LatestIn, LiveParts
<1> HIDE DEF failed
<1>12. Closes(e, f) /\ IsLedger(f) /\ Past(f)
  <2>1. CASE failed = {}
    BY <1>8, <1>10, <2>1, ClosesSelf
  <2>2. CASE failed # {}
    <3>1. f = FailPayment(e, Latest(failed))
      BY <2>2
    <3>2. Closes(e, f) /\ Harmless(e, f)
      BY <1>8, <1>10, <1>11, <2>2, <3>1, FailCloses, FailHarmless
    <3> QED BY <1>10, <3>2, ClosesPast DEF Harmless
  <2> QED BY <2>1, <2>2
<1> HIDE DEF f
<1>13. Closes(f, g)
  <2>1. ReqTyped(f)
    BY <1>12 DEF Closes
  <2> QED BY <1>3, <1>12, <2>1, ResetCloses, ClosesSelf
<1>14. Closes(d, g) /\ Active(g) = {}
  BY <1>9, <1>12, <1>13, ClosesTrans, ClosesActive
<1>15. Spares(d, g)
  BY <1>14 DEF Spares, ActiveQr
<1> QED BY <1>5, <1>14, <1>15, ClosesSound DEF g

LEMMA RequestEnds ==
  ASSUME NEW d, Sound(d), ReqSound(d), NEW r \in Active(d), NEW b \in BOOLEAN,
         b => d.req[r].method = "vietqr"
  PROVE  /\ Closes(d, CancelRequest(d, r, b)) /\ ReqSound(CancelRequest(d, r, b))
         /\ Closes(d, ExpireRequest(d, r)) /\ ReqSound(ExpireRequest(d, r))
BY CloseRequestSound DEF CancelRequest, ExpireRequest

LEMMA LatestActive ==
  ASSUME NEW d, OneActive(d), NEW S \in SUBSET Active(d), S # {}
  PROVE  Latest(S) \in S /\ S = {Latest(S)}
<1>1. PICK r : r \in S
  OBVIOUS
<1>2. S = {r} /\ r \in Rids
  BY <1>1 DEF OneActive, Active
<1>3. Latest({r}) = r
  BY <1>2 DEF Latest, Rids
<1> QED BY <1>2, <1>3

LEMMA DropSound ==
  ASSUME NEW d, Sound(d), ReqSound(d)
  PROVE  Closes(d, DropExpired(d)) /\ ReqSound(DropExpired(d)) /\ Sound(DropExpired(d))
<1>1. Closes(d, DropExpired(d)) /\ ReqSound(DropExpired(d))
  <2> DEFINE due == {r \in Active(d) : d.req[r].due}
  <2>1. CASE due = {}
    BY <2>1, ClosesSelf DEF DropExpired, ReqSound, ReqBound
  <2>2. CASE due # {}
    <3>1. Latest(due) \in Active(d)
      BY <2>2, LatestActive DEF ReqSound, ReqBound
    <3> QED BY <2>2, <3>1, CloseRequestSound DEF DropExpired, ExpireRequest
  <2> QED BY <2>1, <2>2
<1> QED BY <1>1, RequestsHarmless, HarmlessSound

-----------------------------------------------------------------------------
(* Functions that open a request or bring its code up to date.             *)

\* Requests stay what they were, amounts and due times aside.
AllStay(d, e) == ReqTyped(e) /\ \A r \in Rids : Stays(d.req[r], e.req[r])

LEMMA StayAllowed ==
  ASSUME NEW d, NEW e, NEW f, Allowed(d, e), AllStay(e, f) PROVE Allowed(d, f)
<1>1. ASSUME NEW r \in Rids, d.req[r].status # "absent"
      PROVE  \/ Stays(d.req[r], f.req[r])
             \/ Drops(d.req[r], f.req[r])
             \/ IsPaid(d.req[r], f.req[r])
  <2>1. \/ Stays(d.req[r], e.req[r])
        \/ Drops(d.req[r], e.req[r])
        \/ IsPaid(d.req[r], e.req[r])
    BY <1>1 DEF Allowed
  <2>2. Stays(e.req[r], f.req[r])
    BY DEF AllStay
  <2> QED BY <2>1, <2>2 DEF Stays, Drops, IsPaid
<1> QED BY <1>1 DEF Allowed

\* Requests that stay keep what binds them, if their payments stay pending.
LEMMA StayBound ==
  ASSUME NEW d, NEW e, ReqBound(d), AllStay(d, e),
         TakenOf(d) \subseteq TakenOf(e),
         Active(d) # {} => e.order.status = "open" /\ e.order.pay # "paid",
         Active(d) # {} => PendingQr(d) \subseteq PendingQr(e)
  PROVE  ReqBound(e) /\ Active(e) = Active(d) /\ ActiveQr(e) = ActiveQr(d)
<1>1. \A r \in Rids : /\ e.req[r].status = d.req[r].status
                       /\ e.req[r].payment = d.req[r].payment
                       /\ e.req[r].method = d.req[r].method
                       /\ e.req[r].byGuest = d.req[r].byGuest
  BY DEF AllStay, Stays
<1>2. Active(e) = Active(d) /\ ActiveQr(e) = ActiveQr(d)
  BY <1>1 DEF Active, ActiveQr
<1>3. Past(e)
  BY <1>1 DEF ReqBound, Past
<1>4. Waits(e)
  BY <1>1, <1>2 DEF ReqBound, Waits, Active
<1> QED BY <1>2, <1>3, <1>4 DEF ReqBound, OneActive, AllStay

\* The code is brought up to date, if there is one.
LEMMA RefreshSound ==
  ASSUME NEW d, Sound(d), ReqBound(d)
  PROVE  LET e == RefreshVietQr(d)
         IN  /\ AllStay(d, e) /\ ReqSound(e)
             /\ Active(e) = Active(d) /\ PendingQr(e) = PendingQr(d)
             /\ \A r \in Rids \ ActiveQr(d) : e.req[r] = d.req[r]
             /\ d.order.pay # "paid" /\ d.order.total > 0 =>
                  \A p \in PendingQr(e) : e.pay[p].amount = d.order.total
<1> DEFINE t == d.order.total
           p == Latest(PendingQr(d))
           q == [d.pay[p] EXCEPT !.amount = t]
           e == [d EXCEPT !.pay[p] = q]
           a == Latest(ActiveQr(d))
           x == [e.req[a] EXCEPT !.amount = t]
           f == [e EXCEPT !.req = [e.req EXCEPT ![a] = x]]
           g == RefreshVietQr(d)
<1>1. IsLedger(d) /\ OneLive(d) /\ ReqTyped(d) /\ OneActive(d) /\ t \in Nat /\ t \in Totals
  BY LedgerAssumption DEF Sound, ReqBound, IsLedger, Orders
<1>2. CASE d.order.pay = "paid" \/ PendingQr(d) = {} \/ t = 0
  <2>1. g = d
    BY <1>2 DEF RefreshVietQr
  <2>2. AllStay(d, d)
    BY <1>1 DEF AllStay, Stays
  <2>3. Fresh(d)
    BY <1>2, <1>1 DEF Fresh, ReqBound, Waits, ActiveQr
  <2> QED BY <1>1, <1>2, <2>1, <2>2, <2>3 DEF ReqSound
<1>3. CASE ~(d.order.pay = "paid" \/ PendingQr(d) = {} \/ t = 0)
  <2>1. p \in PendingQr(d) /\ PendingQr(d) = {p}
    BY <1>1, <1>3, LatestIn, LiveParts
  <2>2. /\ p \in Pids /\ d.pay[p] \in Payments /\ d.pay[p].status = "pending"
        /\ d.pay[p].method = "vietqr"
    BY <1>1, <2>1 DEF PendingQr, With, IsLedger
  <2>3. q \in Payments /\ q.status = "pending" /\ q.method = "vietqr" /\ q.amount = t
    BY <1>1, <2>2 DEF Payments
  <2>4. g = IF ActiveQr(d) = {} THEN e ELSE f
    BY <1>3 DEF RefreshVietQr
  <2>5. e.req = d.req
    BY <1>1 DEF IsLedger
  <2> HIDE DEF q, p
  <2>6. /\ IsLedger(e) /\ e.order = d.order
        /\ e.pay[p] = q /\ \A y \in Pids \ {p} : e.pay[y] = d.pay[y]
    BY <1>1, <2>2, <2>3, PayChange
  <2> HIDE DEF e, x
  <2>7. ReqOnly(e, f) /\ f.req = [e.req EXCEPT ![a] = x]
    BY <2>6, ReqChange, ReqIs
  <2> HIDE DEF f, g
  <2>8. g.order = d.order /\ g.pay = e.pay
    BY <2>4, <2>6, <2>7 DEF ReqOnly
  <2>9. /\ \A y \in Pids \ {p} : g.pay[y] = d.pay[y]
        /\ g.pay[p].status = "pending" /\ g.pay[p].method = "vietqr" /\ g.pay[p].amount = t
    BY <2>3, <2>6, <2>8
  <2>10. PendingQr(g) = {p} /\ TakenOf(g) = TakenOf(d)
    BY <2>1, <2>2, <2>9 DEF PendingQr, With, TakenOf
  <2>11. /\ ReqTyped(g)
         /\ \A r \in Rids : Stays(d.req[r], g.req[r])
         /\ \A r \in Rids \ ActiveQr(d) : g.req[r] = d.req[r]
         /\ \A r \in ActiveQr(d) : g.req[r].amount = t
    <3>1. CASE ActiveQr(d) = {}
      BY <1>1, <2>4, <2>5, <3>1 DEF ReqTyped, Stays
    <3>2. CASE ActiveQr(d) # {}
      <4>1. ActiveQr(d) = {a} /\ a \in Rids /\ d.req[a] \in Requests
        BY <1>1, <3>2, LatestActive DEF ActiveQr, Active, ReqTyped
      <4>2. x \in Requests /\ x.amount = t /\ Stays(d.req[a], x)
        BY <1>1, <2>5, <4>1 DEF x, Requests, Stays
      <4>3. g.req = [d.req EXCEPT ![a] = x]
        BY <2>4, <2>5, <2>7, <3>2
      <4> HIDE DEF a
      <4>4. g.req[a] = x /\ \A r \in Rids \ {a} : g.req[r] = d.req[r]
        BY <1>1, <4>1, <4>3 DEF ReqTyped
      <4>5. ReqTyped(g)
        BY <1>1, <4>1, <4>2, <4>3 DEF ReqTyped
      <4>6. \A r \in Rids : Stays(d.req[r], g.req[r])
        BY <4>2, <4>4 DEF Stays
      <4> QED BY <4>1, <4>2, <4>4, <4>5, <4>6
    <3> QED BY <3>1, <3>2
  <2>12. AllStay(d, g)
    BY <2>11 DEF AllStay
  <2>13. Active(d) # {} => g.order.status = "open" /\ g.order.pay # "paid"
    BY <2>8 DEF ReqBound, Waits
  <2>14. ReqBound(g) /\ Active(g) = Active(d) /\ ActiveQr(g) = ActiveQr(d)
    BY <2>1, <2>10, <2>12, <2>13, StayBound
  <2>15. Fresh(g)
    <3>1. ASSUME NEW r \in ActiveQr(g)
          PROVE  g.pay[g.req[r].payment].amount = t /\ g.req[r].amount = t
      <4>1. g.req[r].payment = p
        BY <2>10, <2>14 DEF ReqBound, Waits, ActiveQr
      <4> QED BY <2>9, <2>11, <2>14, <4>1
    <3> QED BY <2>8, <3>1 DEF Fresh
  <2> QED BY <2>1, <2>9, <2>10, <2>11, <2>12, <2>14, <2>15 DEF ReqSound, g
<1> QED BY <1>2, <1>3

\* A request is opened where none is active.
LEMMA OpenSound ==
  ASSUME NEW d, ReqBound(d), Active(d) = {}, NEW r \in Rids, d.req[r].status = "absent",
         NEW e, NEW x \in Requests, x.status = "active", ~x.byGuest,
         e.req = [d.req EXCEPT ![r] = x],
         e.order.status = "open", e.order.pay # "paid",
         TakenOf(d) \subseteq TakenOf(e),
         x.method = "vietqr" =>
           /\ x.payment \in PendingQr(e)
           /\ e.order.total > 0 => /\ e.pay[x.payment].amount = e.order.total
                                   /\ x.amount = e.order.total,
         x.method = "cash_call" => x.payment = NoPay
  PROVE  ReqSound(e) /\ Allowed(d, e)
<1>1. ReqTyped(e) /\ e.req[r] = x /\ \A y \in Rids \ {r} : e.req[y] = d.req[y]
  BY DEF ReqBound, ReqTyped
<1>2. Active(e) = {r}
  BY <1>1 DEF Active
<1>3. OneActive(e) /\ Waits(e) /\ Fresh(e)
  BY <1>1, <1>2 DEF OneActive, Waits, Fresh, ActiveQr
<1>4. Past(e)
  BY <1>1 DEF ReqBound, Past
<1>5. Allowed(d, e)
  BY <1>1 DEF Allowed, Stays
<1> QED BY <1>1, <1>3, <1>4, <1>5 DEF ReqSound, ReqBound

\* What is opened after requests were dropped was free before.
LEMMA DropAllowed ==
  ASSUME NEW d, NEW e, NEW f, Closes(d, e), Allowed(e, f),
         \A r \in Rids : \/ e.req[r].status = "absent"
                         \/ f.req[r] = e.req[r]
  PROVE  Allowed(d, f)
<1>1. ASSUME NEW r \in Rids, d.req[r].status # "absent"
      PROVE  \/ Stays(d.req[r], f.req[r])
             \/ Drops(d.req[r], f.req[r])
             \/ IsPaid(d.req[r], f.req[r])
  <2>1. e.req[r] = d.req[r] \/ Drops(d.req[r], e.req[r])
    BY DEF Closes
  <2>2. f.req[r] = e.req[r]
    BY <1>1, <2>1 DEF Drops
  <2> QED BY <2>1, <2>2 DEF Stays
<1> QED BY <1>1 DEF Allowed

LEMMA RequestIs ==
  \A m \in {"cash_call", "vietqr"}, p \in Pids \union {NoPay}, a \in Totals :
    /\ Request(m, p, a) \in Requests
    /\ Request(m, p, a).status = "active" /\ Request(m, p, a).method = m
    /\ Request(m, p, a).payment = p /\ Request(m, p, a).amount = a
    /\ Request(m, p, a).byGuest = FALSE
BY DEF Request, Requests, RequestStatus

\* The state in which self_order_create_payment_request opens a request.
Idle(d) ==
  /\ Sound(d) /\ ReqBound(d) /\ Active(d) = {}
  /\ d.order.status = "open" /\ d.order.pay # "paid"

LEMMA OneRequestIs ==
  ASSUME NEW d, IsLedger(d), NEW r, NEW x
  PROVE  LET e == [d EXCEPT !.req[r] = x]
         IN  ReqOnly(d, e) /\ e.req = [d.req EXCEPT ![r] = x]
<1>1. [d EXCEPT !.req[r] = x] = [d EXCEPT !.req = [d.req EXCEPT ![r] = x]]
  OBVIOUS
<1> QED BY <1>1, ReqChange, ReqIs

LEMMA CashCallSound ==
  ASSUME NEW d, Idle(d), NEW r \in Rids, d.req[r].status = "absent"
  PROVE  LET e == CashCall(d, r)
         IN  /\ ReqSound(e) /\ Allowed(d, e)
             /\ \A y \in Rids \ {r} : e.req[y] = d.req[y]
<1> DEFINE x == Request("cash_call", NoPay, d.order.total)
           e == CashCall(d, r)
<1>1. /\ x \in Requests /\ x.status = "active" /\ x.method = "cash_call"
      /\ x.payment = NoPay /\ ~x.byGuest
  BY RequestIs DEF Idle, Sound, IsLedger, Orders
<1>2. e = [d EXCEPT !.req[r] = x]
  BY DEF CashCall
<1> HIDE DEF x, e
<1>3. ReqOnly(d, e) /\ e.req = [d.req EXCEPT ![r] = x]
  BY <1>2, OneRequestIs DEF Idle, Sound
<1>4. TakenOf(e) = TakenOf(d) /\ e.order = d.order
  BY <1>3 DEF ReqOnly, TakenOf, With
<1>5. ReqSound(e) /\ Allowed(d, e)
  BY <1>1, <1>3, <1>4, OpenSound DEF Idle
<1>6. \A y \in Rids \ {r} : e.req[y] = d.req[y]
  BY <1>3 DEF Idle, ReqBound, ReqTyped
<1> QED BY <1>5, <1>6 DEF e

\* A pending payment is adopted, for the bill as it stands.
LEMMA AdoptSound ==
  ASSUME NEW d, Idle(d), NEW r \in Rids, d.req[r].status = "absent",
         PendingQr(d) # {},
         d.order.total > 0 => \A p \in PendingQr(d) : d.pay[p].amount = d.order.total
  PROVE  LET e == AdoptPending(d, r)
         IN  /\ ReqSound(e) /\ Allowed(d, e)
             /\ \A y \in Rids \ {r} : e.req[y] = d.req[y]
<1> DEFINE p == Latest(PendingQr(d))
           x == Request("vietqr", p, d.pay[p].amount)
           e == AdoptPending(d, r)
<1>1. p \in PendingQr(d) /\ p \in Pids /\ d.pay[p] \in Payments
  <2>1. p \in PendingQr(d)
    BY LatestIn, LiveParts DEF Idle, Sound
  <2> QED BY <2>1 DEF PendingQr, With, Idle, Sound, IsLedger
<1>2. /\ x \in Requests /\ x.status = "active" /\ x.method = "vietqr"
      /\ x.payment = p /\ x.amount = d.pay[p].amount /\ ~x.byGuest
  BY <1>1, RequestIs DEF Payments
<1>3. e = [d EXCEPT !.req[r] = x]
  BY DEF AdoptPending
<1> HIDE DEF x, e, p
<1>4. ReqOnly(d, e) /\ e.req = [d.req EXCEPT ![r] = x]
  BY <1>3, OneRequestIs DEF Idle, Sound
<1>5. TakenOf(e) = TakenOf(d) /\ PendingQr(e) = PendingQr(d) /\ e.order = d.order
        /\ e.pay = d.pay
  BY <1>4 DEF ReqOnly, TakenOf, With, PendingQr
<1>6. /\ x.payment \in PendingQr(e)
      /\ e.order.total > 0 => /\ e.pay[x.payment].amount = e.order.total
                              /\ x.amount = e.order.total
  BY <1>1, <1>2, <1>5
<1>7. ReqSound(e) /\ Allowed(d, e)
  BY <1>2, <1>4, <1>5, <1>6, OpenSound DEF Idle
<1>8. \A y \in Rids \ {r} : e.req[y] = d.req[y]
  BY <1>4 DEF Idle, ReqBound, ReqTyped
<1> QED BY <1>7, <1>8 DEF e

\* A payment is opened with its request.
LEMMA VietQrRequestSound ==
  ASSUME NEW d, Idle(d), NEW r \in Rids, d.req[r].status = "absent",
         NEW p \in Pids
  PROVE  LET e == VietQrRequest(d, r, p)
         IN  /\ ReqSound(e) /\ Allowed(d, e)
             /\ \A y \in Rids \ {r} : e.req[y] = d.req[y]
<1> DEFINE t == d.order.total
           q == Payment("vietqr", t, "pending")
           c == [d EXCEPT !.pay[p] = q]
           o == [c.order EXCEPT !.pay = "pending", !.method = "vietqr"]
           f == UpdateOrder(c, o)
           x == Request("vietqr", p, t)
           e == VietQrRequest(d, r, p)
<1>1. /\ IsLedger(d) /\ t \in Totals /\ TakenOf(d) = {}
  BY UnpaidTakesNothing DEF Idle, Sound, IsLedger, Orders
<1>2. q \in Payments /\ q.status = "pending" /\ q.method = "vietqr" /\ q.amount = t
  BY <1>1, PaymentIs DEF Tender, PaymentStatus
<1>3. /\ x \in Requests /\ x.status = "active" /\ x.method = "vietqr"
      /\ x.payment = p /\ x.amount = t /\ ~x.byGuest
  BY <1>1, RequestIs
<1>4. e = [f EXCEPT !.req[r] = x] /\ c.req = d.req
  BY <1>1 DEF VietQrRequest, IsLedger
<1> HIDE DEF q, x
<1>5. IsLedger(c) /\ c.order = d.order /\ c.pay[p] = q
  BY <1>1, <1>2, PayChange
<1> HIDE DEF c
<1>6. o \in Orders /\ o.pay = "pending" /\ o.status = "open" /\ o.total = t
  BY <1>5 DEF IsLedger, Orders, Tender, Idle
<1> HIDE DEF o
<1>7. IsLedger(f) /\ f.order = o /\ f.pay = c.pay
  BY <1>5, <1>6, UpdateOrderIs
<1>8. f.req = d.req
  <2>1. Past(d) /\ ReqTyped(d) /\ \A y \in Rids : d.req[y].status # "completed"
    BY <1>1 DEF Idle, ReqBound, Past
  <2>2. ReqTyped(c) /\ Past(c)
    BY <1>4, <2>1 DEF ReqTyped, Past
  <2> QED BY <1>4, <1>5, <1>6, <2>2, UpdateUnpaid
<1> HIDE DEF f, e
<1>9. ReqOnly(f, e) /\ e.req = [d.req EXCEPT ![r] = x]
  BY <1>4, <1>7, <1>8, OneRequestIs
<1>10. p \in PendingQr(e) /\ e.pay[p] = q /\ e.order = o
  BY <1>2, <1>5, <1>7, <1>9 DEF ReqOnly, PendingQr, With
<1>11. ReqSound(e) /\ Allowed(d, e)
  BY <1>1, <1>2, <1>3, <1>6, <1>9, <1>10, OpenSound DEF Idle
<1>12. \A y \in Rids \ {r} : e.req[y] = d.req[y]
  BY <1>9 DEF Idle, ReqBound, ReqTyped
<1> QED BY <1>11, <1>12 DEF e

-----------------------------------------------------------------------------
(* A payment is completed.                                                 *)

LEMMA LatestRid ==
  ASSUME NEW S \in SUBSET Rids, S # {} PROVE Latest(S) \in S
<1> DEFINE T == {MaxReqs - x : x \in S}
<1>1. MaxReqs \in Nat /\ \A x \in S : x \in Nat /\ x <= MaxReqs
  BY LedgerAssumption DEF Rids
<1>2. T \in SUBSET Nat /\ T # {}
  BY <1>1
<1> HIDE DEF T
<1>3. PICK n \in T : \A m \in T : n <= m
  <2> DEFINE R == {ss \in Nat \X Nat : ss[1] < ss[2]}
  <2>1. IsWellFoundedOn(R, Nat)
    BY NatLessThanWellFounded DEF OpToRel
  <2>2. PICK k \in T : \A m \in T : ~(<<m, k>> \in R)
    BY <1>2, <2>1, WFMin
  <2>3. ASSUME NEW m \in T, m < k PROVE FALSE
    <3>1. <<m, k>> \in Nat \X Nat /\ <<m, k>>[1] = m /\ <<m, k>>[2] = k
      BY <1>2
    <3>2. <<m, k>> \in R
      BY <2>3, <3>1
    <3> QED BY <2>2, <3>2
  <2>4. \A m \in T : k <= m
    BY <1>2, <2>3
  <2> QED BY <2>4
<1>4. PICK x \in S : n = MaxReqs - x
  BY <1>3 DEF T
<1>5. \A y \in S : y <= x
  <2> SUFFICES ASSUME NEW y \in S PROVE y <= x
    OBVIOUS
  <2>1. MaxReqs - y \in T
    BY DEF T
  <2> QED BY <1>1, <1>3, <1>4, <2>1
<1> QED BY <1>4, <1>5 DEF Latest

\* From d to e requests are dropped, or paid by p.
Advances(d, e, p) ==
  /\ ReqTyped(e)
  /\ \A r \in Rids : \/ e.req[r] = d.req[r]
                     \/ Drops(d.req[r], e.req[r])
                     \/ IsPaid(d.req[r], e.req[r]) /\ e.req[r].payment = p

\* And only those that were active.
Settles(d, e, p) ==
  /\ Advances(d, e, p)
  /\ \A r \in Rids : d.req[r].status # "active" => e.req[r] = d.req[r]

\* What p may settle: a request that waits for no other payment.
Payable(d, p) ==
  /\ IsLedger(d) /\ ReqTyped(d)
  /\ \A r \in Active(d) : d.req[r].payment \in {NoPay, p}
  /\ \A r \in Rids : d.req[r].byGuest => d.req[r].method = "vietqr"

LEMMA AdvancesTrans ==
  ASSUME NEW d, NEW e, NEW f, NEW p, Advances(d, e, p), Settles(e, f, p)
  PROVE  /\ Advances(d, f, p)
         /\ Settles(d, e, p) => Settles(d, f, p)
<1>1. ASSUME NEW r \in Rids
      PROVE  /\ \/ f.req[r] = d.req[r]
                \/ Drops(d.req[r], f.req[r])
                \/ IsPaid(d.req[r], f.req[r]) /\ f.req[r].payment = p
             /\ Settles(d, e, p) /\ d.req[r].status # "active" => f.req[r] = d.req[r]
  <2>1. \/ e.req[r] = d.req[r]
        \/ Drops(d.req[r], e.req[r])
        \/ IsPaid(d.req[r], e.req[r]) /\ e.req[r].payment = p
    BY DEF Advances
  <2>2. \/ f.req[r] = e.req[r]
        \/ Drops(e.req[r], f.req[r])
        \/ IsPaid(e.req[r], f.req[r]) /\ f.req[r].payment = p
    BY DEF Settles, Advances
  <2>3. e.req[r].status # "active" => f.req[r] = e.req[r]
    BY DEF Settles
  <2>4. e.req[r] # d.req[r] => e.req[r].status # "active"
    BY <2>1 DEF Drops, IsPaid
  <2> QED BY <2>1, <2>2, <2>3, <2>4 DEF Settles
<1> QED BY <1>1 DEF Advances, Settles

LEMMA AdvancesPayable ==
  ASSUME NEW d, NEW e, NEW p, Payable(d, p), Advances(d, e, p), IsLedger(e)
  PROVE  Payable(e, p) /\ Active(e) \subseteq Active(d)
<1>1. ASSUME NEW r \in Rids
      PROVE  /\ e.req[r].status = "active" => e.req[r] = d.req[r]
             /\ e.req[r].byGuest => e.req[r].method = "vietqr"
  BY DEF Advances, Drops, IsPaid, Payable
<1> QED BY <1>1 DEF Payable, Advances, Active

LEMMA SettleSettles ==
  ASSUME NEW d, NEW p \in Pids, Payable(d, p), NEW R, R \subseteq Active(d)
  PROVE  Settles(d, Settle(d, R, p), p) /\ Active(Settle(d, R, p)) = Active(d) \ R
<1> DEFINE y(r) == [d.req[r] EXCEPT !.status = "completed",
                                    !.payment = IF @ = NoPay THEN p ELSE @]
           x == [r \in Rids |-> IF r \in R THEN y(r) ELSE d.req[r]]
           e == Settle(d, R, p)
<1>1. e.req = x
  BY ReqIs DEF Settle, Payable
<1>2. ASSUME NEW r \in R
      PROVE  /\ r \in Rids /\ y(r) \in Requests /\ y(r).status = "completed"
             /\ IsPaid(d.req[r], y(r)) /\ y(r).payment = p
  <2>1. /\ r \in Rids /\ d.req[r] \in Requests /\ d.req[r].status = "active"
        /\ d.req[r].payment \in {NoPay, p} /\ p # NoPay
    BY DEF Active, Payable, ReqTyped, NoPay, Pids
  <2>2. /\ y(r).status = "completed" /\ y(r).payment = p
        /\ y(r).method = d.req[r].method /\ y(r).byGuest = d.req[r].byGuest
    BY <2>1 DEF Requests
  <2>3. y(r) \in Requests
    BY <2>1 DEF Requests, RequestStatus
  <2> QED BY <2>1, <2>2, <2>3 DEF IsPaid
<1> HIDE DEF y, e
<1>3. /\ \A r \in R : x[r] = y(r)
      /\ \A r \in Rids \ R : x[r] = d.req[r] /\ x[r] \in Requests
  BY <1>2 DEF Payable, ReqTyped
<1>4. x \in [Rids -> Requests]
  BY <1>2, <1>3
<1> HIDE DEF x
<1>5. Advances(d, e, p)
  BY <1>1, <1>2, <1>3, <1>4 DEF Advances, ReqTyped
<1>6. Settles(d, e, p)
  BY <1>1, <1>3, <1>5 DEF Settles, Active
<1>7. Active(e) = Active(d) \ R
  <2>1. \A r \in R : e.req[r].status # "active"
    BY <1>1, <1>2, <1>3
  <2>2. \A r \in Rids \ R : e.req[r] = d.req[r]
    BY <1>1, <1>3
  <2> QED BY <2>1, <2>2 DEF Active
<1> QED BY <1>6, <1>7 DEF e

\* An order that p has just paid: every active request is paid by p or dropped.
LEMMA SyncPaid ==
  ASSUME NEW d, NEW p \in Pids, Payable(d, p), d.order.pay = "paid",
         With(d, "completed") = {p}
  PROVE  Settles(d, SyncFromOrder(d), p) /\ Active(SyncFromOrder(d)) = {}
<1> DEFINE R == {r \in Active(d) : TenderOf(d.req[r].method) = d.pay[p].method}
           c == Settle(d, R, p)
           e == Close(c, Active(d) \ R, "cancelled")
<1>1. SyncFromOrder(d) = e
  BY LatestOfOne DEF SyncFromOrder
<1>2. R \subseteq Active(d) /\ IsLedger(d)
  BY DEF Payable
<1> HIDE DEF R
<1>3. Settles(d, c, p) /\ Active(c) = Active(d) \ R /\ ReqOnly(d, c)
  BY <1>2, SettleSettles, SettleClose
<1> HIDE DEF c
<1>4. Payable(c, p)
  BY <1>3, AdvancesPayable DEF Settles, ReqOnly
<1>5. Closes(c, e) /\ Active(e) = {} /\ \A r \in Rids \ Active(c) : e.req[r] = c.req[r]
  BY <1>3, <1>4, CloseCloses DEF Payable, Active
<1> HIDE DEF e
<1>6. Settles(c, e, p)
  BY <1>5 DEF Settles, Advances, Closes, Active
<1> QED BY <1>1, <1>3, <1>5, <1>6, AdvancesTrans DEF Settles

\* The trigger of the payment: what waits for it is paid, or else the request
\* that the guest gave up too late.
LEMMA OnCompletedAdvances ==
  ASSUME NEW d, NEW p \in Pids, Payable(d, p)
  PROVE  Advances(d, OnCompleted(d, p), p)
<1> DEFINE q == d.pay[p]
           hit == {r \in Active(d) :
                     \/ d.req[r].payment = p
                     \/ /\ d.req[r].payment = NoPay
                        /\ d.req[r].method = "cash_call"
                        /\ q.method = "cash"
                     \/ d.req[r].method = "vietqr" /\ q.method = "vietqr"}
           late == {r \in Rids : /\ d.req[r].status = "cancelled"
                                 /\ d.req[r].byGuest
                                 /\ d.req[r].amount = q.amount}
           z == [d.req EXCEPT ![Latest(late)].status = "completed",
                              ![Latest(late)].payment = p]
           b == Settle(d, hit, p)
           c == [d EXCEPT !.req = z]
           e == IF hit # {} THEN b
                ELSE IF q.method = "vietqr" /\ late # {} THEN c ELSE d
           g == [e EXCEPT !.order.method = q.method]
<1>1. OnCompleted(d, p) = g
  <2>1. c = [d EXCEPT !.req[Latest(late)].status = "completed",
                      !.req[Latest(late)].payment = p]
    BY DEF Payable, IsLedger
  <2> QED BY <2>1 DEF OnCompleted
<1>2. hit \subseteq Active(d) /\ late \subseteq Rids /\ IsLedger(d)
  BY DEF Payable
<1>3. Settles(d, b, p) /\ ReqOnly(d, b)
  BY <1>2, SettleSettles, SettleClose
<1>4. late # {} => Advances(d, c, p)
  <2> SUFFICES ASSUME late # {} PROVE Advances(d, c, p)
    OBVIOUS
  <2> DEFINE l == Latest(late)
             x == [d.req[l] EXCEPT !.status = "completed", !.payment = p]
  <2>1. l \in late
    BY <1>2, LatestRid
  <2>2. /\ l \in Rids /\ d.req[l] \in Requests /\ d.req[l].status = "cancelled"
        /\ d.req[l].byGuest /\ d.req[l].method = "vietqr"
    BY <2>1 DEF Payable, ReqTyped
  <2> HIDE DEF late
  <2>3. z = [d.req EXCEPT ![l] = x]
    BY <2>2 DEF Payable, ReqTyped
  <2> HIDE DEF z
  <2>4. c.req = z
    BY <1>2, ReqIs
  <2>5. x \in Requests /\ IsPaid(d.req[l], x) /\ x.payment = p
    <3> HIDE DEF l
    <3>1. x \in Requests
      BY <2>2 DEF Requests, RequestStatus
    <3>2. /\ x.status = "completed" /\ x.payment = p
          /\ x.method = d.req[l].method /\ x.byGuest = d.req[l].byGuest
      BY <2>2 DEF Requests
    <3>3. p # NoPay
      BY DEF NoPay, Pids
    <3> QED BY <2>2, <3>1, <3>2, <3>3 DEF IsPaid
  <2> HIDE DEF x, c, l
  <2>6. ReqTyped(c) /\ c.req[l] = x /\ \A r \in Rids \ {l} : c.req[r] = d.req[r]
    BY <2>2, <2>3, <2>4, <2>5 DEF Payable, ReqTyped
  <2> QED BY <2>5, <2>6 DEF Advances
<1>5. ReqOnly(d, c) /\ ReqOnly(d, d)
  BY <1>2, ReqChange DEF ReqOnly
<1>6. Advances(d, d, p)
  BY DEF Advances, Payable
<1> HIDE DEF b, c, hit
<1>7. Advances(d, e, p) /\ IsLedger(e)
  BY <1>3, <1>4, <1>5, <1>6 DEF Settles, ReqOnly
<1> HIDE DEF e
<1>8. g.req = e.req
  BY <1>7 DEF IsLedger
<1> HIDE DEF g
<1> QED BY <1>1, <1>7, <1>8 DEF Advances, ReqTyped

\* After the payment nothing is active, and what is done p has paid.
LEMMA CompleteAdvances ==
  ASSUME NEW d, NEW p \in Pids, Payable(d, p), Live(d) \subseteq {p},
         d.pay[p].amount = d.order.total, d.order.pay # "paid"
  PROVE  LET g == CompletePayment(d, p)
         IN  Advances(d, g, p) /\ Active(g) = {}
<1> DEFINE q == [d.pay[p] EXCEPT !.status = "completed"]
           c == [d EXCEPT !.pay[p] = q]
           e == OnCompleted(c, p)
           o == [e.order EXCEPT !.pay = "paid"]
           b == [e EXCEPT !.order = o]
           f == UpdateOrder(e, o)
           s == [f.order EXCEPT !.status = "completed"]
           h == [f EXCEPT !.order = s]
           g == FinalizePaidOrder(f)
<1>1. q \in Payments /\ q.status = "completed" /\ IsLedger(d)
  BY DEF Payable, IsLedger, Payments, PaymentStatus
<1>2. CompletePayment(d, p) = g /\ c.req = d.req
  BY <1>1 DEF CompletePayment, IsLedger
<1> HIDE DEF q
<1>3. IsLedger(c) /\ c.order = d.order /\ c.pay[p] = q /\ OtherwiseAs(d, c, p)
  BY <1>1, PayChange DEF OtherwiseAs
<1> HIDE DEF c
<1>4. Payable(c, p)
  BY <1>2, <1>3 DEF Payable, ReqTyped, Active
<1>5. IsLedger(e) /\ e.pay = c.pay /\ e.order.pay = d.order.pay /\ Advances(c, e, p)
  <2>1. IsLedger(e) /\ e.pay = c.pay /\ e.order = [c.order EXCEPT !.method = c.pay[p].method]
    BY <1>3, OnCompletedIs
  <2>2. e.order.pay = c.order.pay
    BY <1>3, <2>1 DEF IsLedger, Orders
  <2> QED BY <1>3, <1>4, <2>1, <2>2, OnCompletedAdvances
<1>6. With(e, "completed") = {p}
  BY <1>1, <1>3, <1>5 DEF With, OtherwiseAs, Live
<1>7. Payable(e, p) /\ Advances(d, e, p)
  BY <1>2, <1>4, <1>5, AdvancesPayable DEF Advances
<1> HIDE DEF e
<1>8. o \in Orders /\ o.pay = "paid"
  BY <1>5 DEF IsLedger, Orders
<1> HIDE DEF o
<1>9. IsLedger(b) /\ b.order = o /\ b.pay = e.pay /\ b.req = e.req
  <2>1. b.req = e.req
    BY <1>5 DEF IsLedger
  <2> QED BY <1>5, <1>8, <2>1, OrderChange
<1>10. f = SyncFromOrder(b)
  BY <1>5, <1>8 DEF UpdateOrder
<1> HIDE DEF b
<1>11. Payable(b, p) /\ With(b, "completed") = {p} /\ Advances(d, b, p)
  BY <1>6, <1>7, <1>9 DEF Payable, ReqTyped, Active, With, Advances
<1>12. Settles(b, f, p) /\ Active(f) = {} /\ IsLedger(f) /\ ReqTyped(f)
  <2>1. Settles(b, SyncFromOrder(b), p) /\ Active(SyncFromOrder(b)) = {}
    BY <1>8, <1>9, <1>11, SyncPaid
  <2>2. ReqOnly(b, SyncFromOrder(b))
    BY <1>9, SyncReqOnly
  <2> QED BY <1>10, <2>1, <2>2 DEF Settles, Advances, ReqOnly
<1>13. Advances(d, f, p)
  BY <1>11, <1>12, AdvancesTrans
<1> HIDE DEF f
<1>14. s \in Orders /\ s.pay = f.order.pay
  BY <1>12 DEF IsLedger, Orders
<1>15. g \in {f, h, SyncFromOrder(h)}
  BY DEF FinalizePaidOrder, UpdateOrder
<1> HIDE DEF s, g
<1>16. IsLedger(h) /\ h.req = f.req
  <2>1. h.req = f.req
    BY <1>12 DEF IsLedger
  <2> QED BY <1>12, <1>14, <2>1, OrderChange
<1> HIDE DEF h
<1>17. SyncFromOrder(h).req = h.req
  BY <1>12, <1>16, SyncIdle DEF ReqTyped, Active
<1>18. g.req = f.req
  BY <1>15, <1>16, <1>17
<1>19. Advances(d, g, p) /\ Active(g) = {}
  BY <1>12, <1>13, <1>18 DEF Advances, ReqTyped, Active
<1> QED BY <1>2, <1>19

\* What a step of the system may do to the requests.
ReqStep(d, e) == ReqSound(e) /\ Allowed(d, e)

LEMMA ClosesStep ==
  ASSUME NEW d, NEW e, Closes(d, e), ReqSound(e) PROVE ReqStep(d, e)
BY ClosesAllowed DEF ReqStep

LEMMA ConfirmStep ==
  ASSUME NEW d, Sound(d), ReqSound(d), NEW p \in Pids, Live(d) \subseteq {p},
         d.order.pay # "paid"
  PROVE  /\ ReqStep(d, ConfirmCash(d, p))
         /\ d.pay[p].status # "completed" => ReqStep(d, ConfirmSepay(d, p))
<1>1. IsLedger(d) /\ ReqTyped(d) /\ Past(d) /\ TakenOf(d) = {} /\ d.order.total \in Totals
  BY UnpaidTakesNothing DEF Sound, ReqSound, ReqBound, IsLedger, Orders
<1>2. \A r \in Active(d) : d.req[r].payment \in {NoPay, p}
  <2> SUFFICES ASSUME NEW r \in Active(d) PROVE d.req[r].payment \in {NoPay, p}
    OBVIOUS
  <2>1. d.req[r].method \in {"cash_call", "vietqr"}
    BY <1>1 DEF ReqTyped, Active, Requests
  <2>2. PendingQr(d) \subseteq {p}
    BY LiveParts
  <2> QED BY <2>1, <2>2 DEF ReqSound, ReqBound, Waits
<1>3. ASSUME NEW c, IsLedger(c), c.req = d.req, c.order.pay # "paid",
             OtherwiseAs(d, c, p), c.pay[p].amount = c.order.total,
             Took(d, CompletePayment(c, p), p)
      PROVE  ReqStep(d, CompletePayment(c, p))
  <2> DEFINE e == CompletePayment(c, p)
  <2>1. Payable(c, p)
    BY <1>1, <1>2, <1>3 DEF Payable, ReqTyped, Active, Past
  <2>2. Live(c) \subseteq {p}
    BY <1>3 DEF Live, OtherwiseAs
  <2>3. Advances(c, e, p) /\ Active(e) = {}
    BY <1>3, <2>1, <2>2, CompleteAdvances
  <2>4. p \in TakenOf(e)
    BY <1>3 DEF Took
  <2> HIDE DEF e
  <2>5. ASSUME NEW r \in Rids
        PROVE  \/ e.req[r] = d.req[r]
               \/ Drops(d.req[r], e.req[r])
               \/ IsPaid(d.req[r], e.req[r]) /\ e.req[r].payment = p
    BY <1>3, <2>3 DEF Advances
  <2>6. Past(e)
    <3> SUFFICES ASSUME NEW r \in Rids
                 PROVE  /\ e.req[r].status = "completed" => e.req[r].payment \in TakenOf(e)
                        /\ e.req[r].byGuest => e.req[r].method = "vietqr"
      BY DEF Past
    <3>1. d.req[r].status # "completed" /\ (d.req[r].byGuest => d.req[r].method = "vietqr")
      BY <1>1 DEF Past
    <3> QED BY <2>4, <2>5, <3>1 DEF Drops, IsPaid
  <2>7. ReqSound(e)
    BY <2>3, <2>6 DEF ReqSound, ReqBound, Advances, OneActive, Waits, Fresh, ActiveQr
  <2>8. Allowed(d, e)
    BY <2>5 DEF Allowed, Stays
  <2> QED BY <2>7, <2>8 DEF ReqStep, e
<1>4. ReqStep(d, ConfirmCash(d, p))
  <2> DEFINE q == Payment("cash", d.order.total, "pending")
             b == [d EXCEPT !.pay[p] = q]
             o == [b.order EXCEPT !.method = "cash"]
             c == [b EXCEPT !.order = o]
  <2>1. q \in Payments /\ q.amount = d.order.total
    BY <1>1, PaymentIs DEF Tender, PaymentStatus
  <2>2. ConfirmCash(d, p) = CompletePayment(c, p) /\ c.req = d.req
    BY <1>1 DEF ConfirmCash, IsLedger
  <2> HIDE DEF q
  <2>3. IsLedger(b) /\ b.order = d.order /\ b.pay[p] = q /\ OtherwiseAs(d, b, p)
    BY <1>1, <2>1, PayChange DEF OtherwiseAs
  <2> HIDE DEF b
  <2>4. o \in Orders /\ o.total = d.order.total /\ o.pay = d.order.pay
    BY <2>3 DEF IsLedger, Orders, Tender
  <2> HIDE DEF o
  <2>5. IsLedger(c) /\ c.order = o /\ c.pay = b.pay
    BY <2>3, <2>4, OrderChange
  <2> HIDE DEF c
  <2>6. Took(d, CompletePayment(c, p), p)
    BY <2>2, ConfirmTakes
  <2> QED BY <1>3, <2>1, <2>2, <2>3, <2>4, <2>5, <2>6 DEF OtherwiseAs
<1>5. ASSUME d.pay[p].status # "completed" PROVE ReqStep(d, ConfirmSepay(d, p))
  <2> DEFINE q == Payment("vietqr", d.order.total, "pending")
             c == [d EXCEPT !.pay[p] = q]
  <2>1. q \in Payments /\ q.amount = d.order.total
    BY <1>1, PaymentIs DEF Tender, PaymentStatus
  <2>2. ConfirmSepay(d, p) = CompletePayment(c, p) /\ c.req = d.req
    BY <1>1, <1>5 DEF ConfirmSepay, IsLedger
  <2> HIDE DEF q
  <2>3. IsLedger(c) /\ c.order = d.order /\ c.pay[p] = q /\ OtherwiseAs(d, c, p)
    BY <1>1, <2>1, PayChange DEF OtherwiseAs
  <2> HIDE DEF c
  <2>4. Took(d, CompletePayment(c, p), p)
    BY <1>5, <2>2, ConfirmTakes
  <2> QED BY <1>3, <2>1, <2>2, <2>3, <2>4
<1> QED BY <1>4, <1>5

\* Where nothing is active, the money may move on.
LEMMA QuietStep ==
  ASSUME NEW d, NEW e, ReqSound(d), Active(d) = {}, e.req = d.req,
         TakenOf(d) \subseteq TakenOf(e)
  PROVE  ReqStep(d, e)
<1>1. AllStay(d, e) /\ Allowed(d, e)
  BY DEF AllStay, Allowed, Stays, ReqTyped, ReqSound, ReqBound
<1>2. ReqBound(e) /\ ActiveQr(e) = {}
  BY <1>1, StayBound DEF ReqSound, ActiveQr
<1> QED BY <1>1, <1>2 DEF ReqStep, ReqSound, Fresh

\* The cashier opens a payment, or takes over the one a code is shown for.
LEMMA RemoteIntentStep ==
  ASSUME NEW d, Sound(d), ReqSound(d), NEW p \in Pids, Live(d) \subseteq {p},
         d.order.pay # "paid", d.order.total > 0
  PROVE  ReqStep(d, RemoteIntent(d, p))
<1> DEFINE q == Payment("vietqr", d.order.total, "pending")
           c == [d EXCEPT !.pay[p] = q]
           o == [c.order EXCEPT !.method = "vietqr"]
           e == [c EXCEPT !.order = o]
<1>1. IsLedger(d) /\ TakenOf(d) = {} /\ d.order.total \in Totals
  BY UnpaidTakesNothing DEF Sound, IsLedger, Orders
<1>2. q \in Payments /\ q.status = "pending" /\ q.method = "vietqr" /\ q.amount = d.order.total
  BY <1>1, PaymentIs DEF Tender, PaymentStatus
<1>3. RemoteIntent(d, p) = e /\ e.req = d.req
  BY <1>1 DEF RemoteIntent, IsLedger
<1> HIDE DEF q
<1>4. IsLedger(c) /\ c.order = d.order /\ c.pay[p] = q
  BY <1>1, <1>2, PayChange
<1> HIDE DEF c
<1>5. /\ o \in Orders /\ o.pay = d.order.pay /\ o.status = d.order.status
      /\ o.total = d.order.total
  BY <1>4 DEF IsLedger, Orders, Tender
<1> HIDE DEF o
<1>6. IsLedger(e) /\ e.order = o /\ e.pay = c.pay
  BY <1>4, <1>5, OrderChange
<1> HIDE DEF e
<1>7. PendingQr(d) \subseteq {p} /\ p \in PendingQr(e)
  BY <1>2, <1>4, <1>6, LiveParts DEF PendingQr, With
<1>8. AllStay(d, e) /\ Allowed(d, e)
  BY <1>3 DEF AllStay, Allowed, Stays, ReqTyped, ReqSound, ReqBound
<1>9. Active(d) # {} => e.order.status = "open" /\ e.order.pay # "paid"
  BY <1>5, <1>6 DEF ReqSound, ReqBound, Waits
<1>10. ReqBound(e) /\ Active(e) = Active(d) /\ ActiveQr(e) = ActiveQr(d)
  BY <1>1, <1>7, <1>8, <1>9, StayBound DEF ReqSound
<1>11. Fresh(e)
  <2> SUFFICES ASSUME NEW r \in ActiveQr(e)
               PROVE  /\ e.pay[e.req[r].payment].amount = d.order.total
                      /\ e.req[r].amount = d.order.total
    BY <1>5, <1>6 DEF Fresh
  <2>1. r \in ActiveQr(d) /\ d.req[r].payment \in PendingQr(d)
    BY <1>10 DEF ReqSound, ReqBound, Waits, ActiveQr
  <2>2. e.req[r].payment = p
    BY <1>3, <1>7, <2>1
  <2>3. d.req[r].amount = d.order.total
    BY <2>1 DEF ReqSound, Fresh
  <2>4. e.pay[p].amount = d.order.total
    BY <1>2, <1>4, <1>6
  <2> QED BY <1>3, <2>2, <2>3, <2>4
<1> QED BY <1>3, <1>8, <1>10, <1>11 DEF ReqStep, ReqSound

\* The bill is edited: the code follows.
LEMMA ChangeTotalStep ==
  ASSUME NEW d, Sound(d), ReqSound(d), d.order.pay # "paid", NEW t \in Totals
  PROVE  ReqStep(d, ChangeTotal(d, t))
<1> DEFINE o == [d.order EXCEPT !.total = t]
           c == [d EXCEPT !.order = o]
           e == RefreshVietQr(c)
<1>1. o \in Orders /\ o.pay = d.order.pay /\ o.status = d.order.status
  BY DEF Sound, IsLedger, Orders
<1>2. ChangeTotal(d, t) = e /\ c.req = d.req
  BY DEF ChangeTotal, Sound, IsLedger
<1> HIDE DEF o
<1>3. IsLedger(c) /\ c.order = o /\ c.pay = d.pay
  BY <1>1, OrderChange DEF Sound
<1> HIDE DEF c
<1>4. TakenOf(d) = {} /\ TakenOf(c) = {} /\ PendingQr(c) = PendingQr(d)
  BY <1>3 DEF Sound, PaidTaken, TakenOf, With, PendingQr
<1>5. Sound(c)
  BY <1>1, <1>3, <1>4 DEF Sound, OneLive, Live, PaidTaken, PaidIsClosed
<1>6. AllStay(d, c) /\ Allowed(d, c)
  BY <1>2 DEF AllStay, Allowed, Stays, ReqTyped, ReqSound, ReqBound
<1>7. ReqBound(c)
  <2>1. Active(d) # {} => c.order.status = "open" /\ c.order.pay # "paid"
    BY <1>1, <1>3 DEF ReqSound, ReqBound, Waits
  <2> QED BY <1>4, <1>6, <2>1, StayBound DEF ReqSound
<1>8. AllStay(c, e) /\ ReqSound(e)
  BY <1>5, <1>7, RefreshSound
<1> HIDE DEF e
<1> QED BY <1>2, <1>6, <1>8, StayAllowed DEF ReqStep

LEMMA CancelOrderStep ==
  ASSUME NEW d, Sound(d), ReqSound(d), d.order.status = "open"
  PROVE  ReqStep(d, CancelOrder(d))
<1> DEFINE o == [d.order EXCEPT !.status = "cancelled", !.total = 0]
           e == UpdateOrder(d, o)
<1>1. o \in Orders /\ o.pay # "paid" /\ o.status = "cancelled"
  BY LedgerAssumption DEF Sound, IsLedger, Orders, PaidIsClosed
<1>2. CancelOrder(d) = e
  BY DEF CancelOrder
<1> HIDE DEF o
<1>3. Closes(d, e) /\ Active(e) = {} /\ e.pay = d.pay
  BY <1>1, UpdateUnpaid, UpdateOrderIs DEF Sound, ReqSound, ReqBound
<1> HIDE DEF e
<1>4. Past(e)
  BY <1>3, ClosesPast DEF ReqSound, ReqBound, TakenOf, With
<1>5. ReqSound(e)
  BY <1>3, <1>4 DEF ReqSound, ReqBound, Closes, OneActive, Waits, Fresh, ActiveQr
<1> QED BY <1>2, <1>3, <1>5, ClosesStep

\* The tender is corrected, or the money given back.
LEMMA SettledStep ==
  ASSUME NEW d, Sound(d), ReqSound(d), NEW p \in With(d, "completed"), NEW m \in Tender
  PROVE  /\ ReqStep(d, SetMethod(d, p, m)) /\ ReqStep(d, ReversePayment(d, p))
         /\ ReqStep(d, RefundOrder(d, p))
<1>1. IsLedger(d) /\ ReqTyped(d) /\ Active(d) = {} /\ TakenOf(d) = {p} /\ p \in Pids
  BY CompletedAlone DEF Sound, ReqSound, ReqBound, Waits
<1>2. TakenOf(SetMethod(d, p, m)) = {p}
  BY <1>1, SetMethodCorrects DEF Corrected
<1>3. TakenOf(ReversePayment(d, p)) = {p} /\ TakenOf(RefundOrder(d, p)) = {p}
  BY <1>1, ReverseReturns DEF Returned
<1>4. SetMethod(d, p, m).req = d.req /\ ReversePayment(d, p).req = d.req
  BY <1>1 DEF SetMethod, ReversePayment, IsLedger
<1>5. RefundOrder(d, p).req = d.req
  <2> DEFINE c == ReversePayment(d, p)
             o == [c.order EXCEPT !.status = "cancelled"]
             b == [c EXCEPT !.order = o]
  <2>1. RefundOrder(d, p) \in {b, SyncFromOrder(b)}
    BY DEF RefundOrder, ReversePayment, UpdateOrder
  <2>2. IsLedger(c)
    BY ReverseReturns DEF Returned, Sound
  <2> HIDE DEF c
  <2>3. o \in Orders
    BY <2>2 DEF IsLedger, Orders
  <2>4. b.req = c.req
    BY <2>2 DEF IsLedger
  <2> HIDE DEF o
  <2>5. IsLedger(b)
    BY <2>2, <2>3, OrderChange
  <2> HIDE DEF b
  <2>6. b.req = d.req
    BY <1>4, <2>4 DEF c
  <2>7. SyncFromOrder(b).req = b.req
    BY <1>1, <2>5, <2>6, SyncIdle DEF ReqTyped, Active
  <2> QED BY <2>1, <2>6, <2>7
<1> QED BY <1>1, <1>2, <1>3, <1>4, <1>5, QuietStep

-----------------------------------------------------------------------------
(* The actions.                                                            *)

LEMMA SameStep ==
  ASSUME ReqSound(db), db' = db PROVE ReqStep(db, db')
BY DEF ReqStep, Allowed, Stays

LEMMA DueStep ==
  ASSUME Sound(db), ReqSound(db), NEW r \in Rids, RequestDue(r)
  PROVE  ReqStep(db, db')
<1> DEFINE x == [db.req[r] EXCEPT !.due = TRUE]
<1>1. db' = [db EXCEPT !.req[r] = x] /\ db.req[r] \in Requests
  BY DEF RequestDue, ReqSound, ReqBound, ReqTyped
<1>2. x \in Requests /\ Stays(db.req[r], x) /\ x.amount = db.req[r].amount
  BY <1>1 DEF Requests, Stays
<1> HIDE DEF x
<1>3. ReqOnly(db, db') /\ db'.req = [db.req EXCEPT ![r] = x]
  BY <1>1, OneRequestIs DEF Sound
<1>4. ReqTyped(db') /\ db'.req[r] = x /\ \A y \in Rids \ {r} : db'.req[y] = db.req[y]
  BY <1>2, <1>3 DEF ReqTyped, ReqSound, ReqBound
<1>5. \A y \in Rids : Stays(db.req[y], db'.req[y]) /\ db'.req[y].amount = db.req[y].amount
  BY <1>2, <1>4 DEF Stays
<1>6. AllStay(db, db') /\ Allowed(db, db')
  BY <1>4, <1>5 DEF AllStay, Allowed
<1>7. TakenOf(db') = TakenOf(db) /\ PendingQr(db') = PendingQr(db) /\ db'.order = db.order
        /\ db'.pay = db.pay
  BY <1>3 DEF ReqOnly, TakenOf, With, PendingQr
<1>8. Active(db) # {} => db'.order.status = "open" /\ db'.order.pay # "paid"
  BY <1>7 DEF ReqSound, ReqBound, Waits
<1>9. ReqBound(db') /\ ActiveQr(db') = ActiveQr(db)
  BY <1>6, <1>7, <1>8, StayBound DEF ReqSound
<1>10. Fresh(db')
  <2> SUFFICES ASSUME NEW y \in ActiveQr(db'), db'.order.total > 0
               PROVE  /\ db'.pay[db'.req[y].payment].amount = db'.order.total
                      /\ db'.req[y].amount = db'.order.total
    BY DEF Fresh
  <2>1. /\ db.pay[db.req[y].payment].amount = db.order.total
        /\ db.req[y].amount = db.order.total
    BY <1>7, <1>9 DEF ReqSound, Fresh
  <2>2. db'.req[y].payment = db.req[y].payment /\ db'.req[y].amount = db.req[y].amount
    BY <1>5, <1>9 DEF ActiveQr, Active, Stays
  <2> QED BY <1>7, <2>1, <2>2
<1> QED BY <1>6, <1>9, <1>10 DEF ReqStep, ReqSound

\* A self-order call: it drops what expired, then recovers, adopts or opens.
LEMMA GuestStep ==
  ASSUME Sound(db), ReqSound(db), NEW m, GuestRequests(m)
  PROVE  ReqStep(db, db')
<1> DEFINE d == DropExpired(db)
           c == RefreshVietQr(d)
<1>1. Closes(db, d) /\ ReqSound(d) /\ Sound(d) /\ Harmless(db, d)
  BY DropSound, RequestsHarmless
<1>2. IsOpen /\ Unpaid
  BY DEF GuestRequests
<1>3. \/ db' = c
      \/ /\ Active(d) = {} /\ PendingQr(d) # {}
         /\ \E r \in FreeRids(d) : db' = AdoptPending(c, r)
      \/ /\ Active(d) = {}
         /\ \E r \in FreeRids(d) : db' = CashCall(d, r)
      \/ /\ Active(d) = {}
         /\ \E r \in FreeRids(d), p \in FreePids(d) \ Reserve(d) : db' = VietQrRequest(d, r, p)
  BY DEF GuestRequests
<1> HIDE DEF d
<1>4. d.order.status = "open" /\ d.order.pay # "paid"
  BY <1>1, <1>2 DEF Harmless, IsOpen, Unpaid
<1>5. /\ AllStay(d, c) /\ ReqSound(c) /\ Active(c) = Active(d) /\ PendingQr(c) = PendingQr(d)
      /\ \A r \in Rids \ ActiveQr(d) : c.req[r] = d.req[r]
      /\ d.order.total > 0 => \A p \in PendingQr(c) : c.pay[p].amount = d.order.total
      /\ Harmless(d, c) /\ Sound(c)
  BY <1>1, <1>4, RefreshSound, RefreshHarmless, HarmlessSound DEF ReqSound
<1>6. FreeRids(d) \subseteq Rids /\ \A r \in FreeRids(d) : d.req[r].status = "absent"
  BY DEF FreeRids
<1>7. CASE db' = c
  <2>1. Allowed(db, d)
    BY <1>1, ClosesAllowed
  <2> HIDE DEF c
  <2> QED BY <1>5, <1>7, <2>1, StayAllowed DEF ReqStep
<1>8. ASSUME Active(d) = {}, NEW r \in FreeRids(d), NEW e, ReqSound(e), Allowed(d, e),
             \A y \in Rids \ {r} : e.req[y] = d.req[y]
      PROVE  ReqStep(db, e)
  BY <1>1, <1>6, <1>8, DropAllowed DEF ReqStep
<1>9. Active(d) = {} => Idle(d)
  BY <1>1, <1>4 DEF Idle, ReqSound
<1>10. ASSUME Active(d) = {}, PendingQr(d) # {}, NEW r \in FreeRids(d),
              db' = AdoptPending(c, r)
       PROVE  ReqStep(db, db')
  <2>1. ActiveQr(d) = {}
    BY <1>10 DEF ActiveQr
  <2>2. \A y \in Rids : c.req[y] = d.req[y]
    BY <1>5, <2>1
  <2>3. c.order.status = "open" /\ c.order.pay # "paid" /\ c.order.total = d.order.total
    BY <1>4, <1>5 DEF Harmless
  <2> HIDE DEF c
  <2>4. Idle(c)
    BY <1>5, <1>10, <2>3 DEF Idle, ReqSound
  <2>5. ReqSound(db') /\ Allowed(c, db') /\ \A y \in Rids \ {r} : db'.req[y] = c.req[y]
    BY <1>5, <1>6, <1>10, <2>2, <2>3, <2>4, AdoptSound
  <2>6. Allowed(d, db')
    BY <2>2, <2>5 DEF Allowed
  <2> QED BY <1>8, <1>10, <2>2, <2>5, <2>6
<1>11. ASSUME Active(d) = {}, NEW r \in FreeRids(d), db' = CashCall(d, r)
       PROVE  ReqStep(db, db')
  BY <1>6, <1>8, <1>9, <1>11, CashCallSound
<1>12. ASSUME Active(d) = {}, NEW r \in FreeRids(d), NEW p \in FreePids(d),
              db' = VietQrRequest(d, r, p)
       PROVE  ReqStep(db, db')
  <2>1. p \in Pids
    BY DEF FreePids, With
  <2> QED BY <1>6, <1>8, <1>9, <1>12, <2>1, VietQrRequestSound
<1> HIDE DEF c
<1> QED BY <1>3, <1>7, <1>10, <1>11, <1>12

LEMMA PosStep ==
  ASSUME Sound(db), ReqSound(db), Pos PROVE ReqStep(db, db')
<1>1. ASSUME NEW m \in Tender, CheckOrder(m) \/ CallsOver(m)
      PROVE  ReqStep(db, db')
  BY <1>1, SameStep DEF CheckOrder, CallsOver
<1>2. ASSUME CashConfirmed PROVE ReqStep(db, db')
  BY <1>2, TargetFits, ConfirmStep DEF CashConfirmed, Unpaid
<1>3. ASSUME VietQrCreated PROVE ReqStep(db, db')
  BY <1>3, TargetFits, RemoteIntentStep DEF VietQrCreated, Unpaid, Order
<1>4. ASSUME NEW p \in Pids, PendingCancelled(p) PROVE ReqStep(db, db')
  BY <1>4, CancelPendingSound, ClosesStep DEF PendingCancelled
<1>5. ASSUME NEW p \in Pids, PaidOrderRefunded(p) PROVE ReqStep(db, db')
  BY <1>5, SettledStep DEF PaidOrderRefunded, Tender
<1>6. ASSUME NEW t \in Totals, BillEdited(t) PROVE ReqStep(db, db')
  BY <1>6, ChangeTotalStep DEF BillEdited, Unpaid
<1>7. ASSUME OrderCancelled PROVE ReqStep(db, db')
  BY <1>7, CancelOrderStep DEF OrderCancelled, IsOpen
<1> QED BY <1>1, <1>2, <1>3, <1>4, <1>5, <1>6, <1>7 DEF Pos

LEMMA SelfOrderStep ==
  ASSUME Sound(db), ReqSound(db), SelfOrder PROVE ReqStep(db, db')
<1>1. ASSUME NEW m, GuestRequests(m) PROVE ReqStep(db, db')
  BY <1>1, GuestStep
<1>2. ASSUME NEW r \in Rids, GuestCancelsVietQr(r) PROVE ReqStep(db, db')
  BY <1>2, RequestEnds, ClosesStep DEF GuestCancelsVietQr, ActiveQr
<1>3. ASSUME NEW r \in Rids, StaffCancelsRequest(r) \/ RequestExpired(r)
      PROVE  ReqStep(db, db')
  BY <1>3, RequestEnds, ClosesStep DEF StaffCancelsRequest, RequestExpired
<1>4. ASSUME NEW r \in Rids, RequestDue(r) PROVE ReqStep(db, db')
  BY <1>4, DueStep
<1> QED BY <1>1, <1>2, <1>3, <1>4 DEF SelfOrder

LEMMA SettledRequests ==
  ASSUME Sound(db), ReqSound(db), CanConfirm(db), NEW e, NEW p \in Target(db), Settled(e, p)
  PROVE  ReqStep(db, db')
<1>1. db' = ConfirmSepay(db, p) /\ p \in Pids /\ Live(db) \subseteq {p}
  BY TargetFits DEF Settled
<1>2. CASE db.pay[p].status = "completed"
  BY <1>1, <1>2, SameStep DEF ConfirmSepay
<1>3. CASE db.pay[p].status # "completed"
  <2>1. db.order.pay # "paid"
    BY <1>3, TargetFits DEF CanConfirm
  <2> QED BY <1>1, <1>3, <2>1, ConfirmStep
<1> QED BY <1>2, <1>3

LEMMA FinanceStep ==
  ASSUME Sound(db), ReqSound(db), Finance PROVE ReqStep(db, db')
<1>1. ASSUME NEW p \in Pids, NEW m \in Tender, MethodCorrected(p, m)
      PROVE  ReqStep(db, db')
  BY <1>1, SettledStep DEF MethodCorrected
<1>2. ASSUME NEW p \in Pids, PaymentReversed(p) PROVE ReqStep(db, db')
  BY <1>2, SettledStep DEF PaymentReversed, Tender
<1>3. ASSUME NEW e \in Transfers, NEW p \in Pids, TransferLinked(e, p)
      PROVE  ReqStep(db, db')
  BY <1>3, SameStep DEF TransferLinked
<1>4. ASSUME NEW e \in Transfers, NEW p \in Pids, TransferReplayed(e, p)
      PROVE  ReqStep(db, db')
  <2>1. p \in PendingQr(db) /\ Settled(e, p) /\ CanConfirm(db)
    BY <1>4 DEF TransferReplayed
  <2>2. p \in Live(db)
    BY <2>1, LiveParts
  <2>3. p \in Target(db)
    BY <2>2, LatestIn DEF Sound, OneLive, Target
  <2> QED BY <2>1, <2>3, SettledRequests
<1> QED BY <1>1, <1>2, <1>3, <1>4 DEF Finance

LEMMA WebhookStep ==
  ASSUME Sound(db), ReqSound(db), Webhook PROVE ReqStep(db, db')
<1>1. ASSUME NEW h \in Hooks, NEW ok \in BOOLEAN, NEW answered \in BOOLEAN,
             HookReconciles(h, ok, answered)
      PROVE  ReqStep(db, db')
  <2>1. \/ db' = db
        \/ /\ Verdict(db, hook[h].event) = "none"
           /\ \E p \in Target(db) : Settled(hook[h].event, p)
    BY <1>1 DEF HookReconciles, Reconcile
  <2>2. Verdict(db, hook[h].event) = "none" => CanConfirm(db)
    BY DEF Verdict
  <2> QED BY <2>1, <2>2, SameStep, SettledRequests
<1>2. ASSUME NEW e \in Transfers, NEW a \in Totals \ {0}, NEW c \in BOOLEAN,
             TransferSent(e, a, c)
      PROVE  db' = db
  BY <1>2 DEF TransferSent
<1>3. ASSUME NEW h \in Hooks, NEW e \in Transfers, Delivered(h, e) PROVE db' = db
  BY <1>3 DEF Delivered
<1>4. ASSUME NEW h \in Hooks,
             HookCallFails(h) \/ HookMarksFailed(h) \/ HookReplies(h) \/ HookDies(h)
      PROVE  db' = db
  BY <1>4 DEF HookCallFails, HookMarksFailed, HookReplies, HookDies
<1> QED BY <1>1, <1>2, <1>3, <1>4, SameStep DEF Webhook

LEMMA NextStep ==
  ASSUME Sound(db), ReqSound(db), [Next]_vars PROVE ReqStep(db, db')
<1>1. ASSUME NEW p \in Pids, PaymentAbandoned(p) PROVE ReqStep(db, db')
  BY <1>1, FailSound, ClosesStep DEF PaymentAbandoned
<1>2. CASE UNCHANGED vars
  BY <1>2, SameStep DEF vars
<1> QED BY <1>1, <1>2, PosStep, SelfOrderStep, FinanceStep, WebhookStep DEF Next

LEMMA InitReq == Init => ReqSound(db)
<1> SUFFICES ASSUME Init PROVE ReqSound(db)
  OBVIOUS
<1>1. PICK t \in Totals : db = NewOrder(t)
  BY DEF Init
<1>2. ReqTyped(db) /\ \A r \in Rids : db.req[r].status = "absent" /\ ~db.req[r].byGuest
  BY <1>1, LedgerAssumption DEF NewOrder, Request, Requests, RequestStatus, ReqTyped
<1> QED BY <1>2 DEF ReqSound, ReqBound, OneActive, Waits, Past, Fresh, Active, ActiveQr

LEMMA ReqInvariant == Spec => [](Sound(db) /\ ReqSound(db))
<1>1. Sound(db) /\ ReqSound(db) /\ [Next]_vars => ReqSound(db)'
  <2>1. SUFFICES ASSUME Sound(db), ReqSound(db), [Next]_vars PROVE ReqSound(db')
    BY DEF ReqSound, ReqBound, ReqTyped, OneActive, Waits, Past, Fresh, Active, ActiveQr,
           PendingQr, TakenOf, With
  <2> QED BY <2>1, NextStep DEF ReqStep
<1> QED BY SoundInvariant, InitReq, <1>1, PTL DEF Spec

-----------------------------------------------------------------------------
(* The theorems.                                                           *)

\* A code a guest may scan is good, whatever cashiers edit, cancel or take over
\* meanwhile: it belongs to a payment that waits for the total of an open bill.
THEOREM LiveQrIsPayableHolds == Spec => []LiveQrIsPayable
<1>1. ReqSound(db) => LiveQrIsPayable
  BY DEF ReqSound, ReqBound, Waits, Fresh, ActiveQr, LiveQrIsPayable, IsOpen, Unpaid, Order
<1> QED BY ReqInvariant, <1>1, PTL

\* What the guest's phone shows as paid was paid, also by a transfer that came
\* after the guest had given up, and after a correction or a refund.
THEOREM CompletedRequestIsPaidHolds == Spec => []CompletedRequestIsPaid
<1>1. ReqSound(db) => CompletedRequestIsPaid
  BY DEF ReqSound, ReqBound, Past, CompletedRequestIsPaid, TakenOf
<1> QED BY ReqInvariant, <1>1, PTL

\* self_order_enforce_payment_request_invariants has nothing to refuse: no call
\* dies of it half way.
THEOREM TriggerNeverRefuses == Spec => RequestTriggerNeverRefuses
<1>1. ASSUME Sound(db), ReqSound(db), [Next]_vars
      PROVE  [\A r \in Rids : db.req[r].status # "absent" =>
                RequestStepAllowed(db.req[r], db'.req[r])]_db
  <2> SUFFICES ASSUME NEW r \in Rids, db.req[r].status # "absent"
               PROVE  RequestStepAllowed(db.req[r], db'.req[r])
    OBVIOUS
  <2>1. \/ Stays(db.req[r], db'.req[r])
        \/ Drops(db.req[r], db'.req[r])
        \/ IsPaid(db.req[r], db'.req[r])
    BY <1>1, NextStep DEF ReqStep, Allowed
  <2>2. db.req[r].status = "completed" => db.req[r].payment # NoPay
    BY <1>1 DEF ReqSound, ReqBound, Past, TakenOf, With, Pids, NoPay
  <2> QED BY <2>1, <2>2 DEF Stays, Drops, IsPaid, RequestStepAllowed
<1> QED BY ReqInvariant, <1>1, PTL DEF Spec, RequestTriggerNeverRefuses

-----------------------------------------------------------------------------
(* Types.                                                                  *)

\* What TypeOK says of everything but the tables, and that an activation that
\* is at work works on a transfer.
RestTyped ==
  /\ desk   \subseteq Tender
  /\ match  \in [Transfers -> Pids \union {NoPay}]
  /\ hook   \in [Hooks -> HookRecord]
  /\ \A h \in Hooks : hook[h].pc # "idle" => hook[h].event \in Transfers
  /\ acked  \subseteq Transfers
  /\ faults \in 0 .. MaxFaults
  /\ edits  \in 0 .. MaxEdits

LEMMA FaultTyped ==
  ASSUME faults \in 0 .. MaxFaults, Fault \/ faults' = faults
  PROVE  faults' \in 0 .. MaxFaults
BY BoundsAssumption DEF Fault

\* A match is written for a payment.
LEMMA MatchTyped ==
  ASSUME match \in [Transfers -> Pids \union {NoPay}], NEW d, NEW e, NEW p \in Pids
  PROVE  EnsureMatch(d, e, p) \in [Transfers -> Pids \union {NoPay}]
BY DEF EnsureMatch

LEMMA ReconcileTyped ==
  ASSUME Sound(db), EvidenceInv, RestTyped, NEW e \in Transfers, NEW ok, Reconcile(e, ok)
  PROVE  match' \in [Transfers -> Pids \union {NoPay}]
<1>1. match \in [Transfers -> Pids \union {NoPay}]
  BY DEF RestTyped
<1>2. CASE match' = match
  BY <1>1, <1>2
<1>3. CASE Matched(e) /\ match' = EnsureMatch(db, e, event[e].payment)
  <2>1. event[e].payment \in Pids
    BY <1>3 DEF Matched, EvidenceInv, EventRecord
  <2> QED BY <1>1, <1>3, <2>1, MatchTyped
<1>4. ASSUME NEW p \in Target(db), Settled(e, p)
      PROVE  match' \in [Transfers -> Pids \union {NoPay}]
  BY <1>1, <1>4, TargetFits, MatchTyped DEF Settled
<1> QED BY <1>2, <1>3, <1>4 DEF Reconcile

\* An activation moves on: the record it is left with.
LEMMA HookTyped ==
  ASSUME RestTyped, NEW h \in Hooks, NEW x \in HookRecord,
         x.pc # "idle" => x.event \in Transfers, hook' = [hook EXCEPT ![h] = x]
  PROVE  /\ hook' \in [Hooks -> HookRecord]
         /\ \A g \in Hooks : hook'[g].pc # "idle" => hook'[g].event \in Transfers
BY DEF RestTyped

LEMMA WebhookTyped ==
  ASSUME Sound(db), EvidenceInv, RestTyped, Webhook PROVE RestTyped'
<1>1. ASSUME NEW e \in Transfers, NEW a \in Totals \ {0}, NEW c \in BOOLEAN,
             TransferSent(e, a, c)
      PROVE  RestTyped'
  BY <1>1 DEF TransferSent, RestTyped, sepay
<1>2. ASSUME NEW h \in Hooks, NEW e \in Transfers, Delivered(h, e)
      PROVE  RestTyped'
  <2> DEFINE x == [pc |-> "reconcile", event |-> e]
  <2>1. x \in HookRecord /\ x.event \in Transfers
    BY DEF HookRecord
  <2>2. faults' \in 0 .. MaxFaults
    BY <1>2, FaultTyped DEF Delivered, RestTyped
  <2>3. \/ hook' = hook /\ acked' = acked \union {e}
        \/ hook' = [hook EXCEPT ![h] = x] /\ acked' = acked
    BY <1>2 DEF Delivered
  <2>4. /\ hook' \in [Hooks -> HookRecord] /\ acked' \subseteq Transfers
        /\ \A g \in Hooks : hook'[g].pc # "idle" => hook'[g].event \in Transfers
    <3> HIDE DEF x
    <3> QED BY <2>1, <2>3, HookTyped DEF RestTyped
  <2>5. UNCHANGED <<desk, match, edits>>
    BY <1>2 DEF Delivered
  <2> QED BY <2>2, <2>4, <2>5 DEF RestTyped
<1>3. ASSUME NEW h \in Hooks, NEW ok \in BOOLEAN, NEW answered \in BOOLEAN,
             HookReconciles(h, ok, answered)
      PROVE  RestTyped'
  <2> DEFINE x == [hook[h] EXCEPT !.pc = IF answered THEN "reply" ELSE "mark"]
  <2>1. hook[h] \in HookRecord /\ hook[h].event \in Transfers
    BY <1>3 DEF HookReconciles, RestTyped
  <2>2. x \in HookRecord /\ x.event \in Transfers
    BY <2>1 DEF HookRecord
  <2>3. hook' = [hook EXCEPT ![h] = x]
    BY <1>3 DEF HookReconciles
  <2> HIDE DEF x
  <2>4. /\ hook' \in [Hooks -> HookRecord]
        /\ \A g \in Hooks : hook'[g].pc # "idle" => hook'[g].event \in Transfers
    BY <2>2, <2>3, HookTyped
  <2>5. faults' \in 0 .. MaxFaults
    BY <1>3, FaultTyped DEF HookReconciles, RestTyped
  <2>6. match' \in [Transfers -> Pids \union {NoPay}]
    BY <1>3, <2>1, ReconcileTyped DEF HookReconciles
  <2>7. UNCHANGED <<desk, acked, edits>>
    BY <1>3 DEF HookReconciles
  <2> QED BY <2>4, <2>5, <2>6, <2>7 DEF RestTyped
<1>4. ASSUME NEW h \in Hooks, HookCallFails(h) PROVE RestTyped'
  <2> DEFINE x == [hook[h] EXCEPT !.pc = "mark"]
  <2>1. hook[h] \in HookRecord /\ hook[h].event \in Transfers
    BY <1>4 DEF HookCallFails, RestTyped
  <2>2. x \in HookRecord /\ x.event \in Transfers
    BY <2>1 DEF HookRecord
  <2>3. hook' = [hook EXCEPT ![h] = x]
    BY <1>4 DEF HookCallFails
  <2> HIDE DEF x
  <2>4. /\ hook' \in [Hooks -> HookRecord]
        /\ \A g \in Hooks : hook'[g].pc # "idle" => hook'[g].event \in Transfers
    BY <2>2, <2>3, HookTyped
  <2>5. faults' \in 0 .. MaxFaults
    BY <1>4, FaultTyped DEF HookCallFails, RestTyped
  <2>6. UNCHANGED <<desk, match, acked, edits>>
    BY <1>4 DEF HookCallFails, bank
  <2> QED BY <2>4, <2>5, <2>6 DEF RestTyped
<1>5. ASSUME NEW h \in Hooks, HookMarksFailed(h) \/ HookReplies(h) \/ HookDies(h)
      PROVE  RestTyped'
  <2>1. IdleHook \in HookRecord /\ IdleHook.pc = "idle"
    BY DEF IdleHook, HookRecord
  <2>2. hook' = [hook EXCEPT ![h] = IdleHook]
    BY <1>5 DEF HookMarksFailed, HookReplies, HookDies
  <2>3. /\ hook' \in [Hooks -> HookRecord]
        /\ \A g \in Hooks : hook'[g].pc # "idle" => hook'[g].event \in Transfers
    BY <2>1, <2>2, HookTyped
  <2>4. acked' \subseteq Transfers
    BY <1>5 DEF HookMarksFailed, HookReplies, HookDies, RestTyped
  <2>5. faults' \in 0 .. MaxFaults
    BY <1>5, FaultTyped DEF HookMarksFailed, HookReplies, HookDies, RestTyped
  <2>6. UNCHANGED <<desk, match, edits>>
    BY <1>5 DEF HookMarksFailed, HookReplies, HookDies, bank
  <2> QED BY <2>3, <2>4, <2>5, <2>6 DEF RestTyped
<1> QED BY <1>1, <1>2, <1>3, <1>4, <1>5 DEF Webhook

LEMMA FinanceTyped ==
  ASSUME Sound(db), EvidenceInv, RestTyped, Finance PROVE RestTyped'
<1>1. match' \in [Transfers -> Pids \union {NoPay}]
  <2>1. match \in [Transfers -> Pids \union {NoPay}]
    BY DEF RestTyped
  <2>2. ASSUME NEW e \in Transfers, NEW p \in Pids,
               TransferLinked(e, p) \/ TransferReplayed(e, p)
        PROVE  match' \in [Transfers -> Pids \union {NoPay}]
    BY <2>1, <2>2, MatchTyped DEF TransferLinked, TransferReplayed, Settled
  <2>3. CASE match' = match
    BY <2>1, <2>3
  <2> QED BY <2>2, <2>3 DEF Finance, MethodCorrected, PaymentReversed, bank
<1>2. UNCHANGED <<desk, hook, acked, faults, edits>>
  BY DEF Finance, MethodCorrected, PaymentReversed, TransferLinked, TransferReplayed, sepay
<1> QED BY <1>1, <1>2 DEF RestTyped

LEMMA NextTyped ==
  ASSUME Sound(db), EvidenceInv, RestTyped, [Next]_vars PROVE RestTyped'
<1>1. CASE Pos
  <2>1. UNCHANGED <<match, hook, acked, faults>>
    BY <1>1 DEF Pos, CheckOrder, CallsOver, CashConfirmed, VietQrCreated, PendingCancelled,
                PaidOrderRefunded, BillEdited, OrderCancelled, bank, sepay
  <2>2. desk' \subseteq Tender
    BY <1>1 DEF Pos, CheckOrder, CallsOver, CashConfirmed, VietQrCreated, PendingCancelled,
                PaidOrderRefunded, BillEdited, OrderCancelled, RestTyped
  <2>3. \/ edits' = edits
        \/ edits < MaxEdits /\ edits' = edits + 1
    BY <1>1 DEF Pos, CheckOrder, CallsOver, CashConfirmed, VietQrCreated, PendingCancelled,
                PaidOrderRefunded, BillEdited, OrderCancelled
  <2>4. edits' \in 0 .. MaxEdits
    BY <2>3, BoundsAssumption DEF RestTyped
  <2> QED BY <2>1, <2>2, <2>4 DEF RestTyped
<1>2. CASE SelfOrder
  <2>1. UNCHANGED <<desk, match, hook, acked, faults, edits>>
    BY <1>2 DEF SelfOrder, GuestRequests, GuestCancelsVietQr, StaffCancelsRequest,
                RequestExpired, RequestDue, bank, sepay
  <2> QED BY <2>1 DEF RestTyped
<1>3. ASSUME NEW p \in Pids, PaymentAbandoned(p) PROVE RestTyped'
  BY <1>3 DEF PaymentAbandoned, RestTyped, bank, sepay
<1>4. CASE UNCHANGED vars
  BY <1>4 DEF vars, RestTyped
<1> QED BY <1>1, <1>2, <1>3, <1>4, FinanceTyped, WebhookTyped DEF Next

\* Every row stays in its table's checks, every activation and bound in its range.
THEOREM TypeCorrect == Spec => []TypeOK
<1>1. Init => RestTyped
  BY BoundsAssumption DEF Init, RestTyped, HookRecord, IdleHook, NoPay
<1>2. Sound(db) /\ EvidenceInv /\ RestTyped /\ [Next]_vars => RestTyped'
  BY NextTyped
<1>3. Sound(db) /\ ReqSound(db) => db \in Ledgers
  <2> SUFFICES ASSUME Sound(db), ReqSound(db) PROVE db \in Ledgers
    OBVIOUS
  <2>1. /\ db = [order |-> db.order, pay |-> db.pay, req |-> db.req]
        /\ db.order \in Orders /\ db.pay \in [Pids -> Payments]
        /\ db.req \in [Rids -> Requests]
    BY DEF Sound, IsLedger, ReqSound, ReqBound, ReqTyped
  <2> QED BY <2>1 DEF Ledgers
<1>4. db \in Ledgers /\ EvidenceInv /\ RestTyped => TypeOK
  BY DEF EvidenceInv, RestTyped, TypeOK
<1> QED BY ReqInvariant, EvidenceInvariant, <1>1, <1>2, <1>3, <1>4, PTL DEF Spec
=============================================================================
