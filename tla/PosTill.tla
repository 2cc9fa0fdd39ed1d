------------------------------ MODULE PosTill ------------------------------
(***************************************************************************)
(* The till of one branch: shifts (pos_sessions), the orders rung in them, *)
(* the payments whose cash the till holds, and the figures a closed shift  *)
(* is judged by.                                                           *)
(*                                                                         *)
(* now() in SQL is the start of the transaction, so a call that waits for  *)
(* a lock commits later than its timestamps say.  Opening a shift, closing *)
(* it and completing a payment are therefore two steps: the call begins    *)
(* and takes its time, then it commits.  Corrections, refunds and          *)
(* resolutions write no time that is compared, and are one step.  Every    *)
(* bill has the same amount, larger than the tolerated variance; cash is   *)
(* counted in bills, without the opening cash; "vietqr" stands for every   *)
(* method but cash, between which nothing is corrected.                    *)
(***************************************************************************)
EXTENDS Integers, FiniteSets

CONSTANTS
  Orders,
  Relayed,       \* orders a delivery relay creates, without a shift
  Counts,        \* what a cashier may count in the till
  MaxSessions,   \* bound: shifts
  MaxShiftCalls, \* bound: openings and closings under way at once
  MaxClock       \* bound: calls that take a time

ASSUME TillConstants ==
  /\ IsFiniteSet(Orders)
  /\ Relayed \subseteq Orders
  /\ Counts \subseteq Nat
  /\ MaxShiftCalls \in Nat
  /\ MaxSessions \in Nat
  /\ MaxClock \in Nat

VARIABLES
  session,       \* pos_sessions
  order,         \* orders with their payment
  clock,         \* the time of the next call
  opens,         \* start times of shift openings under way
  closes,        \* closings under way: the shift and the start time
  paying,        \* start time of the payment call under way, or NoTime
  rushed         \* history: its payment call overlapped an opening or closing

vars == <<session, order, clock, opens, closes, paying, rushed>>

Sessions  == 1 .. MaxSessions
NoSession == 0
Times     == 1 .. MaxClock
NoTime    == 0

\* booked: the payments summed in expected_cash; counted: closing_cash.
SessionRecord ==
  [status : {"none", "open", "closed"}, openedAt : Times \cup {NoTime},
   closedAt : Times \cup {NoTime}, booked : SUBSET Orders, counted : Counts \cup {0},
   resolution : {"none", "staff_repaid", "accepted_adjustment"},
   settlement : Nat]

OrderRecord ==
  [pay : {"absent", "unpaid", "completed", "refunded"},
   method : {"none", "cash", "vietqr"},
   paidAt : Times \cup {NoTime}, tag : Sessions \cup {NoSession}]

\* Every row keeps the checks of its table; a settlement is never negative.
TypeOK ==
  /\ session \in [Sessions -> SessionRecord]
  /\ order \in [Orders -> OrderRecord]
  /\ clock \in 1 .. MaxClock + 1
  /\ opens \subseteq Times
  /\ closes \subseteq [session : Sessions, at : Times]
  /\ paying \in [Orders -> Times \cup {NoTime}]
  /\ rushed \subseteq Orders

Init ==
  /\ session = [s \in Sessions |->
                  [status |-> "none", openedAt |-> NoTime, closedAt |-> NoTime,
                   booked |-> {}, counted |-> 0, resolution |-> "none",
                   settlement |-> 0]]
  /\ order = [o \in Orders |-> [pay |-> "absent", method |-> "none",
                                paidAt |-> NoTime, tag |-> NoSession]]
  /\ clock = 1
  /\ opens = {}
  /\ closes = {}
  /\ paying = [o \in Orders |-> NoTime]
  /\ rushed = {}

With(status)  == {s \in Sessions : session[s].status = status}
Open          == With("open")
Closed        == With("closed")
UnderWay      == {o \in Orders : paying[o] # NoTime}
Difference(s) == session[s].counted - Cardinality(session[s].booked)

\* The payment's time lies in the shift's window, which ends at t while the
\* shift is open.
InWindow(o, s, t) ==
  /\ session[s].openedAt <= order[o].paidAt
  /\ order[o].paidAt <= IF session[s].status = "closed"
                        THEN session[s].closedAt ELSE t

\* pos_session_cash_revenue
CashRevenue(s, t) ==
  {o \in Orders : /\ order[o].pay = "completed"
                  /\ order[o].method = "cash"
                  /\ InWindow(o, s, t)}

-----------------------------------------------------------------------------
(* Shifts.                                                                 *)

Begin      == clock <= MaxClock /\ clock' = clock + 1
ShiftCall  == Begin /\ Cardinality(opens) + Cardinality(closes) < MaxShiftCalls

\* openPosSession: one INSERT.
OpenBegun ==
  /\ ShiftCall
  /\ opens' = opens \cup {clock}
  /\ rushed' = rushed \cup UnderWay
  /\ UNCHANGED <<session, order, closes, paying>>

\* The unique index admits one open shift of the branch.
SessionOpened(t) ==
  /\ t \in opens
  /\ Open = {}
  /\ \E s \in With("none") :
       /\ \A r \in With("none") : s <= r
       /\ session' = [session EXCEPT ![s].status = "open", ![s].openedAt = t]
  /\ opens' = opens \ {t}
  /\ UNCHANGED <<order, clock, closes, paying, rushed>>

\* closePosSession reads the shift before it calls close_pos_session.
CloseBegun(s) ==
  /\ s \in Open
  /\ ShiftCall
  /\ closes' = closes \cup {[session |-> s, at |-> clock]}
  /\ rushed' = rushed \cup UnderWay
  /\ UNCHANGED <<session, order, opens, paying>>

\* Mutant: a shift that another device has closed is closed once more.
SessionClosedAgain(c, n) ==
  /\ c \in closes
  /\ session' = [session EXCEPT ![c.session] =
                   [@ EXCEPT !.status = "closed", !.closedAt = c.at,
                             !.counted = n, !.booked = CashRevenue(c.session, c.at),
                             !.resolution = "none", !.settlement = 0]]
  /\ closes' = closes \ {c}
  /\ UNCHANGED <<order, clock, opens, paying, rushed>>

\* close_pos_session
SessionClosed(c, n) ==
  /\ c \in closes
  /\ session[c.session].status = "open"
  /\ session' = [session EXCEPT ![c.session] =
                   [@ EXCEPT !.status = "closed", !.closedAt = c.at,
                             !.counted = n, !.booked = CashRevenue(c.session, c.at),
                             !.resolution = "none", !.settlement = 0]]
  /\ closes' = closes \ {c}
  /\ UNCHANGED <<order, clock, opens, paying, rushed>>

\* Mutant: the settlement is the variance with its sign.
VarianceResolvedSigned(s, r) ==
  /\ s \in Closed
  /\ Difference(s) # 0
  /\ session[s].resolution = "none"
  /\ r = "staff_repaid" => Difference(s) < 0
  /\ session' = [session EXCEPT ![s].resolution = r,
                   ![s].settlement = IF r = "staff_repaid" THEN Difference(s) ELSE 0]
  /\ UNCHANGED <<order, clock, opens, closes, paying, rushed>>

\* resolve_pos_session_variance
VarianceResolved(s, r) ==
  /\ s \in Closed
  /\ Difference(s) # 0
  /\ session[s].resolution = "none"
  /\ r = "staff_repaid" => Difference(s) < 0
  /\ session' = [session EXCEPT ![s].resolution = r,
                   ![s].settlement = IF r = "staff_repaid" THEN -Difference(s)
                                     ELSE 0]
  /\ UNCHANGED <<order, clock, opens, closes, paying, rushed>>

-----------------------------------------------------------------------------
(* Orders and payments.                                                    *)

\* create_order: the POS and a self-order name the open shift, a relay none.
OrderCreated(o) ==
  /\ order[o].pay = "absent"
  /\ \E s \in IF o \in Relayed THEN {NoSession} ELSE Open :
       order' = [order EXCEPT ![o].pay = "unpaid", ![o].tag = s]
  /\ UNCHANGED <<session, clock, opens, closes, paying, rushed>>

\* split_order: the new order has the shift of its source.
OrderSplit(source, o) ==
  /\ order[source].pay = "unpaid"
  /\ order[o].pay = "absent"
  /\ order' = [order EXCEPT ![o].pay = "unpaid", ![o].tag = order[source].tag]
  /\ UNCHANGED <<session, clock, opens, closes, paying, rushed>>

PayBegun(o) ==
  /\ order[o].pay = "unpaid"
  /\ paying[o] = NoTime
  /\ Begin
  /\ paying' = [paying EXCEPT ![o] = clock]
  /\ rushed' = IF opens = {} /\ closes = {} THEN rushed ELSE rushed \cup {o}
  /\ UNCHANGED <<session, order, opens, closes>>

\* Mutant: the order keeps the shift it was rung in.
ReboundNot(tag) == tag

\* Trigger: an order of a closed shift moves to the open one when it is paid.
Rebound(tag) ==
  IF tag \in Closed /\ Open # {} THEN CHOOSE s \in Open : TRUE ELSE tag

\* complete_payment_and_consume_stock, called by every way to take a payment.
Paid(o, m) ==
  /\ paying[o] # NoTime
  /\ order' = [order EXCEPT ![o] =
                 [pay |-> "completed", method |-> m, paidAt |-> paying[o],
                  tag |-> Rebound(@.tag)]]
  /\ paying' = [paying EXCEPT ![o] = NoTime]
  /\ UNCHANGED <<session, clock, opens, closes, rushed>>

\* A call is refused (the shift is closed, another one is open) or rolled back.
CallDropped ==
  /\ \/ \E t \in opens : opens' = opens \ {t} /\ UNCHANGED <<closes, paying>>
     \/ \E c \in closes : closes' = closes \ {c} /\ UNCHANGED <<opens, paying>>
     \/ \E o \in UnderWay : /\ paying' = [paying EXCEPT ![o] = NoTime]
                            /\ UNCHANGED <<opens, closes>>
  /\ UNCHANGED <<session, order, clock, rushed>>

\* Mutant: the resolution survives the correction.
RecountedOnly(o, m) ==
  LET s == order[o].tag IN
  IF s \in Closed
  THEN [session EXCEPT ![s].booked =
          (CashRevenue(s, clock) \ {o}) \cup
          {p \in {o} : m = "cash" /\ InWindow(o, s, clock)}]
  ELSE session

\* The shift the order is in, when it is closed, is summed again over its
\* window with the corrected methods, and its resolution is void.
Recounted(o, m) ==
  LET s == order[o].tag IN
  IF s \in Closed
  THEN [session EXCEPT ![s] =
          [@ EXCEPT !.booked = (CashRevenue(s, clock) \ {o}) \cup
                               {p \in {o} : m = "cash" /\ InWindow(o, s, clock)},
                    !.resolution = "none", !.settlement = 0]]
  ELSE session

\* correct_payment_method; bank evidence may refuse "cash".
MethodCorrected(o, m) ==
  /\ order[o].pay = "completed"
  /\ order[o].method # m
  /\ order' = [order EXCEPT ![o].method = m]
  /\ session' = Recounted(o, m)
  /\ UNCHANGED <<clock, opens, closes, paying, rushed>>

\* pos_convert_cash_payment_to_vietqr
CashConverted(o) ==
  /\ order[o].pay = "completed"
  /\ order[o].method = "cash"
  /\ order' = [order EXCEPT ![o].method = "vietqr"]
  /\ session' = Recounted(o, "vietqr")
  /\ UNCHANGED <<clock, opens, closes, paying, rushed>>

\* refund_paid_order, reverse_payment_and_post: no shift is looked at.
Refunded(o) ==
  /\ order[o].pay = "completed"
  /\ order' = [order EXCEPT ![o].pay = "refunded"]
  /\ UNCHANGED <<session, clock, opens, closes, paying, rushed>>

-----------------------------------------------------------------------------
ShiftStep ==
  \/ OpenBegun
  \/ \E t \in opens : SessionOpened(t)
  \/ \E s \in Sessions : CloseBegun(s)
  \/ \E c \in closes, n \in Counts : SessionClosed(c, n)
  \/ \E s \in Sessions, r \in {"staff_repaid", "accepted_adjustment"} :
       VarianceResolved(s, r)

OrderStep ==
  \/ \E o \in Orders : OrderCreated(o) \/ PayBegun(o)
  \/ \E o, p \in Orders : OrderSplit(o, p)
  \/ \E o \in Orders, m \in {"cash", "vietqr"} : Paid(o, m) \/ MethodCorrected(o, m)
  \/ \E o \in Orders : CashConverted(o) \/ Refunded(o)

Next == ShiftStep \/ OrderStep \/ CallDropped

Spec == Init /\ [][Next]_vars
-----------------------------------------------------------------------------
(* Properties.                                                             *)

\* The shifts whose window holds the payment.
TillOf(o) == {s \in Open \cup Closed : InWindow(o, s, clock)}

\* A payment that no opening or closing overlapped belongs to one till at
\* most; when it has one, an order rung in any shift, paid late or carried
\* forward, is listed in that shift, and after its close the payment is in the
\* expected cash exactly while its recorded method is cash.
FiledInItsTill ==
  \A o \in Orders \ rushed :
    order[o].pay = "completed" =>
      /\ Cardinality(TillOf(o)) <= 1
      /\ \A s \in TillOf(o) : order[o].tag # NoSession =>
           /\ order[o].tag = s
           /\ s \in Closed => (o \in session[s].booked
                                 <=> order[o].method = "cash")

\* docs/modules/finance.md:107, "the immutable physical-count record": a second
\* device closing the shift, late payments and new shifts leave a closed one as
\* it is; a correction moves the corrected payment in or out of its expected
\* cash, and with it only payments since refunded, that overlapped a close, or
\* of an order without a shift.
ClosedBooksHold ==
  [][\A s \in Closed :
       /\ session'[s].status = "closed"
       /\ session'[s].closedAt = session[s].closedAt
       /\ session'[s].counted = session[s].counted
       /\ \A o \in Orders \ rushed :
            /\ order[o].pay = "completed"
            /\ order[o].tag # NoSession
            /\ order'[o].method = order[o].method
            => (o \in session'[s].booked <=> o \in session[s].booked)]_vars

\* What the staff repaid for a shift is the shortage its books show now: no
\* correction made after the resolution leaves it standing.
ResolutionFits ==
  \A s \in Closed :
    /\ session[s].resolution # "none" => Difference(s) # 0
    /\ session[s].resolution = "staff_repaid" =>
         session[s].settlement = -Difference(s)

-----------------------------------------------------------------------------
(* What the repository says and the code does not keep.                    *)

\* payment-method-actions.ts:8, "recomputes a closed POS session from completed
\* payments": not the shift of an order without one, nor for a refund.
ExpectedIsTill ==
  \A s \in Closed : session[s].booked = CashRevenue(s, clock)
=============================================================================
