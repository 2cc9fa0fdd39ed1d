--------------------------- MODULE PosTillProofs ---------------------------
(***************************************************************************)
(* For any number of orders, shifts and calls: the rows of PosTill keep    *)
(* their types, a payment is filed in its till, the books of a closed      *)
(* shift hold, and a repayment fits the shortage.                          *)
(*                                                                         *)
(* The argument is about time.  A payment call that no opening or closing  *)
(* overlapped takes its time when no such call is under way, so every      *)
(* shift that is closed then has ended before it (Undisturbed), and every  *)
(* opening or closing that commits after it began after it (LaterCalls):   *)
(* only the shift that is open when it commits has it in its window.       *)
(***************************************************************************)
EXTENDS PosTill, FiniteSetTheorems, TLAPS

\* Every time that was taken has passed.
Clocked ==
  /\ \A s \in Sessions : session[s].openedAt < clock /\ session[s].closedAt < clock
  /\ \A t \in opens : t < clock
  /\ \A c \in closes : c.at < clock
  /\ \A o \in Orders : order[o].paidAt < clock /\ paying[o] < clock

OneOpen == \A r, s \in Open : r = s

PayingIsUnpaid == \A o \in UnderWay : order[o].pay = "unpaid"

TagInUse == \A o \in Orders : order[o].tag # NoSession => order[o].tag \in Open \cup Closed

Undisturbed ==
  \A o \in UnderWay \ rushed :
    /\ opens = {} /\ closes = {}
    /\ \A s \in Sessions : /\ session[s].openedAt < paying[o]
                           /\ session[s].closedAt < paying[o]

LaterCalls ==
  \A o \in Orders \ rushed :
    order[o].pay = "completed" =>
      /\ \A t \in opens : order[o].paidAt < t
      /\ \A c \in closes : order[o].paidAt < c.at

\* What a closed shift expects was paid in its window.
BookedInWindow ==
  \A s \in Closed : \A o \in session[s].booked :
    /\ order[o].pay \in {"completed", "refunded"}
    /\ session[s].openedAt <= order[o].paidAt
    /\ order[o].paidAt <= session[s].closedAt

\* The shifts that have the payment in their window, without the clock: the
\* window of an open shift has no end.
Within(o) ==
  {s \in Open \cup Closed : /\ session[s].openedAt <= order[o].paidAt
                            /\ s \in Closed => order[o].paidAt <= session[s].closedAt}

\* FiledInItsTill, with the count of the tills spelled out.
Filed ==
  \A o \in Orders \ rushed :
    order[o].pay = "completed" =>
      /\ \A r, s \in Within(o) : r = s
      /\ \A s \in Within(o) : order[o].tag # NoSession =>
           /\ order[o].tag = s
           /\ s \in Closed => (o \in session[s].booked <=> order[o].method = "cash")

\* What a closed shift and its list show, whatever calls are under way.
Shifts == OneOpen /\ TagInUse /\ BookedInWindow /\ Filed /\ ResolutionFits
Calls  == Clocked /\ PayingIsUnpaid /\ Undisturbed /\ LaterCalls

\* The inductive invariant.
IInv == TypeOK /\ Calls /\ Shifts

-----------------------------------------------------------------------------
(* Initial states, and steps that leave shifts and orders alone.           *)

LEMMA InitInv == Init => IInv
<1> SUFFICES ASSUME Init PROVE IInv
  OBVIOUS
<1>1. Open = {} /\ Closed = {} /\ UnderWay = {}
  BY DEF Init, Open, Closed, With, UnderWay
<1>2. TypeOK
  BY TillConstants DEF Init, TypeOK, SessionRecord, OrderRecord, Times
<1>3. Calls
  BY <1>1 DEF Init, Calls, Clocked, PayingIsUnpaid, Undisturbed, LaterCalls, NoTime
<1>4. Shifts
  BY <1>1 DEF Init, Shifts, OneOpen, TagInUse, BookedInWindow, Filed, ResolutionFits
<1> QED BY <1>2, <1>3, <1>4 DEF IInv

\* A call that begins or is dropped changes nothing a shift shows.
LEMMA CallsOnly ==
  ASSUME Shifts, UNCHANGED <<session, order>>, rushed \subseteq rushed'
  PROVE  Shifts'
<1>1. /\ Open' = Open /\ Closed' = Closed
      /\ \A o \in Orders : Within(o)' = Within(o)
      /\ \A s \in Sessions : Difference(s)' = Difference(s)
  BY DEF Open, Closed, With, Within, Difference
<1>2. OneOpen' /\ TagInUse' /\ BookedInWindow' /\ ResolutionFits'
  BY <1>1 DEF Shifts, OneOpen, TagInUse, BookedInWindow, ResolutionFits, Closed, With
<1>3. Filed'
  BY <1>1 DEF Shifts, Filed
<1> QED BY <1>2, <1>3 DEF Shifts

LEMMA OpenBegunInv == IInv /\ OpenBegun => IInv'
<1> SUFFICES ASSUME IInv, OpenBegun PROVE IInv'
  OBVIOUS
<1>1. /\ clock \in Times /\ clock' = clock + 1 /\ opens' = opens \cup {clock}
      /\ rushed' = rushed \cup UnderWay /\ UNCHANGED <<session, order, closes, paying>>
  BY TillConstants DEF OpenBegun, ShiftCall, Begin, IInv, TypeOK, Times
<1>2. TypeOK'
  BY <1>1, TillConstants DEF IInv, TypeOK, Times, UnderWay
<1>3. Clocked'
  BY <1>1 DEF IInv, Calls, Clocked, TypeOK, SessionRecord, OrderRecord, Times, NoTime
<1>4. PayingIsUnpaid' /\ Undisturbed'
  BY <1>1 DEF IInv, Calls, PayingIsUnpaid, Undisturbed, UnderWay
<1>5. LaterCalls'
  BY <1>1 DEF IInv, Calls, LaterCalls, Clocked
<1> QED BY <1>1, <1>2, <1>3, <1>4, <1>5, CallsOnly DEF IInv, Calls

LEMMA CloseBegunInv ==
  ASSUME IInv, NEW s \in Sessions, CloseBegun(s) PROVE IInv'
<1>1. /\ clock \in Times /\ clock' = clock + 1
      /\ closes' = closes \cup {[session |-> s, at |-> clock]}
      /\ rushed' = rushed \cup UnderWay /\ UNCHANGED <<session, order, opens, paying>>
  BY TillConstants DEF CloseBegun, ShiftCall, Begin, IInv, TypeOK, Times
<1>2. TypeOK'
  BY <1>1, TillConstants DEF IInv, TypeOK, Times, UnderWay
<1>3. Clocked'
  BY <1>1 DEF IInv, Calls, Clocked, TypeOK, SessionRecord, OrderRecord, Times, NoTime
<1>4. PayingIsUnpaid' /\ Undisturbed'
  BY <1>1 DEF IInv, Calls, PayingIsUnpaid, Undisturbed, UnderWay
<1>5. LaterCalls'
  BY <1>1 DEF IInv, Calls, LaterCalls, Clocked
<1> QED BY <1>1, <1>2, <1>3, <1>4, <1>5, CallsOnly DEF IInv, Calls

LEMMA PayBegunInv ==
  ASSUME IInv, NEW o \in Orders, PayBegun(o) PROVE IInv'
<1>1. /\ clock \in Times /\ clock' = clock + 1 /\ order[o].pay = "unpaid"
      /\ paying' = [paying EXCEPT ![o] = clock]
      /\ rushed' = IF opens = {} /\ closes = {} THEN rushed ELSE rushed \cup {o}
      /\ UNCHANGED <<session, order, opens, closes>>
  BY TillConstants DEF PayBegun, Begin, IInv, TypeOK, Times
<1>2. TypeOK'
  BY <1>1, TillConstants DEF IInv, TypeOK, Times
<1>3. Clocked'
  BY <1>1 DEF IInv, Calls, Clocked, TypeOK, SessionRecord, OrderRecord, Times, NoTime
<1>4. PayingIsUnpaid'
  BY <1>1 DEF IInv, TypeOK, Calls, PayingIsUnpaid, UnderWay
<1>5. Undisturbed'
  BY <1>1 DEF IInv, TypeOK, Calls, Clocked, Undisturbed, UnderWay
<1>6. LaterCalls'
  BY <1>1 DEF IInv, Calls, LaterCalls
<1> QED BY <1>1, <1>2, <1>3, <1>4, <1>5, <1>6, CallsOnly DEF IInv, Calls

LEMMA CallDroppedInv == IInv /\ CallDropped => IInv'
<1> SUFFICES ASSUME IInv, CallDropped PROVE IInv'
  OBVIOUS
<1>1. /\ opens' \subseteq opens /\ closes' \subseteq closes
      /\ \A o \in Orders : paying'[o] \in {paying[o], NoTime}
      /\ paying' \in [Orders -> Times \cup {NoTime}]
      /\ UNCHANGED <<session, order, clock, rushed>>
  BY DEF CallDropped, IInv, TypeOK, UnderWay
<1>2. TypeOK'
  BY <1>1 DEF IInv, TypeOK
<1>3. Clocked'
  BY <1>1 DEF IInv, Calls, Clocked, TypeOK, NoTime
<1>4. PayingIsUnpaid' /\ Undisturbed' /\ LaterCalls'
  BY <1>1 DEF IInv, Calls, PayingIsUnpaid, Undisturbed, UnderWay, LaterCalls
<1> QED BY <1>1, <1>2, <1>3, <1>4, CallsOnly DEF IInv, Calls
-----------------------------------------------------------------------------
(* Shifts.                                                                 *)

\* No undisturbed payment is under way while an opening or closing is.
LEMMA CallsDisturb ==
  ASSUME Undisturbed, opens # {} \/ closes # {} PROVE UnderWay \ rushed = {}
BY DEF Undisturbed

\* What is missing or left over in a till is a whole number of bills.
LEMMA DifferenceIsInt ==
  ASSUME TypeOK, NEW s \in Sessions PROVE Difference(s) \in Int
<1>0. session[s] \in SessionRecord
  BY DEF TypeOK
<1>1. session[s].booked \in SUBSET Orders /\ session[s].counted \in Counts \cup {0}
  BY <1>0 DEF SessionRecord
<1>3. session[s].counted \in Nat
  <2>1. Counts \cup {0} \subseteq Nat
    BY TillConstants
  <2> QED BY <1>1, <2>1
<1>2. Cardinality(session[s].booked) \in Nat
  BY <1>1, TillConstants, FS_Subset, FS_CardinalityType
<1> QED BY <1>2, <1>3 DEF Difference

LEMMA SessionOpenedInv ==
  ASSUME IInv, NEW t \in opens, SessionOpened(t) PROVE IInv'
<1>1. PICK s \in With("none") :
        session' = [session EXCEPT ![s].status = "open", ![s].openedAt = t]
  BY DEF SessionOpened
<1>2. /\ s \in Sessions /\ session[s].status = "none" /\ t \in Times /\ Open = {}
      /\ opens' = opens \ {t} /\ UNCHANGED <<order, clock, closes, paying, rushed>>
  BY DEF SessionOpened, With, IInv, TypeOK
<1>3. TypeOK'
  <2>1. [session[s] EXCEPT !.status = "open", !.openedAt = t] \in SessionRecord
    BY <1>2 DEF IInv, TypeOK, SessionRecord
  <2>2. session' = [session EXCEPT ![s] = [session[s] EXCEPT !.status = "open",
                                                             !.openedAt = t]]
    BY <1>1, <1>2 DEF IInv, TypeOK
  <2> QED BY <1>2, <2>1, <2>2 DEF IInv, TypeOK
<1>4. /\ Open' = {s} /\ Closed' = Closed /\ s \notin Closed
      /\ \A r \in Sessions \ {s} : session'[r] = session[r]
  BY <1>1, <1>2 DEF Open, Closed, With, IInv, TypeOK, SessionRecord
<1>5. session'[s].openedAt = t /\ session'[s].closedAt = session[s].closedAt
  BY <1>1, <1>2 DEF IInv, TypeOK, SessionRecord
<1>6. Clocked'
  BY <1>2, <1>4, <1>5 DEF IInv, Calls, Clocked
<1>7. PayingIsUnpaid' /\ Undisturbed' /\ LaterCalls'
  BY <1>2, CallsDisturb DEF IInv, Calls, PayingIsUnpaid, Undisturbed, UnderWay, LaterCalls
<1>8. OneOpen' /\ TagInUse'
  BY <1>2, <1>4 DEF IInv, Shifts, OneOpen, TagInUse
<1>9. BookedInWindow' /\ ResolutionFits'
  BY <1>2, <1>4 DEF IInv, Shifts, BookedInWindow, ResolutionFits, Difference, Closed, With
<1>10. Filed'
  <2> SUFFICES ASSUME NEW o \in Orders \ rushed, order[o].pay = "completed"
               PROVE  Within(o)' = Within(o)
    BY <1>2, <1>4 DEF IInv, Shifts, Filed, Within, Open, Closed, With
  <2>1. order[o].paidAt < t /\ order[o].paidAt \in Int /\ t \in Int
    BY <1>2 DEF IInv, Calls, LaterCalls, TypeOK, OrderRecord, Times, NoTime
  <2>2. ~(session'[s].openedAt <= order'[o].paidAt)
    BY <2>1, <1>2, <1>5
  <2> QED BY <2>2, <1>2, <1>4 DEF Within, Closed, With
<1> QED BY <1>3, <1>6, <1>7, <1>8, <1>9, <1>10 DEF IInv, Calls, Shifts

LEMMA SessionClosedInv ==
  ASSUME IInv, NEW c \in closes, NEW n \in Counts, SessionClosed(c, n) PROVE IInv'
<1> DEFINE s == c.session
<1>1. /\ s \in Sessions /\ session[s].status = "open" /\ c.at \in Times
      /\ closes' = closes \ {c} /\ UNCHANGED <<order, clock, opens, paying, rushed>>
      /\ session' = [session EXCEPT ![s] =
                       [@ EXCEPT !.status = "closed", !.closedAt = c.at,
                                 !.counted = n, !.booked = CashRevenue(s, c.at),
                                 !.resolution = "none", !.settlement = 0]]
  BY DEF SessionClosed, IInv, TypeOK
<1>2. TypeOK'
  <2>1. session[s] \in SessionRecord /\ CashRevenue(s, c.at) \in SUBSET Orders
    BY <1>1 DEF IInv, TypeOK, CashRevenue
  <2>2. [session[s] EXCEPT !.status = "closed", !.closedAt = c.at, !.counted = n,
                           !.booked = CashRevenue(s, c.at), !.resolution = "none",
                           !.settlement = 0] \in SessionRecord
    BY <1>1, <2>1 DEF SessionRecord
  <2> QED BY <1>1, <2>2 DEF IInv, TypeOK
<1>3. /\ Open' = Open \ {s} /\ Closed' = Closed \cup {s} /\ s \in Open /\ s \notin Closed
      /\ \A r \in Sessions \ {s} : session'[r] = session[r]
  BY <1>1 DEF Open, Closed, With, IInv, TypeOK, SessionRecord
<1>4. /\ session'[s].openedAt = session[s].openedAt /\ session'[s].closedAt = c.at
      /\ session'[s].booked = CashRevenue(s, c.at) /\ session'[s].resolution = "none"
  BY <1>1 DEF IInv, TypeOK, SessionRecord
<1>5. Clocked'
  BY <1>1, <1>3, <1>4 DEF IInv, Calls, Clocked
<1>6. PayingIsUnpaid' /\ Undisturbed' /\ LaterCalls'
  BY <1>1, CallsDisturb DEF IInv, Calls, PayingIsUnpaid, Undisturbed, UnderWay, LaterCalls
<1>7. OneOpen' /\ TagInUse'
  BY <1>1, <1>3 DEF IInv, Shifts, OneOpen, TagInUse
<1>8. \A o \in Orders : o \in CashRevenue(s, c.at) <=>
        /\ order[o].pay = "completed" /\ order[o].method = "cash"
        /\ session[s].openedAt <= order[o].paidAt /\ order[o].paidAt <= c.at
  BY <1>1 DEF CashRevenue, InWindow
<1>9. BookedInWindow'
  <2> SUFFICES ASSUME NEW r \in Closed', NEW o \in session'[r].booked
               PROVE  /\ order[o].pay \in {"completed", "refunded"}
                      /\ session'[r].openedAt <= order[o].paidAt
                      /\ order[o].paidAt <= session'[r].closedAt
    BY <1>1 DEF BookedInWindow
  <2>1. CASE r = s
    BY <2>1, <1>4, <1>8 DEF CashRevenue
  <2>2. CASE r # s
    BY <2>2, <1>3 DEF IInv, Shifts, BookedInWindow, Closed, With
  <2> QED BY <2>1, <2>2
<1>10. ResolutionFits'
  BY <1>1, <1>3, <1>4 DEF IInv, Shifts, ResolutionFits, Difference, Closed, With
<1>11. Filed'
  <2> SUFFICES ASSUME NEW o \in Orders \ rushed, order[o].pay = "completed"
               PROVE  /\ \A r, q \in Within(o)' : r = q
                      /\ \A r \in Within(o)' : order[o].tag # NoSession =>
                           /\ order[o].tag = r
                           /\ r \in Closed' => (o \in session'[r].booked
                                                  <=> order[o].method = "cash")
    BY <1>1 DEF Filed
  <2>1. order[o].paidAt <= c.at
    BY DEF IInv, Calls, LaterCalls, TypeOK, OrderRecord, Times, NoTime
  <2>2. Within(o)' = Within(o)
    BY <2>1, <1>1, <1>3, <1>4 DEF Within, Closed, With, Open
  <2>3. s \in Within(o) => (o \in session'[s].booked <=> order[o].method = "cash")
    BY <2>1, <1>4, <1>8 DEF Within
  <2> QED BY <2>2, <2>3, <1>3 DEF IInv, Shifts, Filed, Closed, With
<1> QED BY <1>2, <1>5, <1>6, <1>7, <1>9, <1>10, <1>11 DEF IInv, Calls, Shifts

LEMMA VarianceResolvedInv ==
  ASSUME IInv, NEW s \in Sessions, NEW r \in {"staff_repaid", "accepted_adjustment"},
         VarianceResolved(s, r)
  PROVE  IInv'
<1>1. Difference(s) \in Int
  BY DifferenceIsInt DEF IInv
<1> DEFINE settled == IF r = "staff_repaid" THEN -Difference(s) ELSE 0
<1>2. /\ s \in Closed /\ Difference(s) # 0 /\ settled \in Nat
      /\ session' = [session EXCEPT ![s].resolution = r, ![s].settlement = settled]
      /\ UNCHANGED <<order, clock, opens, closes, paying, rushed>>
  BY <1>1 DEF VarianceResolved
<1>3. session'[s].resolution = r /\ session'[s].settlement = settled
  BY <1>2 DEF IInv, TypeOK, SessionRecord
<1>4. /\ \A q \in Sessions : /\ session'[q].status = session[q].status
                             /\ session'[q].openedAt = session[q].openedAt
                             /\ session'[q].closedAt = session[q].closedAt
                             /\ session'[q].booked = session[q].booked
                             /\ session'[q].counted = session[q].counted
      /\ \A q \in Sessions \ {s} : session'[q] = session[q]
  BY <1>2 DEF IInv, TypeOK, SessionRecord
<1> HIDE DEF settled
<1>5. TypeOK'
  <2>1. [session[s] EXCEPT !.resolution = r, !.settlement = settled] \in SessionRecord
    BY <1>2 DEF IInv, TypeOK, SessionRecord
  <2>2. session' = [session EXCEPT ![s] = [session[s] EXCEPT !.resolution = r,
                                                             !.settlement = settled]]
    BY <1>2 DEF IInv, TypeOK
  <2> QED BY <1>2, <2>1, <2>2 DEF IInv, TypeOK
<1>6. /\ Open' = Open /\ Closed' = Closed
      /\ Open \subseteq Sessions /\ Closed \subseteq Sessions
      /\ \A q \in Sessions : Difference(q)' = Difference(q)
  BY <1>4 DEF Open, Closed, With, Difference
<1>7. \A o \in Orders : Within(o)' = Within(o)
  BY <1>2, <1>4, <1>6 DEF Within
<1>8. Calls'
  BY <1>2, <1>4 DEF IInv, Calls, Clocked, PayingIsUnpaid, Undisturbed, UnderWay, LaterCalls
<1>9. OneOpen' /\ TagInUse' /\ BookedInWindow'
  BY <1>2, <1>4, <1>6 DEF IInv, Shifts, OneOpen, TagInUse, BookedInWindow, Closed, With
<1>10. ResolutionFits'
  BY <1>2, <1>3, <1>4, <1>6 DEF IInv, Shifts, ResolutionFits, settled
<1>11. Filed'
  <2>1. \A q \in Closed : session'[q].booked = session[q].booked
    BY <1>4, <1>6
  <2>2. Filed /\ rushed' = rushed /\ order' = order /\ Closed' = Closed
    BY <1>2, <1>6 DEF IInv, Shifts
  <2> QED BY <2>1, <2>2, <1>7 DEF Filed
<1> QED BY <1>5, <1>8, <1>9, <1>10, <1>11 DEF IInv, Shifts
-----------------------------------------------------------------------------
(* Orders and payments.                                                    *)

\* A new order is nowhere in the books.
LEMMA OrderAddedInv ==
  ASSUME IInv, NEW o \in Orders, order[o].pay = "absent",
         NEW tag \in Open \cup Closed \cup {NoSession},
         order' = [order EXCEPT ![o].pay = "unpaid", ![o].tag = tag],
         UNCHANGED <<session, clock, opens, closes, paying, rushed>>
  PROVE  IInv'
<1>1. /\ order'[o].pay = "unpaid" /\ order'[o].tag = tag
      /\ order'[o].paidAt = order[o].paidAt
      /\ \A p \in Orders \ {o} : order'[p] = order[p]
  BY DEF IInv, TypeOK, OrderRecord
<1>2. TypeOK'
  <2>1. tag \in Sessions \cup {NoSession}
    BY DEF Open, Closed, With
  <2>2. [order[o] EXCEPT !.pay = "unpaid", !.tag = tag] \in OrderRecord
    BY <2>1 DEF IInv, TypeOK, OrderRecord
  <2>3. order' = [order EXCEPT ![o] = [order[o] EXCEPT !.pay = "unpaid", !.tag = tag]]
    BY DEF IInv, TypeOK
  <2> QED BY <2>2, <2>3 DEF IInv, TypeOK
<1>3. Open' = Open /\ Closed' = Closed /\ UnderWay' = UnderWay
  BY DEF Open, Closed, With, UnderWay
<1>4. Calls'
  BY <1>1, <1>3 DEF IInv, Calls, Clocked, PayingIsUnpaid, Undisturbed, LaterCalls, UnderWay
<1>5. OneOpen' /\ TagInUse' /\ ResolutionFits'
  BY <1>1, <1>3 DEF IInv, Shifts, OneOpen, TagInUse, ResolutionFits, Difference
<1>6. BookedInWindow'
  <2>1. \A s \in Closed : session[s].booked \subseteq Orders
    BY DEF IInv, TypeOK, SessionRecord, Closed, With
  <2> QED BY <1>1, <1>3, <2>1 DEF IInv, Shifts, BookedInWindow
<1>7. Filed'
  <2>1. Filed /\ session' = session /\ rushed' = rushed
    BY DEF IInv, Shifts
  <2>2. \A p \in Orders \ {o} : Within(p)' = Within(p)
    BY <1>1, <1>3, <2>1 DEF Within
  <2> SUFFICES ASSUME NEW p \in Orders \ rushed, order'[p].pay = "completed"
               PROVE  /\ \A r, s \in Within(p)' : r = s
                      /\ \A s \in Within(p)' : order'[p].tag # NoSession =>
                           /\ order'[p].tag = s
                           /\ s \in Closed' => (p \in session'[s].booked
                                                  <=> order'[p].method = "cash")
    BY <2>1 DEF Filed
  <2>3. p # o /\ order'[p] = order[p]
    BY <1>1
  <2> QED BY <1>3, <2>1, <2>2, <2>3 DEF Filed
<1> QED BY <1>2, <1>4, <1>5, <1>6, <1>7 DEF IInv, Shifts

LEMMA OrderCreatedInv ==
  ASSUME IInv, NEW o \in Orders, OrderCreated(o) PROVE IInv'
<1>1. PICK s \in IF o \in Relayed THEN {NoSession} ELSE Open :
        order' = [order EXCEPT ![o].pay = "unpaid", ![o].tag = s]
  BY DEF OrderCreated
<1> QED BY <1>1, OrderAddedInv DEF OrderCreated

LEMMA OrderSplitInv ==
  ASSUME IInv, NEW source \in Orders, NEW o \in Orders, OrderSplit(source, o) PROVE IInv'
<1>1. order[source].tag \in Open \cup Closed \cup {NoSession}
  BY DEF IInv, Shifts, TagInUse
<1> QED BY <1>1, OrderAddedInv DEF OrderSplit

\* An undisturbed payment lands in the open shift, and its order with it.
LEMMA PaidInv ==
  ASSUME IInv, NEW o \in Orders, NEW m \in {"cash", "vietqr"}, Paid(o, m) PROVE IInv'
<1> DEFINE tag == Rebound(order[o].tag)
<1>1. /\ o \in UnderWay /\ order[o].pay = "unpaid" /\ paying[o] \in Times
      /\ order' = [order EXCEPT ![o] = [pay |-> "completed", method |-> m,
                                        paidAt |-> paying[o], tag |-> tag]]
      /\ paying' = [paying EXCEPT ![o] = NoTime]
      /\ UNCHANGED <<session, clock, opens, closes, rushed>>
  BY DEF Paid, UnderWay, IInv, Calls, PayingIsUnpaid, TypeOK
<1>2. /\ tag \in Open \cup Closed \cup {NoSession}
      /\ order[o].tag = NoSession => tag = NoSession
      /\ tag # NoSession /\ Open # {} => tag \in Open
  BY DEF IInv, Shifts, TagInUse, Rebound, Closed, With, Sessions, NoSession
<1> HIDE DEF tag
<1>3. /\ order'[o].pay = "completed" /\ order'[o].paidAt = paying[o]
      /\ order'[o].tag = tag /\ \A p \in Orders \ {o} : order'[p] = order[p]
  BY <1>1 DEF IInv, TypeOK
<1>4. TypeOK'
  <2>1. tag \in Sessions \cup {NoSession}
    BY <1>2 DEF Open, Closed, With
  <2>2. [pay |-> "completed", method |-> m, paidAt |-> paying[o], tag |-> tag] \in OrderRecord
    BY <1>1, <2>1 DEF OrderRecord
  <2>3. paying' \in [Orders -> Times \cup {NoTime}]
    BY <1>1 DEF IInv, TypeOK
  <2> QED BY <1>1, <2>2, <2>3 DEF IInv, TypeOK
<1>5. /\ Open' = Open /\ Closed' = Closed /\ UnderWay' = UnderWay \ {o}
      /\ \A p \in Orders \ {o} : paying'[p] = paying[p]
      /\ paying'[o] = NoTime
  BY <1>1 DEF Open, Closed, With, UnderWay, IInv, TypeOK
<1>6. Clocked' /\ PayingIsUnpaid' /\ Undisturbed'
  <2>1. Clocked'
    BY <1>1, <1>3, <1>5 DEF IInv, TypeOK, Calls, Clocked, NoTime
  <2> QED BY <2>1, <1>1, <1>3, <1>5 DEF IInv, Calls, PayingIsUnpaid, Undisturbed, UnderWay
<1>7. LaterCalls'
  BY <1>1, <1>3 DEF IInv, Calls, LaterCalls, Undisturbed
<1>8. OneOpen' /\ TagInUse' /\ ResolutionFits'
  BY <1>1, <1>2, <1>3, <1>5 DEF IInv, Shifts, OneOpen, TagInUse, ResolutionFits, Difference
<1>9. BookedInWindow'
  <2>1. \A s \in Closed : session[s].booked \subseteq Orders
    BY DEF IInv, TypeOK, SessionRecord, Closed, With
  <2> QED BY <1>1, <1>3, <1>5, <2>1 DEF IInv, Shifts, BookedInWindow
<1>10. Filed'
  <2> SUFFICES ASSUME NEW p \in Orders \ rushed, order'[p].pay = "completed"
               PROVE  /\ \A r, s \in Within(p)' : r = s
                      /\ \A s \in Within(p)' : order'[p].tag # NoSession =>
                           /\ order'[p].tag = s
                           /\ s \in Closed' => (p \in session'[s].booked
                                                  <=> order'[p].method = "cash")
    BY <1>1 DEF Filed
  <2>1. CASE p = o
    <3>1. \A s \in Closed : ~(paying[o] <= session[s].closedAt)
      BY <1>1, <2>1 DEF IInv, Calls, Undisturbed, TypeOK, SessionRecord, Closed, With,
                        Times, NoTime
    <3>2. Within(o)' \subseteq Open
      BY <3>1, <1>1, <1>3, <1>5 DEF Within
    <3>3. Open \intersect Closed = {}
      BY DEF Open, Closed, With
    <3> QED BY <2>1, <3>2, <3>3, <1>2, <1>3, <1>5 DEF IInv, Shifts, OneOpen
  <2>2. CASE p # o
    BY <2>2, <1>1, <1>3, <1>5 DEF IInv, Shifts, Filed, Within
  <2> QED BY <2>1, <2>2
<1> QED BY <1>4, <1>6, <1>7, <1>8, <1>9, <1>10 DEF IInv, Calls, Shifts

LEMMA RefundedInv ==
  ASSUME IInv, NEW o \in Orders, Refunded(o) PROVE IInv'
<1>1. /\ order[o].pay = "completed" /\ order' = [order EXCEPT ![o].pay = "refunded"]
      /\ UNCHANGED <<session, clock, opens, closes, paying, rushed>>
  BY DEF Refunded
<1>2. /\ order'[o].pay = "refunded" /\ order'[o].tag = order[o].tag
      /\ order'[o].paidAt = order[o].paidAt
      /\ \A p \in Orders \ {o} : order'[p] = order[p]
  BY <1>1 DEF IInv, TypeOK, OrderRecord
<1>3. TypeOK'
  <2>1. [order[o] EXCEPT !.pay = "refunded"] \in OrderRecord
    BY DEF IInv, TypeOK, OrderRecord
  <2> QED BY <1>1, <2>1 DEF IInv, TypeOK
<1>4. Open' = Open /\ Closed' = Closed /\ UnderWay' = UnderWay
  BY <1>1 DEF Open, Closed, With, UnderWay
<1>5. Calls'
  BY <1>1, <1>2, <1>4 DEF IInv, Calls, Clocked, PayingIsUnpaid, Undisturbed, LaterCalls, UnderWay
<1>6. OneOpen' /\ TagInUse' /\ ResolutionFits'
  BY <1>1, <1>2, <1>4 DEF IInv, Shifts, OneOpen, TagInUse, ResolutionFits, Difference
<1>7. BookedInWindow'
  <2>1. \A s \in Closed : session[s].booked \subseteq Orders
    BY DEF IInv, TypeOK, SessionRecord, Closed, With
  <2> QED BY <1>1, <1>2, <1>4, <2>1 DEF IInv, Shifts, BookedInWindow
<1>8. Filed'
  BY <1>1, <1>2, <1>4 DEF IInv, Shifts, Filed, Within
<1> QED BY <1>3, <1>5, <1>6, <1>7, <1>8 DEF IInv, Shifts

-----------------------------------------------------------------------------
(* Corrections.                                                            *)

\* A closed shift holds its books for the orders whose tender stays as it is.
BooksHold ==
  \A s \in Closed :
    /\ session'[s].status = "closed"
    /\ session'[s].closedAt = session[s].closedAt
    /\ session'[s].counted = session[s].counted
    /\ \A o \in Orders \ rushed :
         /\ order[o].pay = "completed"
         /\ order[o].tag # NoSession
         /\ order'[o].method = order[o].method
         => (o \in session'[s].booked <=> o \in session[s].booked)

\* A correction sums the closed shift of the order again; of the orders that
\* are filed, only the corrected one can move.
LEMMA Corrected ==
  ASSUME IInv, NEW o \in Orders, NEW m \in {"cash", "vietqr"},
         order[o].pay = "completed", order[o].method # m,
         order' = [order EXCEPT ![o].method = m], session' = Recounted(o, m),
         UNCHANGED <<clock, opens, closes, paying, rushed>>
  PROVE  IInv' /\ BooksHold
<1> DEFINE s == order[o].tag
           again == (CashRevenue(s, clock) \ {o}) \cup
                      {p \in {o} : m = "cash" /\ InWindow(o, s, clock)}
<1>1. /\ order'[o].method = m /\ order'[o].pay = "completed"
      /\ \A p \in Orders : /\ order'[p].pay = order[p].pay
                           /\ order'[p].tag = order[p].tag
                           /\ order'[p].paidAt = order[p].paidAt
      /\ \A p \in Orders \ {o} : order'[p] = order[p]
  BY DEF IInv, TypeOK, OrderRecord
<1>2. /\ order' \in [Orders -> OrderRecord]
      /\ \A p \in Orders : order'[p].method = order[p].method => p # o
  <2>1. [order[o] EXCEPT !.method = m] \in OrderRecord
    BY DEF IInv, TypeOK, OrderRecord
  <2> QED BY <1>1, <2>1 DEF IInv, TypeOK
<1>3. CASE s \notin Closed
  <2>1. session' = session
    BY <1>3 DEF Recounted
  <2>2. Open' = Open /\ Closed' = Closed /\ UnderWay' = UnderWay
    BY <2>1 DEF Open, Closed, With, UnderWay
  <2>3. TypeOK' /\ Calls'
    BY <1>1, <1>2, <2>1, <2>2 DEF IInv, TypeOK, Calls, Clocked, PayingIsUnpaid,
                                   Undisturbed, LaterCalls, UnderWay
  <2>4. OneOpen' /\ TagInUse' /\ ResolutionFits'
    BY <1>1, <2>1, <2>2 DEF IInv, Shifts, OneOpen, TagInUse, ResolutionFits, Difference
  <2>5. BookedInWindow'
    <3>1. \A r \in Closed : session[r].booked \subseteq Orders
      BY DEF IInv, TypeOK, SessionRecord, Closed, With
    <3> QED BY <1>1, <2>1, <2>2, <3>1 DEF IInv, Shifts, BookedInWindow
  <2>6. \A p \in Orders : Within(p)' = Within(p)
    BY <1>1, <2>1, <2>2 DEF Within
  <2>7. Filed'
    BY <1>1, <1>3, <2>1, <2>2, <2>6 DEF IInv, Shifts, Filed
  <2>8. BooksHold
    BY <2>1 DEF BooksHold, Closed, With
  <2> QED BY <2>3, <2>4, <2>5, <2>7, <2>8 DEF IInv, Shifts
<1>4. CASE s \in Closed
  <2>1. /\ s \in Sessions /\ session[s].status = "closed" /\ session[s] \in SessionRecord
        /\ session' = [session EXCEPT ![s] = [@ EXCEPT !.booked = again,
                          !.resolution = "none", !.settlement = 0]]
    BY <1>4 DEF Recounted, Closed, With, IInv, TypeOK
  <2>2. again \in SUBSET Orders
    BY DEF CashRevenue
  <2>3. /\ session'[s].booked = again /\ session'[s].resolution = "none"
        /\ \A r \in Sessions : /\ session'[r].status = session[r].status
                               /\ session'[r].openedAt = session[r].openedAt
                               /\ session'[r].closedAt = session[r].closedAt
                               /\ session'[r].counted = session[r].counted
        /\ \A r \in Sessions \ {s} : session'[r] = session[r]
    BY <2>1 DEF IInv, TypeOK, SessionRecord
  <2>4. \A p \in Orders :
          p \in again <=> /\ order'[p].pay = "completed" /\ order'[p].method = "cash"
                          /\ session[s].openedAt <= order[p].paidAt
                          /\ order[p].paidAt <= session[s].closedAt
    BY <1>1, <2>1 DEF CashRevenue, InWindow
  <2> HIDE DEF again
  <2>5. TypeOK'
    <3>1. [session[s] EXCEPT !.booked = again, !.resolution = "none", !.settlement = 0]
            \in SessionRecord
      BY <2>1, <2>2 DEF SessionRecord
    <3> QED BY <1>2, <2>1, <3>1 DEF IInv, TypeOK
  <2>6. Open' = Open /\ Closed' = Closed /\ UnderWay' = UnderWay
    BY <2>3 DEF Open, Closed, With, UnderWay
  <2>7. Open \subseteq Sessions /\ Closed \subseteq Sessions
    BY DEF Open, Closed, With
  <2>8. Calls'
    BY <1>1, <2>3, <2>6 DEF IInv, Calls, Clocked, PayingIsUnpaid, Undisturbed, LaterCalls,
                            UnderWay
  <2>9. OneOpen' /\ TagInUse'
    BY <1>1, <2>6 DEF IInv, Shifts, OneOpen, TagInUse
  <2>10. ResolutionFits'
    BY <2>3, <2>6, <2>7 DEF IInv, Shifts, ResolutionFits, Difference
  <2>11. \A p \in Orders : Within(p)' = Within(p)
    BY <1>1, <2>3, <2>6, <2>7 DEF Within
  <2>12. BookedInWindow'
    <3> SUFFICES ASSUME NEW r \in Closed, NEW p \in session'[r].booked
                 PROVE  /\ order'[p].pay \in {"completed", "refunded"}
                        /\ session'[r].openedAt <= order'[p].paidAt
                        /\ order'[p].paidAt <= session'[r].closedAt
      BY <2>6 DEF BookedInWindow
    <3>1. p \in Orders
      BY <2>5, <2>6, <2>7 DEF TypeOK, SessionRecord
    <3>2. CASE r = s
      <4>1. p \in again
        BY <3>2, <2>3
      <4>2. /\ order'[p].pay = "completed" /\ order'[p].paidAt = order[p].paidAt
            /\ session'[s].openedAt = session[s].openedAt
            /\ session'[s].closedAt = session[s].closedAt
        BY <3>1, <4>1, <1>1, <2>1, <2>3, <2>4
      <4> QED BY <3>1, <3>2, <4>1, <4>2, <2>4
    <3>3. CASE r # s
      BY <3>1, <3>3, <1>1, <2>3, <2>7 DEF IInv, Shifts, BookedInWindow
    <3> QED BY <3>2, <3>3
  <2>13. \A p \in Orders \ rushed : \A r \in Within(p) :
           order[p].pay = "completed" /\ order[p].tag # NoSession /\ r \in Closed =>
             (p \in session'[r].booked <=> order'[p].method = "cash")
    <3> SUFFICES ASSUME NEW p \in Orders \ rushed, NEW r \in Within(p), r \in Closed,
                        order[p].pay = "completed", order[p].tag # NoSession
                 PROVE  p \in session'[r].booked <=> order'[p].method = "cash"
      OBVIOUS
    <3>1. order[p].tag = r
      BY DEF IInv, Shifts, Filed
    <3>2. CASE r = s
      BY <3>2, <1>1, <2>3, <2>4 DEF Within
    <3>3. CASE r # s
      BY <3>1, <3>3, <1>1, <2>3, <2>7 DEF IInv, Shifts, Filed
    <3> QED BY <3>2, <3>3
  <2>14. Filed'
    BY <1>1, <2>6, <2>11, <2>13 DEF IInv, Shifts, Filed
  <2>15. BooksHold
    <3> SUFFICES ASSUME NEW r \in Closed, NEW p \in Orders \ rushed,
                        order[p].pay = "completed", order[p].tag # NoSession,
                        order'[p].method = order[p].method
                 PROVE  p \in session'[r].booked <=> p \in session[r].booked
      BY <2>3, <2>7 DEF BooksHold, Closed, With
    <3>1. CASE r \in Within(p)
      BY <3>1, <2>13 DEF IInv, Shifts, Filed
    <3>2. CASE r \notin Within(p)
      <4>1. p \notin session[r].booked
        BY <3>2 DEF IInv, Shifts, BookedInWindow, Within
      <4>2. p \notin session'[r].booked
        BY <3>2, <1>1, <2>3, <2>6, <2>7, <2>12 DEF BookedInWindow, Within
      <4> QED BY <4>1, <4>2
    <3> QED BY <3>1, <3>2
  <2> QED BY <2>5, <2>8, <2>9, <2>10, <2>12, <2>14, <2>15 DEF IInv, Shifts
<1> QED BY <1>3, <1>4

-----------------------------------------------------------------------------
(* Every step.                                                             *)

LEMMA NextInv == IInv /\ [Next]_vars => IInv' /\ (Next => BooksHold)
<1> SUFFICES ASSUME IInv, [Next]_vars PROVE IInv' /\ (Next => BooksHold)
  OBVIOUS
<1>1. ASSUME UNCHANGED session PROVE BooksHold
  BY <1>1 DEF BooksHold, Closed, With
<1>2. CASE ShiftStep
  <2>1. CASE OpenBegun
    BY <2>1, <1>1, OpenBegunInv DEF OpenBegun
  <2>2. ASSUME NEW t \in opens, SessionOpened(t) PROVE IInv' /\ BooksHold
    <3>1. PICK s \in With("none") :
            session' = [session EXCEPT ![s].status = "open", ![s].openedAt = t]
      BY <2>2 DEF SessionOpened
    <3>2. \A r \in Closed : session'[r] = session[r]
      BY <3>1 DEF Closed, With, IInv, TypeOK
    <3> QED BY <2>2, <3>2, SessionOpenedInv DEF BooksHold, Closed, With
  <2>3. ASSUME NEW s \in Sessions, CloseBegun(s) PROVE IInv' /\ BooksHold
    BY <2>3, <1>1, CloseBegunInv DEF CloseBegun
  <2>4. ASSUME NEW c \in closes, NEW n \in Counts, SessionClosed(c, n)
        PROVE  IInv' /\ BooksHold
    <3>1. \A r \in Closed : session'[r] = session[r]
      BY <2>4 DEF SessionClosed, Closed, With, IInv, TypeOK
    <3> QED BY <2>4, <3>1, SessionClosedInv DEF BooksHold, Closed, With
  <2>5. ASSUME NEW s \in Sessions, NEW r \in {"staff_repaid", "accepted_adjustment"},
               VarianceResolved(s, r)
        PROVE  IInv' /\ BooksHold
    <3>1. \A q \in Sessions : /\ session'[q].status = session[q].status
                              /\ session'[q].closedAt = session[q].closedAt
                              /\ session'[q].booked = session[q].booked
                              /\ session'[q].counted = session[q].counted
      BY <2>5 DEF VarianceResolved, IInv, TypeOK, SessionRecord
    <3> QED BY <2>5, <3>1, VarianceResolvedInv DEF BooksHold, Closed, With
  <2> QED BY <1>2, <2>1, <2>2, <2>3, <2>4, <2>5 DEF ShiftStep
<1>3. CASE OrderStep
  <2>1. ASSUME NEW o \in Orders, OrderCreated(o) \/ PayBegun(o) PROVE IInv' /\ BooksHold
    BY <2>1, <1>1, OrderCreatedInv, PayBegunInv DEF OrderCreated, PayBegun
  <2>2. ASSUME NEW o \in Orders, NEW p \in Orders, OrderSplit(o, p)
        PROVE  IInv' /\ BooksHold
    BY <2>2, <1>1, OrderSplitInv DEF OrderSplit
  <2>3. ASSUME NEW o \in Orders, NEW m \in {"cash", "vietqr"}, Paid(o, m)
        PROVE  IInv' /\ BooksHold
    BY <2>3, <1>1, PaidInv DEF Paid
  <2>4. ASSUME NEW o \in Orders, NEW m \in {"cash", "vietqr"}, MethodCorrected(o, m)
        PROVE  IInv' /\ BooksHold
    BY <2>4, Corrected DEF MethodCorrected
  <2>5. ASSUME NEW o \in Orders, CashConverted(o) PROVE IInv' /\ BooksHold
    BY <2>5, Corrected DEF CashConverted
  <2>6. ASSUME NEW o \in Orders, Refunded(o) PROVE IInv' /\ BooksHold
    BY <2>6, <1>1, RefundedInv DEF Refunded
  <2> QED BY <1>3, <2>1, <2>2, <2>3, <2>4, <2>5, <2>6 DEF OrderStep
<1>4. CASE CallDropped
  BY <1>4, <1>1, CallDroppedInv DEF CallDropped
<1>5. CASE UNCHANGED vars
  <2>1. TypeOK' /\ Calls'
    BY <1>5 DEF vars, IInv, TypeOK, Calls, Clocked, PayingIsUnpaid, Undisturbed,
                LaterCalls, UnderWay
  <2> QED BY <2>1, <1>1, <1>5, CallsOnly DEF vars, IInv
<1> QED BY <1>2, <1>3, <1>4, <1>5 DEF Next

LEMMA Invariance == Spec => []IInv
<1>1. IInv /\ [Next]_vars => IInv'
  BY NextInv
<1> QED BY InitInv, <1>1, PTL DEF Spec

\* Whatever cashiers, managers and finance do, every row of pos_sessions and
\* orders holds a value of its type; a settlement is never negative.
THEOREM TypeCorrect == Spec => []TypeOK
<1>1. IInv => TypeOK
  BY DEF IInv
<1> QED BY Invariance, <1>1, PTL

\* A repayment is the shortage the books show: corrections void resolutions.
THEOREM RepaymentsFit == Spec => []ResolutionFits
<1>1. IInv => ResolutionFits
  BY DEF IInv, Shifts
<1> QED BY Invariance, <1>1, PTL

\* A payment that no opening or closing overlapped belongs to one till, with
\* its order, and is expected there while its tender is cash.
THEOREM PaymentsFiled == Spec => []FiledInItsTill
<1>1. IInv => FiledInItsTill
  <2> SUFFICES ASSUME IInv, NEW o \in Orders \ rushed, order[o].pay = "completed"
               PROVE  /\ Cardinality(TillOf(o)) <= 1
                      /\ \A s \in TillOf(o) : order[o].tag # NoSession =>
                           /\ order[o].tag = s
                           /\ s \in Closed => (o \in session[s].booked
                                                 <=> order[o].method = "cash")
    BY DEF FiledInItsTill
  <2>1. TillOf(o) \subseteq Within(o)
    BY DEF TillOf, Within, InWindow, Open, Closed, With
  <2>2. Cardinality(TillOf(o)) <= 1
    <3>1. CASE TillOf(o) = {}
      BY <3>1, FS_EmptySet
    <3>2. CASE TillOf(o) # {}
      <4>1. PICK s : s \in TillOf(o)
        BY <3>2
      <4>2. \A r \in TillOf(o) : r = s
        BY <2>1, <4>1 DEF IInv, Shifts, Filed
      <4>3. TillOf(o) = {s}
        BY <4>1, <4>2
      <4>4. Cardinality({s}) = 1
        BY FS_Singleton
      <4> QED BY <4>3, <4>4
    <3> QED BY <3>1, <3>2
  <2> QED BY <2>1, <2>2 DEF IInv, Shifts, Filed
<1> QED BY Invariance, <1>1, PTL

\* The books of a closed shift change only for the corrected payment, and for
\* the payments ClosedBooksHold leaves out.
THEOREM BooksOfClosedHold == Spec => ClosedBooksHold
<1>1. IInv /\ [Next]_vars =>
        [\A s \in Closed :
           /\ session'[s].status = "closed"
           /\ session'[s].closedAt = session[s].closedAt
           /\ session'[s].counted = session[s].counted
           /\ \A o \in Orders \ rushed :
                /\ order[o].pay = "completed"
                /\ order[o].tag # NoSession
                /\ order'[o].method = order[o].method
                => (o \in session'[s].booked <=> o \in session[s].booked)]_vars
  BY NextInv DEF BooksHold
<1> QED BY Invariance, <1>1, PTL DEF Spec, ClosedBooksHold
=============================================================================
