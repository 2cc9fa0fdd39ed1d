------------------------------ MODULE Kitchen ------------------------------
(***************************************************************************)
(* The dishes of the orders of one table on their way through the kitchen: *)
(* order_items, kds_tickets, orders.status, and what stock_movements says  *)
(* was deducted for them.                                                  *)
(*                                                                         *)
(* Every operation is one transaction under the order's advisory lock or   *)
(* row lock, so the interleaving is that of whole operations: waiters,     *)
(* cashiers, several kitchen screens and the cleanup cron in any order.    *)
(* Every dish is one portion of one ingredient, which all of them share:   *)
(* the deduction is computed ingredient by ingredient.                     *)
(***************************************************************************)
EXTENDS Naturals, FiniteSets

CONSTANTS
  Orders,        \* orders of one table
  Dishes,        \* rows of order_items, used or not
  Printed,       \* those whose category has a kitchen printer and no screen
  Gifts,         \* those a promotion gives away
  None,
  MaxSpecials    \* bound: recalls, cleanups, splits, merges, gifts, sold-outs

ASSUME KitchenSets ==
  /\ IsFiniteSet(Dishes)
  /\ Printed \subseteq Dishes
  /\ Gifts \subseteq Dishes
  /\ None \notin Orders
  /\ MaxSpecials \in Nat

VARIABLES
  status,        \* orders.status, "absent" before the insert
  paid,          \* the order's payment was taken
  promo,         \* orders.promotion_id is set
  item,          \* order_items: its order, status and sent_to_kitchen_at
  ticket,        \* kds_tickets of the item: also first_ready_at and its send
  sends,         \* kitchen_send_batches so far, the younger the higher
  posted,        \* quantity deducted as sale_consumption of the order
  rows,          \* quantities of the single sale_consumption movements
  wasted,        \* quantity deducted as cancelled_after_kds_ready
  restored,      \* quantity given back by sale_consumption_restore
  been,          \* history: dishes that were ever on the order
  made,          \* history: dishes a cook or a printer ever finished
  specials

books == <<posted, rows, wasted, restored>>
vars == <<status, paid, promo, item, ticket, sends, books, been, made,
          specials>>

TicketStatus == {"pending", "preparing", "ready", "served", "cancelled"}
Terminal == {"completed", "cancelled"}
NoItem == [order |-> None, status |-> "pending", sent |-> FALSE]
NoTicket == [order |-> None, status |-> "none", first |-> FALSE, send |-> 0]

Amounts == 0 .. Cardinality(Dishes)

TypeOK ==
  /\ status \in [Orders -> {"absent", "new", "ready", "served"} \cup Terminal]
  /\ paid \in [Orders -> BOOLEAN]
  /\ promo \in [Orders -> BOOLEAN]
  /\ item \in [Dishes -> [order : Orders \cup {None}, status : TicketStatus,
                          sent : BOOLEAN]]
  /\ ticket \in [Dishes -> [order : Orders \cup {None},
                            status : TicketStatus \cup {"none"},
                            first : BOOLEAN, send : Nat]]
  /\ sends \in Nat
  /\ posted \in [Orders -> Amounts]
  /\ rows \in [Orders -> SUBSET (Amounts \ {0})]
  /\ wasted \in [Orders -> Amounts]
  /\ restored \in [Orders -> Amounts]
  /\ been \in [Orders -> SUBSET Dishes]
  /\ made \in SUBSET Dishes
  /\ specials \in 0 .. MaxSpecials

Init ==
  /\ status = [o \in Orders |-> "absent"]
  /\ paid = [o \in Orders |-> FALSE]
  /\ promo = [o \in Orders |-> FALSE]
  /\ item = [d \in Dishes |-> NoItem]
  /\ ticket = [d \in Dishes |-> NoTicket]
  /\ sends = 0
  /\ posted = [o \in Orders |-> 0]
  /\ rows = [o \in Orders |-> {}]
  /\ wasted = [o \in Orders |-> 0]
  /\ restored = [o \in Orders |-> 0]
  /\ been = [o \in Orders |-> {}]
  /\ made = {}
  /\ specials = 0

-----------------------------------------------------------------------------
(* What the operations share.                                              *)

On(o) == {d \in Dishes : item[d].order = o}
Live(o) == {d \in On(o) : item[d].status # "cancelled"}
Open(o) == status[o] \notin Terminal \cup {"absent"}
Unused(d) == item[d] = NoItem

\* The dish has a ticket of its own order that is not cancelled.
Shown(d) == /\ ticket[d].status \notin {"none", "cancelled"}
            /\ ticket[d].order = item[d].order

\* post_pos_sale_consumption_if_ready: the dishes of an order that count as
\* consumed, on the board and off it.
MadeOnBoard(o) == {d \in Live(o) : Shown(d) /\ ticket[d].first}
Qualifying(o) ==
  MadeOnBoard(o) \cup
  {d \in Live(o) : /\ ~Shown(d)
                   /\ item[d].sent \/ (paid[o] /\ status[o] = "completed")}

\* Mutants of Delta: the comparison with zero dropped; nothing subtracted.
DeltaUnchecked(o) == Cardinality(Qualifying(o))' - posted[o]
DeltaInFull(o) == Cardinality(Qualifying(o))'

\* What is still missing from the deduction after the step.
Delta(o) == LET need == Cardinality(Qualifying(o))' IN
            IF need > posted[o] THEN need - posted[o] ELSE 0

\* Mutant of Post: nothing is posted once the order is completed.
PostWhileOpen(O) ==
  /\ posted' = [o \in Orders |->
                  IF o \in O /\ Open(o) THEN posted[o] + Delta(o) ELSE posted[o]]
  /\ UNCHANGED <<rows, wasted, restored>>

\* Post the deduction of every order of O and touch nothing else of the books.
Post(O) ==
  /\ posted' = [o \in Orders |->
                  IF o \in O THEN posted[o] + Delta(o) ELSE posted[o]]
  /\ rows' = [o \in Orders |->
                IF o \in O THEN rows[o] \cup ({Delta(o)} \ {0}) ELSE rows[o]]
  /\ UNCHANGED <<wasted, restored>>

\* check_order_ready of every order of O, after the tickets changed.
CheckReady(O) ==
  status' = [o \in Orders |->
    IF /\ o \in O
       /\ status[o] = "new"
       /\ \A d \in Dishes : ticket'[d].order = o =>
            ticket'[d].status \in {"none", "ready", "served", "cancelled"}
    THEN "ready" ELSE status[o]]

\* Mutant of Synced: without the guard on cancelled dishes.
SyncedAlways(I, d, s) == [I[d] EXCEPT !.status = s]

\* The trigger on kds_tickets: a dish takes the status of its ticket unless
\* it is cancelled.
Synced(I, d, s) == IF I[d].status = "cancelled" THEN I[d]
                   ELSE [I[d] EXCEPT !.status = s]

Sent(i) == [i EXCEPT !.sent = TRUE]

\* route_order_to_kds: whatever was not sent and has no ticket, a cancelled
\* dish too, gets a ticket or goes to its printer.  I holds the items as the
\* calling function left them.
Unsent(I, o) == {d \in Dishes : /\ I[d].order = o
                                /\ ~I[d].sent
                                /\ ticket[d].status = "none"}
Route(I, o) ==
  LET new == Unsent(I, o)
      n == IF new \subseteq Printed THEN sends ELSE sends + 1 IN
  /\ sends' = n
  /\ ticket' = [d \in Dishes |->
       IF d \in new \ Printed
       THEN [order |-> o, status |-> "pending", first |-> FALSE, send |-> n]
       ELSE ticket[d]]
  /\ item' = [d \in Dishes |->
       IF d \in new \cap Printed THEN Sent(I[d]) ELSE I[d]]
  /\ made' = made \cup (new \cap Printed)

Ordered(D, o) ==
  [d \in Dishes |-> IF d \in D THEN [NoItem EXCEPT !.order = o] ELSE item[d]]

-----------------------------------------------------------------------------
(* Ordering.                                                               *)

CreateOrder(o, D) ==
  /\ status[o] = "absent"
  /\ status' = [status EXCEPT ![o] = "new"]
  /\ Route(Ordered(D, o), o)
  /\ been' = [been EXCEPT ![o] = D]
  /\ UNCHANGED <<paid, promo, books>>

AppendItems(o, D) ==
  /\ Open(o)
  /\ ~paid[o]
  /\ Route(Ordered(D, o), o)
  /\ been' = [been EXCEPT ![o] = @ \cup D]
  /\ UNCHANGED <<status, paid, promo, books>>

\* apply_gift_promotion_selection inserts the gift and does not route it.
ApplyGift(o, g) ==
  /\ Open(o)
  /\ ~paid[o]
  /\ ~promo[o]
  /\ promo' = [promo EXCEPT ![o] = TRUE]
  /\ item' = Ordered({g}, o)
  /\ been' = [been EXCEPT ![o] = @ \cup {g}]
  /\ UNCHANGED <<status, paid, ticket, sends, books, made>>

-----------------------------------------------------------------------------
(* The kitchen.                                                            *)

Active(d) == ticket[d].status \in {"pending", "preparing"}
Bumped(D) == {d \in D : Active(d)}
Ready(t) == [t EXCEPT !.status = "ready", !.first = TRUE]

\* One card: tickets of one send, which may sit on two orders after a split.
\* The completion prints when a printer is set up (printed), and marks the
\* dishes sent.  A ticket bumped before is left as it is.
CompleteTickets(D, printed) ==
  /\ \A d \in D : ticket[d].status # "none"
  /\ \A d, e \in D : ticket[d].send = ticket[e].send
  /\ ticket' = [d \in Dishes |->
       IF d \in Bumped(D) THEN Ready(ticket[d]) ELSE ticket[d]]
  /\ item' = [d \in Dishes |->
       IF d \in Bumped(D)
       THEN IF printed THEN Sent(Synced(item, d, "ready"))
                       ELSE Synced(item, d, "ready")
       ELSE item[d]]
  /\ made' = made \cup Bumped(D)
  /\ CheckReady({ticket[d].order : d \in D})
  /\ UNCHANGED <<paid, promo, sends, been>>
  /\ Post({ticket[d].order : d \in D})

RecallTicket(d) ==
  /\ ticket[d].status \in {"ready", "preparing"}
  /\ LET s == IF ticket[d].status = "ready" THEN "preparing" ELSE "pending" IN
     /\ ticket' = [ticket EXCEPT ![d].status = s]
     /\ item' = [item EXCEPT ![d] = Synced(item, d, s)]
  /\ UNCHANGED <<status, paid, promo, sends, books, been, made>>

OutOfStock(d) ==
  /\ Active(d)
  /\ item[d].status \in {"pending", "preparing"}
  /\ Open(ticket[d].order)
  /\ ~paid[ticket[d].order]
  /\ item' = [item EXCEPT ![d].status = "cancelled"]
  /\ ticket' = [ticket EXCEPT ![d].status = "cancelled"]
  /\ CheckReady({ticket[d].order})
  /\ UNCHANGED <<paid, promo, sends, books, been, made>>

\* The cron of kds-maintenance deletes the tickets that are older than its
\* cutoff and not served, and nothing else.
CleanupTickets(n) ==
  LET old == {d \in Dishes : /\ Active(d) \/ ticket[d].status = "ready"
                             /\ ticket[d].send <= n} IN
  /\ old # {}
  /\ ticket' = [d \in Dishes |-> IF d \in old THEN NoTicket ELSE ticket[d]]
  /\ UNCHANGED <<status, paid, promo, item, sends, books, been, made>>

-----------------------------------------------------------------------------
(* The floor.                                                              *)

Served(t) == [t EXCEPT !.status = "served", !.first = TRUE]

MarkServed(d) ==
  /\ item[d].order # None
  /\ Open(item[d].order)
  /\ item[d].status \in {"pending", "preparing", "ready"}
  /\ item' = [item EXCEPT ![d].status = "served"]
  /\ ticket' = IF ticket[d].status \in {"none", "cancelled"} THEN ticket
               ELSE [ticket EXCEPT ![d] = Served(@)]
  /\ made' = made \cup {d}
  /\ UNCHANGED <<status, paid, promo, sends, been>>
  /\ Post({item[d].order})

AllDone(o) == \A d \in Live(o) : item[d].status \in {"ready", "served"}

\* update_pos_order_status to served, and to completed.
ServeOrder(o) ==
  /\ status[o] \in {"new", "ready"}
  /\ AllDone(o)
  /\ status' = [status EXCEPT ![o] = "served"]
  /\ ticket' = [d \in Dishes |->
       IF ticket[d].order = o /\ ticket[d].status = "ready"
       THEN [ticket[d] EXCEPT !.status = "served"] ELSE ticket[d]]
  /\ item' = [d \in Dishes |->
       IF d \in On(o) /\ item[d].status = "ready"
       THEN [item[d] EXCEPT !.status = "served"] ELSE item[d]]
  /\ UNCHANGED <<paid, promo, sends, books, been, made>>

CompleteOrder(o) ==
  /\ status[o] = "served"
  /\ AllDone(o)
  /\ status' = [status EXCEPT ![o] = "completed"]
  /\ UNCHANGED <<paid, promo, item, ticket, sends, books, been, made>>

Cancelled(D) == [d \in Dishes |-> IF d \in D
                   THEN [item[d] EXCEPT !.status = "cancelled"] ELSE item[d]]

\* Gifts of a promotion the order no longer qualifies for.
Revoked(o) == {d \in Gifts \cap On(o) : item[d].status = "pending"
                                         /\ ~item[d].sent}

\* void_order_item; the last live dish takes the order with it, and another
\* one may take the promotion (revoke).
VoidItem(d, revoke) ==
  LET o == item[d].order
      last == Live(o) = {d}
      gone == IF revoke THEN Revoked(o) ELSE {} IN
  /\ o # None
  /\ Open(o)
  /\ item[d].status \notin {"served", "cancelled"}
  /\ revoke => promo[o] /\ ~last
  /\ item' = Cancelled({d} \cup gone)
  /\ ticket' = IF ticket[d].status = "none" THEN ticket
               ELSE [ticket EXCEPT ![d].status = "cancelled"]
  /\ status' = IF last THEN [status EXCEPT ![o] = "cancelled"] ELSE status
  /\ promo' = [promo EXCEPT ![o] = @ /\ ~last /\ ~revoke]
  /\ UNCHANGED <<paid, sends, books, been, made>>

\* post_pos_cancelled_ready_waste: the finished dishes of an order nothing
\* was deducted for.
Waste(o) == IF posted[o] > 0 THEN 0 ELSE Cardinality(MadeOnBoard(o))

CancelOrder(o) ==
  /\ Open(o)
  /\ wasted' = [wasted EXCEPT ![o] = Waste(o)]
  /\ item' = Cancelled(On(o))
  /\ ticket' = [d \in Dishes |-> IF ticket[d].order = o
                  THEN [ticket[d] EXCEPT !.status = "cancelled"] ELSE ticket[d]]
  /\ status' = [status EXCEPT ![o] = "cancelled"]
  /\ promo' = [promo EXCEPT ![o] = FALSE]
  /\ UNCHANGED <<paid, sends, posted, rows, restored, been, made>>

-----------------------------------------------------------------------------
(* The till.                                                               *)

\* A confirmed payment and finalize_paid_order.
Pay(o) ==
  /\ status[o] \notin {"absent", "cancelled"}
  /\ ~paid[o]
  /\ paid' = [paid EXCEPT ![o] = TRUE]
  /\ status' = [status EXCEPT ![o] = "completed"]
  /\ UNCHANGED <<promo, item, ticket, sends, been, made>>
  /\ Post({o})

\* post_pos_sale_refund_restore writes one movement per order and ingredient,
\* whatever the number of deductions: the others meet its unique index.
Restored(o) == IF rows[o] = {} THEN {0} ELSE rows[o]

\* Mutant of RefundOrder: the money and the stock go back, the dishes stay.
RefundMoneyOnly(o) ==
  /\ paid[o]
  /\ status[o] # "cancelled"
  /\ status' = [status EXCEPT ![o] = "cancelled"]
  /\ \E back \in Restored(o) : restored' = [restored EXCEPT ![o] = back]
  /\ UNCHANGED <<paid, promo, item, ticket, sends, posted, rows, wasted, been,
                 made>>

RefundOrder(o) ==
  /\ paid[o]
  /\ status[o] # "cancelled"
  /\ status' = [status EXCEPT ![o] = "cancelled"]
  /\ item' = Cancelled(On(o))
  /\ ticket' = [d \in Dishes |->
       IF ticket[d].order = o /\ ticket[d].status # "served"
       THEN [ticket[d] EXCEPT !.status = "cancelled"] ELSE ticket[d]]
  /\ \E back \in Restored(o) : restored' = [restored EXCEPT ![o] = back]
  /\ UNCHANGED <<paid, promo, sends, posted, rows, wasted, been, made>>

\* Dishes and tickets move to order o; the deductions stay where they are.
MoveItems(D, o) ==
  item' = [d \in Dishes |-> IF d \in D THEN [item[d] EXCEPT !.order = o]
                                       ELSE item[d]]
\* Mutant of MoveTickets: finished tickets are left behind.
MoveActiveTickets(D, o) ==
  ticket' = [d \in Dishes |->
    IF d \in D /\ Active(d) THEN [ticket[d] EXCEPT !.order = o] ELSE ticket[d]]

MoveTickets(D, o) ==
  ticket' = [d \in Dishes |->
    IF d \in D /\ ticket[d].status # "none"
    THEN [ticket[d] EXCEPT !.order = o] ELSE ticket[d]]

\* split_order of whole lines onto a new order.
SplitOrder(o, n, D) ==
  /\ Open(o)
  /\ ~paid[o]
  /\ D \subseteq Live(o)
  /\ Live(o) \ D # {}
  /\ status[n] = "absent"
  /\ status' = [status EXCEPT ![n] = status[o]]
  /\ MoveItems(D, n)
  /\ MoveTickets({d \in D : ticket[d].order = o}, n)
  /\ been' = [been EXCEPT ![n] = D]
  /\ UNCHANGED <<paid, promo, sends, books, made>>

\* merge_orders, after merge_orders_auto_clear_promo cleared the promotions.
MergeOrders(s, t) ==
  /\ s # t
  /\ Open(s)
  /\ Open(t)
  /\ ~paid[s]
  /\ ~paid[t]
  /\ MoveItems(Live(s), t)
  /\ MoveTickets({d \in Dishes : ticket[d].order = s}, t)
  /\ status' = [status EXCEPT ![s] = "cancelled"]
  /\ promo' = [promo EXCEPT ![s] = FALSE, ![t] = FALSE]
  /\ been' = [been EXCEPT ![t] = @ \cup Live(s)]
  /\ UNCHANGED <<paid, sends, books, made>>

-----------------------------------------------------------------------------
NewDishes == {D \in SUBSET {d \in Dishes \ Gifts : Unused(d)} : D # {}}
Cards == {D \in SUBSET Dishes : D # {}}

Special == specials < MaxSpecials /\ specials' = specials + 1

DailyStep ==
  /\ \/ \E o \in Orders, D \in NewDishes : CreateOrder(o, D) \/ AppendItems(o, D)
     \/ \E D \in Cards, printed \in BOOLEAN : CompleteTickets(D, printed)
     \/ \E d \in Dishes : MarkServed(d) \/ VoidItem(d, FALSE)
     \/ \E o \in Orders : ServeOrder(o) \/ CompleteOrder(o) \/ CancelOrder(o)
     \/ \E o \in Orders : Pay(o) \/ RefundOrder(o)
  /\ UNCHANGED specials

SpecialStep ==
  /\ Special
  /\ \/ \E o \in Orders, g \in Gifts : Unused(g) /\ ApplyGift(o, g)
     \/ \E d \in Dishes : VoidItem(d, TRUE)
     \/ \E d \in Dishes : RecallTicket(d) \/ OutOfStock(d)
     \/ \E n \in 1 .. sends : CleanupTickets(n)
     \/ \E o, n \in Orders, D \in Cards : SplitOrder(o, n, D)
     \/ \E s, t \in Orders : MergeOrders(s, t)

Next == DailyStep \/ SpecialStep

Spec == Init /\ [][Next]_vars
-----------------------------------------------------------------------------
(* Properties.                                                             *)

\* While a dish is not cancelled, its ticket is on the dish's own order, and
\* once the kitchen touched the ticket both have the same status.  (A ticket
\* of a second send after a cleanup starts at pending, whatever the dish was.)
\* Splits, merges, recalls, voids and refunds have to keep it: the deduction
\* only finds a ticket that is on the order of its dish.
TicketFollowsDish ==
  \A d \in Dishes :
    item[d].status # "cancelled" /\ ticket[d].status # "none" =>
      /\ ticket[d].order = item[d].order
      /\ ticket[d].status \in {item[d].status, "pending"}

\* However often a card is bumped, recalled, bumped again, served, paid and
\* cancelled, an order is not charged more stock, as sale and as waste
\* together, than for the dishes it ever had that somebody finished or paid.
ChargedMeansMade ==
  \A o \in Orders :
    posted[o] + wasted[o] <=
      Cardinality({d \in been[o] : d \in made \/ paid[o]})

\* A paid order is charged for every dish the board shows as finished, also
\* for those bumped after the payment and those that came from another order.
PaidIsDeducted ==
  \A o \in Orders : paid[o] /\ status[o] = "completed" =>
                      posted[o] >= Cardinality(MadeOnBoard(o))

\* The kitchen screens that still show a cancelled, merged or refunded order
\* can bump, recall and serve as they like: nothing more is deducted for it.
CancelledBooksClosed ==
  [][\A o \in Orders : status[o] = "cancelled" =>
       posted'[o] = posted[o] /\ wasted'[o] = wasted[o]]_vars

\* A cancelled dish stays cancelled, although its ticket may be on the board
\* and be bumped or recalled there.
CancelledStays ==
  [][\A d \in Dishes : item[d].status = "cancelled" =>
                         item'[d].status = "cancelled"]_vars

\* baseline.sql:51929: the refund writes the exact inverse of the order's
\* sale_consumption movements.
RefundRestores ==
  \A o \in Orders : paid[o] /\ status[o] = "cancelled" =>
                      restored[o] = posted[o]
=============================================================================
