--------------------------- MODULE KitchenProofs ---------------------------
(***************************************************************************)
(* For any number of orders and dishes: the state of Kitchen keeps its     *)
(* type, a cancelled dish stays cancelled, the books of a cancelled order  *)
(* are closed, tickets follow their dishes, an order is charged only for   *)
(* what was made or paid, and a paid one for all of it.                    *)
(*                                                                         *)
(* The books close because no live dish is left on a cancelled order and   *)
(* no operation moves one there (CancelledIsEmpty, which is inductive      *)
(* together with the types): what qualifies for a deduction is live, so    *)
(* there is nothing left to deduct however late a card is bumped.          *)
(* The charges follow from Moves, which says of every operation what it    *)
(* does to a dish, to the history of an order and to its board; the three  *)
(* ways the books move (BooksMove) are then compared with the history.     *)
(***************************************************************************)
EXTENDS Kitchen, FiniteSetTheorems, TLAPS

Statuses == {"absent", "new", "ready", "served"} \cup Terminal
ItemRecord == [order : Orders \cup {None}, status : TicketStatus, sent : BOOLEAN]
TicketRecord == [order : Orders \cup {None}, status : TicketStatus \cup {"none"},
                 first : BOOLEAN, send : Nat]

\* The types, apart from the bound on special operations.
Floor ==
  /\ status \in [Orders -> Statuses]
  /\ paid \in [Orders -> BOOLEAN]
  /\ promo \in [Orders -> BOOLEAN]
  /\ item \in [Dishes -> ItemRecord]
  /\ ticket \in [Dishes -> TicketRecord]
  /\ sends \in Nat
  /\ been \in [Orders -> SUBSET Dishes]
  /\ made \in SUBSET Dishes
Books ==
  /\ posted \in [Orders -> Amounts]
  /\ rows \in [Orders -> SUBSET (Amounts \ {0})]
  /\ wasted \in [Orders -> Amounts]
  /\ restored \in [Orders -> Amounts]

CancelledIsEmpty ==
  \A d \in Dishes, o \in Orders :
    item[d].order = o /\ status[o] = "cancelled" => item[d].status = "cancelled"

\* The inductive invariant.
IInv == Floor /\ Books /\ CancelledIsEmpty /\ specials \in 0 .. MaxSpecials

\* What an operation does to the dishes and orders that are cancelled.
DishStays == \A d \in Dishes : item[d].status = "cancelled" =>
                                 item'[d].status = "cancelled"
BooksClosed == \A o \in Orders : status[o] = "cancelled" =>
                 posted'[o] = posted[o] /\ wasted'[o] = wasted[o]

Kept == Floor' /\ Books' /\ CancelledIsEmpty' /\ DishStays /\ BooksClosed

-----------------------------------------------------------------------------
(* Amounts.                                                                *)

\* A set of dishes has an amount.
LEMMA AmountOfDishes ==
  ASSUME NEW S \in SUBSET Dishes
  PROVE  Cardinality(S) \in Amounts
<1>1. IsFiniteSet(S) /\ Cardinality(S) <= Cardinality(Dishes)
  BY FS_Subset, KitchenSets
<1>2. Cardinality(S) \in Nat /\ Cardinality(Dishes) \in Nat
  BY <1>1, FS_CardinalityType, KitchenSets
<1> QED BY <1>1, <1>2 DEF Amounts

\* A deduction completes what was posted to a number of dishes.
LEMMA DeltaFits ==
  ASSUME Books, NEW o \in Orders
  PROVE  Delta(o) \in Amounts /\ posted[o] + Delta(o) \in Amounts
<1>1. Qualifying(o)' \in SUBSET Dishes
  BY DEF Qualifying, MadeOnBoard, Live, On
<1>2. Cardinality(Qualifying(o)') \in Amounts
  BY <1>1, AmountOfDishes
<1>3. posted[o] \in Amounts
  BY DEF Books
<1>4. Cardinality(Dishes) \in Nat
  BY FS_CardinalityType, KitchenSets
<1> DEFINE need == Cardinality(Qualifying(o)')
<1>5. Delta(o) = IF need > posted[o] THEN need - posted[o] ELSE 0
  BY DEF Delta
<1> HIDE DEF need
<1> QED BY <1>2, <1>3, <1>4, <1>5 DEF Amounts, need

\* Posting keeps the types of the books.
LEMMA PostTypes ==
  ASSUME Books, NEW O, Post(O)
  PROVE  Books'
<1>1. \A o \in Orders : Delta(o) \in Amounts /\ posted[o] + Delta(o) \in Amounts
  BY DeltaFits
<1>2. posted' \in [Orders -> Amounts]
  BY <1>1 DEF Post, Books
<1>3. rows' \in [Orders -> SUBSET (Amounts \ {0})]
  BY <1>1 DEF Post, Books
<1> QED BY <1>2, <1>3 DEF Post, Books

\* Posting deducts nothing for an order that is and stays cancelled.
LEMMA PostCloses ==
  ASSUME Books, CancelledIsEmpty', NEW O, Post(O),
         \A o \in Orders : status[o] = "cancelled" => status'[o] = "cancelled"
  PROVE  BooksClosed
<1> SUFFICES ASSUME NEW o \in Orders, status[o] = "cancelled"
             PROVE  posted'[o] = posted[o] /\ wasted'[o] = wasted[o]
  BY DEF BooksClosed
<1>1. Qualifying(o)' = {}
  BY DEF CancelledIsEmpty, Qualifying, MadeOnBoard, Live, On
<1>2. Cardinality(Qualifying(o)') = 0
  BY <1>1, FS_EmptySet
<1>3. posted[o] \in Nat
  BY DEF Books, Amounts
<1>4. Delta(o) = 0
  BY <1>2, <1>3 DEF Delta
<1> QED BY <1>3, <1>4 DEF Post, Books

\* An operation that leaves the books alone.
LEMMA SameBooks ==
  ASSUME Books, UNCHANGED books
  PROVE  Books' /\ BooksClosed
  BY DEF Books, BooksClosed, books

-----------------------------------------------------------------------------
(* The operations.                                                         *)

LEMMA SentTypes ==
  ASSUME NEW i \in ItemRecord
  PROVE  /\ Sent(i) \in ItemRecord
         /\ Sent(i).order = i.order
         /\ Sent(i).status = i.status
  BY DEF Sent, ItemRecord

\* Sending dishes to the kitchen.
LEMMA RouteTypes ==
  ASSUME Floor, NEW o \in Orders, NEW I \in [Dishes -> ItemRecord], Route(I, o)
  PROVE  /\ sends' \in Nat
         /\ ticket' \in [Dishes -> TicketRecord]
         /\ item' \in [Dishes -> ItemRecord]
         /\ made' \in SUBSET Dishes
         /\ \A d \in Dishes : /\ item'[d].order = I[d].order
                              /\ item'[d].status = I[d].status
<1>1. sends' \in Nat
  BY DEF Route, Floor
<1>2. ticket' \in [Dishes -> TicketRecord]
  BY <1>1 DEF Route, Floor, TicketRecord, TicketStatus
<1>3. \A d \in Dishes : /\ Sent(I[d]) \in ItemRecord
                        /\ Sent(I[d]).order = I[d].order
                        /\ Sent(I[d]).status = I[d].status
  BY SentTypes
<1>4. item' \in [Dishes -> ItemRecord]
  BY <1>3 DEF Route
<1>5. made' \in SUBSET Dishes
  BY DEF Route, Floor, Unsent
<1>6. \A d \in Dishes : item'[d].order = I[d].order /\ item'[d].status = I[d].status
  BY <1>3 DEF Route
<1> QED BY <1>1, <1>2, <1>4, <1>5, <1>6

LEMMA OrderedTypes ==
  ASSUME Floor, NEW o \in Orders, NEW D \in SUBSET Dishes
  PROVE  /\ Ordered(D, o) \in [Dishes -> ItemRecord]
         /\ \A d \in D : /\ Ordered(D, o)[d].order = o
                         /\ Ordered(D, o)[d].status = "pending"
         /\ \A d \in Dishes \ D : Ordered(D, o)[d] = item[d]
  BY DEF Floor, Ordered, NoItem, ItemRecord, TicketStatus

\* Ordering: the order is open afterwards, so a new dish may be live.
LEMMA OrderingKeeps ==
  ASSUME IInv, NEW o \in Orders, NEW D \in SUBSET Dishes,
         \A d \in D : Unused(d),
         CreateOrder(o, D) \/ AppendItems(o, D)
  PROVE  Kept
<1> DEFINE I == Ordered(D, o)
<1>1. /\ I \in [Dishes -> ItemRecord]
      /\ \A d \in D : I[d].order = o /\ I[d].status = "pending"
      /\ \A d \in Dishes \ D : I[d] = item[d]
  BY OrderedTypes DEF IInv
<1>2. Route(I, o)
  BY DEF CreateOrder, AppendItems
<1> HIDE DEF I
<1>3. /\ sends' \in Nat
      /\ ticket' \in [Dishes -> TicketRecord]
      /\ item' \in [Dishes -> ItemRecord]
      /\ made' \in SUBSET Dishes
      /\ \A d \in Dishes : /\ item'[d].order = I[d].order
                           /\ item'[d].status = I[d].status
  BY <1>1, <1>2, RouteTypes DEF IInv
<1>4. /\ status' \in [Orders -> Statuses]
      /\ status'[o] # "cancelled"
      /\ \A p \in Orders : status'[p] = "cancelled" => status[p] = "cancelled"
  BY DEF CreateOrder, AppendItems, IInv, Floor, Statuses, Open, Terminal
<1>5. Floor'
  BY <1>3, <1>4 DEF CreateOrder, AppendItems, IInv, Floor
<1>6. CancelledIsEmpty'
  BY <1>1, <1>3, <1>4 DEF IInv, CancelledIsEmpty
<1>7. DishStays
  BY <1>1, <1>3 DEF DishStays, Unused, NoItem
<1>8. Books' /\ BooksClosed
  BY SameBooks DEF CreateOrder, AppendItems, IInv
<1> QED BY <1>5, <1>6, <1>7, <1>8 DEF Kept

LEMMA GiftKeeps ==
  ASSUME IInv, NEW o \in Orders, NEW g \in Dishes, Unused(g), ApplyGift(o, g)
  PROVE  Kept
<1> DEFINE I == Ordered({g}, o)
<1>1. /\ I \in [Dishes -> ItemRecord]
      /\ I[g].order = o /\ I[g].status = "pending"
      /\ \A d \in Dishes \ {g} : I[d] = item[d]
  BY OrderedTypes DEF IInv
<1>2. item' = I /\ status[o] # "cancelled" /\ UNCHANGED <<status, books>>
  BY DEF ApplyGift, Open, Terminal
<1> HIDE DEF I
<1>3. Floor'
  BY <1>1, <1>2 DEF ApplyGift, IInv, Floor
<1>4. CancelledIsEmpty'
  BY <1>1, <1>2 DEF IInv, CancelledIsEmpty
<1>5. DishStays
  BY <1>1, <1>2 DEF DishStays, Unused, NoItem
<1>6. Books' /\ BooksClosed
  BY <1>2, SameBooks DEF IInv
<1> QED BY <1>3, <1>4, <1>5, <1>6 DEF Kept

\* The trigger keeps the type and the order of a dish, and its cancellation.
LEMMA SyncedTypes ==
  ASSUME Floor, NEW d \in Dishes, NEW s \in TicketStatus
  PROVE  /\ Synced(item, d, s) \in ItemRecord
         /\ Synced(item, d, s).order = item[d].order
         /\ item[d].status = "cancelled" => Synced(item, d, s) = item[d]
  BY DEF Floor, Synced, ItemRecord

\* check_order_ready takes orders from new to ready only.
LEMMA CheckReadyTypes ==
  ASSUME Floor, NEW O, CheckReady(O)
  PROVE  /\ status' \in [Orders -> Statuses]
         /\ \A o \in Orders : status'[o] = "cancelled" <=> status[o] = "cancelled"
  BY DEF Floor, CheckReady, Statuses

LEMMA ReadyTypes ==
  ASSUME NEW t \in TicketRecord
  PROVE  Ready(t) \in TicketRecord
  BY DEF Ready, TicketRecord, TicketStatus

LEMMA CompleteTicketsKeeps ==
  ASSUME IInv, NEW D \in SUBSET Dishes, NEW printed \in BOOLEAN,
         CompleteTickets(D, printed)
  PROVE  Kept
<1> DEFINE O == {ticket[d].order : d \in D}
           s(d) == Synced(item, d, "ready")
<1>1. Post(O) /\ CheckReady(O)
  BY DEF CompleteTickets
<1>2. Bumped(D) \in SUBSET Dishes
  BY DEF Bumped
<1> HIDE DEF O
<1>3. /\ status' \in [Orders -> Statuses]
      /\ \A o \in Orders : status'[o] = "cancelled" <=> status[o] = "cancelled"
  BY <1>1, CheckReadyTypes DEF IInv
<1>4. \A d \in Dishes : /\ s(d) \in ItemRecord
                        /\ s(d).order = item[d].order
                        /\ item[d].status = "cancelled" =>
                             s(d).status = "cancelled"
  BY SyncedTypes DEF IInv, TicketStatus
<1>5. \A d \in Dishes : /\ Sent(s(d)) \in ItemRecord
                        /\ Sent(s(d)).order = s(d).order
                        /\ Sent(s(d)).status = s(d).status
  BY <1>4, SentTypes
<1>6. item' = [d \in Dishes |-> IF d \in Bumped(D)
                 THEN IF printed THEN Sent(s(d)) ELSE s(d) ELSE item[d]]
  BY Zenon DEF CompleteTickets
<1> HIDE DEF s
<1>7. /\ item' \in [Dishes -> ItemRecord]
      /\ \A d \in Dishes : /\ item'[d].order = item[d].order
                           /\ item[d].status = "cancelled" =>
                                item'[d].status = "cancelled"
  BY <1>4, <1>5, <1>6 DEF IInv, Floor
<1>8. ticket' \in [Dishes -> TicketRecord]
  <2>1. ticket' = [d \in Dishes |->
                     IF d \in Bumped(D) THEN Ready(ticket[d]) ELSE ticket[d]]
    BY Zenon DEF CompleteTickets
  <2>2. \A d \in Dishes : Ready(ticket[d]) \in TicketRecord
    BY ReadyTypes DEF IInv, Floor
  <2> QED BY <2>1, <2>2 DEF IInv, Floor
<1>9. made' = made \cup Bumped(D) /\ UNCHANGED <<paid, promo, sends, been>>
  BY Zenon DEF CompleteTickets
<1>10. Floor'
  BY <1>2, <1>3, <1>7, <1>8, <1>9 DEF IInv, Floor
<1>11. CancelledIsEmpty'
  BY <1>3, <1>7 DEF IInv, CancelledIsEmpty
<1>12. DishStays
  BY <1>7 DEF DishStays
<1>13. Books'
  BY <1>1, PostTypes DEF IInv
<1>14. BooksClosed
  BY <1>1, <1>3, <1>11, PostCloses DEF IInv
<1> QED BY <1>10, <1>11, <1>12, <1>13, <1>14 DEF Kept

LEMMA RecallTicketKeeps ==
  ASSUME IInv, NEW d \in Dishes, RecallTicket(d)
  PROVE  Kept
<1> DEFINE s == IF ticket[d].status = "ready" THEN "preparing" ELSE "pending"
<1>1. s \in TicketStatus
  BY DEF TicketStatus
<1>2. /\ ticket' = [ticket EXCEPT ![d].status = s]
      /\ item' = [item EXCEPT ![d] = Synced(item, d, s)]
      /\ UNCHANGED <<status, paid, promo, sends, books, been, made>>
  BY Zenon DEF RecallTicket
<1> HIDE DEF s
<1>3. /\ Synced(item, d, s) \in ItemRecord
      /\ Synced(item, d, s).order = item[d].order
      /\ item[d].status = "cancelled" => Synced(item, d, s) = item[d]
  BY <1>1, SyncedTypes DEF IInv
<1>4. item' \in [Dishes -> ItemRecord]
  BY <1>2, <1>3 DEF IInv, Floor
<1>5. ticket' \in [Dishes -> TicketRecord]
  BY <1>1, <1>2 DEF IInv, Floor, TicketRecord
<1>6. Floor'
  BY <1>2, <1>4, <1>5 DEF IInv, Floor
<1>7. CancelledIsEmpty' /\ DishStays
  BY <1>2, <1>3 DEF IInv, CancelledIsEmpty, DishStays, Floor
<1>8. Books' /\ BooksClosed
  BY <1>2, SameBooks DEF IInv
<1> QED BY <1>6, <1>7, <1>8 DEF Kept

LEMMA OutOfStockKeeps ==
  ASSUME IInv, NEW d \in Dishes, OutOfStock(d)
  PROVE  Kept
<1>1. /\ item' = [item EXCEPT ![d].status = "cancelled"]
      /\ ticket' = [ticket EXCEPT ![d].status = "cancelled"]
      /\ CheckReady({ticket[d].order})
      /\ UNCHANGED <<paid, promo, sends, books, been, made>>
  BY Zenon DEF OutOfStock
<1>2. /\ status' \in [Orders -> Statuses]
      /\ \A o \in Orders : status'[o] = "cancelled" <=> status[o] = "cancelled"
  BY <1>1, CheckReadyTypes DEF IInv
<1>3. item' \in [Dishes -> ItemRecord] /\ ticket' \in [Dishes -> TicketRecord]
  <2>1. "cancelled" \in TicketStatus
    BY DEF TicketStatus
  <2>2. item' \in [Dishes -> ItemRecord]
    BY <1>1, <2>1 DEF IInv, Floor, ItemRecord
  <2>3. ticket' \in [Dishes -> TicketRecord]
    BY <1>1, <2>1 DEF IInv, Floor, TicketRecord
  <2> QED BY <2>2, <2>3
<1>4. Floor'
  BY <1>1, <1>2, <1>3 DEF IInv, Floor
<1>5. CancelledIsEmpty' /\ DishStays
  BY <1>1, <1>2 DEF IInv, CancelledIsEmpty, DishStays, Floor, ItemRecord
<1>6. Books' /\ BooksClosed
  BY <1>1, SameBooks DEF IInv
<1> QED BY <1>4, <1>5, <1>6 DEF Kept

LEMMA CleanupTicketsKeeps ==
  ASSUME IInv, NEW n, CleanupTickets(n)
  PROVE  Kept
<1>1. UNCHANGED <<status, paid, promo, item, sends, books, been, made>>
  BY Zenon DEF CleanupTickets
<1>2. ticket' \in [Dishes -> TicketRecord]
  BY DEF CleanupTickets, IInv, Floor, NoTicket, TicketRecord
<1>3. Floor' /\ CancelledIsEmpty' /\ DishStays
  BY <1>1, <1>2 DEF IInv, Floor, CancelledIsEmpty, DishStays
<1>4. Books' /\ BooksClosed
  BY <1>1, SameBooks DEF IInv
<1> QED BY <1>3, <1>4 DEF Kept

LEMMA ServedTypes ==
  ASSUME NEW t \in TicketRecord
  PROVE  Served(t) \in TicketRecord
  BY DEF Served, TicketRecord, TicketStatus

LEMMA MarkServedKeeps ==
  ASSUME IInv, NEW d \in Dishes, MarkServed(d)
  PROVE  Kept
<1>1. /\ item[d].status # "cancelled"
      /\ status[item[d].order] # "cancelled"
      /\ item' = [item EXCEPT ![d].status = "served"]
      /\ made' = made \cup {d}
      /\ UNCHANGED <<status, paid, promo, sends, been>>
      /\ Post({item[d].order})
  BY DEF MarkServed, Open, Terminal
<1>2. item' \in [Dishes -> ItemRecord]
  BY <1>1 DEF IInv, Floor, ItemRecord, TicketStatus
<1>3. ticket' \in [Dishes -> TicketRecord]
  <2>1. CASE ticket[d].status \in {"none", "cancelled"}
    BY <2>1 DEF MarkServed, IInv, Floor
  <2>2. CASE ticket[d].status \notin {"none", "cancelled"}
    <3>1. ticket' = [ticket EXCEPT ![d] = Served(ticket[d])]
      BY <2>2 DEF MarkServed
    <3>2. Served(ticket[d]) \in TicketRecord
      BY ServedTypes DEF IInv, Floor
    <3> QED BY <3>1, <3>2 DEF IInv, Floor
  <2> QED BY <2>1, <2>2
<1>4. Floor'
  BY <1>1, <1>2, <1>3 DEF IInv, Floor
<1>5. CancelledIsEmpty' /\ DishStays
  BY <1>1 DEF IInv, CancelledIsEmpty, DishStays, Floor, ItemRecord
<1>6. Books'
  BY <1>1, PostTypes DEF IInv
<1>7. BooksClosed
  BY <1>1, <1>5, PostCloses DEF IInv
<1> QED BY <1>4, <1>5, <1>6, <1>7 DEF Kept

LEMMA ServeOrderKeeps ==
  ASSUME IInv, NEW o \in Orders, ServeOrder(o)
  PROVE  Kept
<1>1. /\ status[o] \in {"new", "ready"}
      /\ status' = [status EXCEPT ![o] = "served"]
      /\ UNCHANGED <<paid, promo, sends, books, been, made>>
  BY Zenon DEF ServeOrder
<1>2. /\ item' \in [Dishes -> ItemRecord]
      /\ \A d \in Dishes : /\ item'[d].order = item[d].order
                           /\ item[d].status = "cancelled" =>
                                item'[d].status = "cancelled"
  BY DEF ServeOrder, IInv, Floor, ItemRecord, TicketStatus
<1>3. ticket' \in [Dishes -> TicketRecord]
  BY DEF ServeOrder, IInv, Floor, TicketRecord, TicketStatus
<1>4. Floor'
  BY <1>1, <1>2, <1>3 DEF IInv, Floor, Statuses
<1>5. CancelledIsEmpty' /\ DishStays
  BY <1>1, <1>2 DEF IInv, CancelledIsEmpty, DishStays, Floor
<1>6. Books' /\ BooksClosed
  BY <1>1, SameBooks DEF IInv
<1> QED BY <1>4, <1>5, <1>6 DEF Kept

LEMMA CompleteOrderKeeps ==
  ASSUME IInv, NEW o \in Orders, CompleteOrder(o)
  PROVE  Kept
<1>1. /\ status' = [status EXCEPT ![o] = "completed"]
      /\ UNCHANGED <<paid, promo, item, ticket, sends, books, been, made>>
  BY Zenon DEF CompleteOrder
<1>2. Floor' /\ CancelledIsEmpty' /\ DishStays
  BY <1>1 DEF IInv, Floor, Statuses, Terminal, CancelledIsEmpty, DishStays
<1>3. Books' /\ BooksClosed
  BY <1>1, SameBooks DEF IInv
<1> QED BY <1>2, <1>3 DEF Kept

\* Cancelling dishes.
LEMMA CancelledTypes ==
  ASSUME Floor, NEW D \in SUBSET Dishes
  PROVE  /\ Cancelled(D) \in [Dishes -> ItemRecord]
         /\ \A d \in Dishes : /\ Cancelled(D)[d].order = item[d].order
                              /\ item[d].status = "cancelled" \/ d \in D =>
                                   Cancelled(D)[d].status = "cancelled"
  BY DEF Floor, Cancelled, ItemRecord, TicketStatus

LEMMA VoidItemKeeps ==
  ASSUME IInv, NEW d \in Dishes, NEW revoke \in BOOLEAN, VoidItem(d, revoke)
  PROVE  Kept
<1> DEFINE o == item[d].order
           last == Live(o) = {d}
           D == {d} \cup (IF revoke THEN Revoked(o) ELSE {})
<1>1. /\ o # None
      /\ item' = Cancelled(D)
      /\ status' = IF last THEN [status EXCEPT ![o] = "cancelled"] ELSE status
      /\ promo' = [promo EXCEPT ![o] = @ /\ ~last /\ ~revoke]
      /\ UNCHANGED <<paid, sends, books, been, made>>
  BY Zenon DEF VoidItem
<1>2. o \in Orders
  BY <1>1 DEF IInv, Floor, ItemRecord
<1>3. D \in SUBSET Dishes /\ d \in D
  BY DEF Revoked, On
<1>4. last => \A e \in Dishes : item[e].order = o =>
                e = d \/ item[e].status = "cancelled"
  BY DEF Live, On
<1>5. ticket' \in [Dishes -> TicketRecord]
  <2>1. "cancelled" \in TicketStatus
    BY DEF TicketStatus
  <2>2. ticket' = ticket \/ ticket' = [ticket EXCEPT ![d].status = "cancelled"]
    BY Zenon DEF VoidItem
  <2> QED BY <2>1, <2>2 DEF IInv, Floor, TicketRecord
<1> HIDE DEF D, last, o
<1>6. /\ item' \in [Dishes -> ItemRecord]
      /\ \A e \in Dishes : /\ item'[e].order = item[e].order
                           /\ item[e].status = "cancelled" \/ e = d =>
                                item'[e].status = "cancelled"
  BY <1>1, <1>3, CancelledTypes DEF IInv
<1>7. promo' \in [Orders -> BOOLEAN]
  BY <1>1 DEF IInv, Floor
<1>8. status' \in [Orders -> Statuses]
  BY <1>1 DEF IInv, Floor, Statuses, Terminal
<1>9. Floor'
  BY <1>1, <1>5, <1>6, <1>7, <1>8 DEF IInv, Floor
<1>10. CancelledIsEmpty'
  BY <1>1, <1>2, <1>4, <1>6 DEF IInv, CancelledIsEmpty, Floor
<1>11. DishStays
  BY <1>6 DEF DishStays
<1>12. Books' /\ BooksClosed
  BY <1>1, SameBooks DEF IInv
<1> QED BY <1>9, <1>10, <1>11, <1>12 DEF Kept

LEMMA CancelOrderKeeps ==
  ASSUME IInv, NEW o \in Orders, CancelOrder(o)
  PROVE  Kept
<1>1. /\ status[o] # "cancelled"
      /\ wasted' = [wasted EXCEPT ![o] = Waste(o)]
      /\ item' = Cancelled(On(o))
      /\ status' = [status EXCEPT ![o] = "cancelled"]
      /\ promo' = [promo EXCEPT ![o] = FALSE]
      /\ UNCHANGED <<paid, sends, posted, rows, restored, been, made>>
  BY DEF CancelOrder, Open, Terminal
<1>2. On(o) \in SUBSET Dishes /\ \A d \in Dishes : d \in On(o) <=> item[d].order = o
  BY DEF On
<1>3. /\ item' \in [Dishes -> ItemRecord]
      /\ \A d \in Dishes : /\ item'[d].order = item[d].order
                           /\ item[d].status = "cancelled" \/ item[d].order = o =>
                                item'[d].status = "cancelled"
  BY <1>1, <1>2, CancelledTypes DEF IInv
<1>4. ticket' \in [Dishes -> TicketRecord]
  BY DEF CancelOrder, IInv, Floor, TicketRecord, TicketStatus
<1>5. Floor'
  BY <1>1, <1>3, <1>4 DEF IInv, Floor, Statuses, Terminal
<1>6. CancelledIsEmpty' /\ DishStays
  BY <1>1, <1>3 DEF IInv, CancelledIsEmpty, DishStays, Floor
<1>7. Waste(o) \in Amounts
  <2>1. Cardinality(MadeOnBoard(o)) \in Amounts
    BY AmountOfDishes DEF MadeOnBoard, Live, On
  <2>2. 0 \in Amounts
    BY FS_CardinalityType, KitchenSets DEF Amounts
  <2> QED BY <2>1, <2>2 DEF Waste
<1>8. Books' /\ BooksClosed
  BY <1>1, <1>7 DEF IInv, Books, BooksClosed
<1> QED BY <1>5, <1>6, <1>8 DEF Kept

LEMMA PayKeeps ==
  ASSUME IInv, NEW o \in Orders, Pay(o)
  PROVE  Kept
<1>1. /\ status[o] # "cancelled"
      /\ paid' = [paid EXCEPT ![o] = TRUE]
      /\ status' = [status EXCEPT ![o] = "completed"]
      /\ UNCHANGED <<promo, item, ticket, sends, been, made>>
      /\ Post({o})
  BY DEF Pay
<1>2. Floor'
  BY <1>1 DEF IInv, Floor, Statuses, Terminal
<1>3. CancelledIsEmpty' /\ DishStays
  BY <1>1 DEF IInv, CancelledIsEmpty, DishStays, Floor
<1>4. \A p \in Orders : status[p] = "cancelled" => status'[p] = "cancelled"
  BY <1>1 DEF IInv, Floor
<1>5. Books' /\ BooksClosed
  BY <1>1, <1>3, <1>4, PostTypes, PostCloses DEF IInv
<1> QED BY <1>2, <1>3, <1>5 DEF Kept

LEMMA RefundOrderKeeps ==
  ASSUME IInv, NEW o \in Orders, RefundOrder(o)
  PROVE  Kept
<1>1. /\ status' = [status EXCEPT ![o] = "cancelled"]
      /\ item' = Cancelled(On(o))
      /\ \E back \in Restored(o) : restored' = [restored EXCEPT ![o] = back]
      /\ UNCHANGED <<paid, promo, sends, posted, rows, wasted, been, made>>
  BY Zenon DEF RefundOrder
<1>2. On(o) \in SUBSET Dishes /\ \A d \in Dishes : d \in On(o) <=> item[d].order = o
  BY DEF On
<1>3. /\ item' \in [Dishes -> ItemRecord]
      /\ \A d \in Dishes : /\ item'[d].order = item[d].order
                           /\ item[d].status = "cancelled" \/ item[d].order = o =>
                                item'[d].status = "cancelled"
  BY <1>1, <1>2, CancelledTypes DEF IInv
<1>4. ticket' \in [Dishes -> TicketRecord]
  BY DEF RefundOrder, IInv, Floor, TicketRecord, TicketStatus
<1>5. Floor'
  BY <1>1, <1>3, <1>4 DEF IInv, Floor, Statuses, Terminal
<1>6. CancelledIsEmpty' /\ DishStays
  BY <1>1, <1>3 DEF IInv, CancelledIsEmpty, DishStays, Floor
<1>7. \A back \in Restored(o) : back \in Amounts
  BY FS_CardinalityType, KitchenSets DEF Restored, IInv, Books, Amounts
<1>8. Books' /\ BooksClosed
  BY <1>1, <1>7 DEF IInv, Books, BooksClosed
<1> QED BY <1>5, <1>6, <1>8 DEF Kept

\* Moving dishes and tickets to an order.
LEMMA MoveTypes ==
  ASSUME Floor, NEW o \in Orders, NEW D, NEW T, MoveItems(D, o), MoveTickets(T, o)
  PROVE  /\ item' \in [Dishes -> ItemRecord]
         /\ ticket' \in [Dishes -> TicketRecord]
         /\ \A d \in Dishes :
              /\ item'[d].status = item[d].status
              /\ item'[d].order = IF d \in D THEN o ELSE item[d].order
<1>1. /\ item' \in [Dishes -> ItemRecord]
      /\ \A d \in Dishes :
           /\ item'[d].status = item[d].status
           /\ item'[d].order = IF d \in D THEN o ELSE item[d].order
  BY DEF Floor, MoveItems, ItemRecord
<1>2. ticket' \in [Dishes -> TicketRecord]
  BY DEF Floor, MoveTickets, TicketRecord
<1> QED BY <1>1, <1>2

\* A split goes from an open order to a fresh one.
LEMMA SplitOrderKeeps ==
  ASSUME IInv, NEW o \in Orders, NEW n \in Orders, NEW D \in SUBSET Dishes,
         SplitOrder(o, n, D)
  PROVE  Kept
<1>1. /\ status[o] # "cancelled" /\ status[n] = "absent"
      /\ status' = [status EXCEPT ![n] = status[o]]
      /\ MoveItems(D, n)
      /\ MoveTickets({d \in D : ticket[d].order = o}, n)
      /\ been' = [been EXCEPT ![n] = D]
      /\ UNCHANGED <<paid, promo, sends, books, made>>
  BY DEF SplitOrder, Open, Terminal
<1>2. /\ item' \in [Dishes -> ItemRecord]
      /\ ticket' \in [Dishes -> TicketRecord]
      /\ \A d \in Dishes :
           /\ item'[d].status = item[d].status
           /\ item'[d].order = IF d \in D THEN n ELSE item[d].order
  BY <1>1, MoveTypes DEF IInv
<1>3. Floor'
  BY <1>1, <1>2 DEF IInv, Floor
<1>4. CancelledIsEmpty' /\ DishStays
  BY <1>1, <1>2 DEF IInv, CancelledIsEmpty, DishStays, Floor
<1>5. Books' /\ BooksClosed
  BY <1>1, SameBooks DEF IInv
<1> QED BY <1>3, <1>4, <1>5 DEF Kept

\* A merge leaves no live dish on the order it cancels.
LEMMA MergeOrdersKeeps ==
  ASSUME IInv, NEW s \in Orders, NEW t \in Orders, MergeOrders(s, t)
  PROVE  Kept
<1>1. /\ s # t
      /\ status[t] # "cancelled"
      /\ MoveItems(Live(s), t)
      /\ MoveTickets({d \in Dishes : ticket[d].order = s}, t)
      /\ status' = [status EXCEPT ![s] = "cancelled"]
      /\ promo' = [promo EXCEPT ![s] = FALSE, ![t] = FALSE]
      /\ been' = [been EXCEPT ![t] = @ \cup Live(s)]
      /\ UNCHANGED <<paid, sends, books, made>>
  BY DEF MergeOrders, Open, Terminal
<1>2. /\ item' \in [Dishes -> ItemRecord]
      /\ ticket' \in [Dishes -> TicketRecord]
      /\ \A d \in Dishes :
           /\ item'[d].status = item[d].status
           /\ item'[d].order = IF d \in Live(s) THEN t ELSE item[d].order
  BY <1>1, MoveTypes DEF IInv
<1>3. \A d \in Dishes : d \in Live(s) <=>
         item[d].order = s /\ item[d].status # "cancelled"
  BY DEF Live, On
<1>4. status' \in [Orders -> Statuses] /\ promo' \in [Orders -> BOOLEAN]
  BY <1>1 DEF IInv, Floor, Statuses, Terminal
<1>5. been' \in [Orders -> SUBSET Dishes]
  BY <1>1 DEF IInv, Floor, Live, On
<1>6. Floor'
  BY <1>1, <1>2, <1>4, <1>5 DEF IInv, Floor
<1>7. CancelledIsEmpty' /\ DishStays
  BY <1>1, <1>2, <1>3 DEF IInv, CancelledIsEmpty, DishStays, Floor
<1>8. Books' /\ BooksClosed
  BY <1>1, SameBooks DEF IInv
<1> QED BY <1>6, <1>7, <1>8 DEF Kept

-----------------------------------------------------------------------------
(* The inductive invariant and the theorems.                               *)

LEMMA InitInv == Init => IInv
<1> SUFFICES ASSUME Init PROVE IInv
  OBVIOUS
<1>1. 0 \in Amounts /\ 0 \in 0 .. MaxSpecials
  BY FS_CardinalityType, KitchenSets DEF Amounts
<1>2. Floor
  BY DEF Init, Floor, Statuses, ItemRecord, TicketRecord, TicketStatus, NoItem,
         NoTicket
<1>3. Books
  BY <1>1 DEF Init, Books
<1>4. CancelledIsEmpty
  BY DEF Init, CancelledIsEmpty
<1> QED BY <1>1, <1>2, <1>3, <1>4 DEF Init, IInv

LEMMA DailyStepKeeps == IInv /\ DailyStep => Kept
<1> SUFFICES ASSUME IInv, DailyStep PROVE Kept
  OBVIOUS
<1>1. CASE \E o \in Orders, D \in NewDishes : CreateOrder(o, D) \/ AppendItems(o, D)
  BY <1>1, OrderingKeeps DEF NewDishes
<1>2. CASE \E D \in Cards, printed \in BOOLEAN : CompleteTickets(D, printed)
  BY <1>2, CompleteTicketsKeeps DEF Cards
<1>3. CASE \E d \in Dishes : MarkServed(d) \/ VoidItem(d, FALSE)
  BY <1>3, MarkServedKeeps, VoidItemKeeps
<1>4. CASE \E o \in Orders : ServeOrder(o) \/ CompleteOrder(o) \/ CancelOrder(o)
  BY <1>4, ServeOrderKeeps, CompleteOrderKeeps, CancelOrderKeeps
<1>5. CASE \E o \in Orders : Pay(o) \/ RefundOrder(o)
  BY <1>5, PayKeeps, RefundOrderKeeps
<1> QED BY <1>1, <1>2, <1>3, <1>4, <1>5 DEF DailyStep

LEMMA SpecialStepKeeps == IInv /\ SpecialStep => Kept
<1> SUFFICES ASSUME IInv, SpecialStep PROVE Kept
  OBVIOUS
<1>1. CASE \E o \in Orders, g \in Gifts : Unused(g) /\ ApplyGift(o, g)
  BY <1>1, GiftKeeps, KitchenSets
<1>2. CASE \E d \in Dishes : VoidItem(d, TRUE)
  BY <1>2, VoidItemKeeps
<1>3. CASE \E d \in Dishes : RecallTicket(d) \/ OutOfStock(d)
  BY <1>3, RecallTicketKeeps, OutOfStockKeeps
<1>4. CASE \E n \in 1 .. sends : CleanupTickets(n)
  BY <1>4, CleanupTicketsKeeps
<1>5. CASE \E o, n \in Orders, D \in Cards : SplitOrder(o, n, D)
  BY <1>5, SplitOrderKeeps DEF Cards
<1>6. CASE \E s, t \in Orders : MergeOrders(s, t)
  BY <1>6, MergeOrdersKeeps
<1> QED BY <1>1, <1>2, <1>3, <1>4, <1>5, <1>6 DEF SpecialStep

LEMMA NextInv == IInv /\ [Next]_vars => IInv' /\ (Kept \/ UNCHANGED vars)
<1> SUFFICES ASSUME IInv, [Next]_vars PROVE IInv' /\ (Kept \/ UNCHANGED vars)
  OBVIOUS
<1>1. CASE DailyStep
  <2>1. Kept /\ UNCHANGED specials
    BY <1>1, DailyStepKeeps DEF DailyStep
  <2> QED BY <2>1 DEF Kept, IInv
<1>2. CASE SpecialStep
  <2>1. Kept /\ Special
    BY <1>2, SpecialStepKeeps DEF SpecialStep
  <2>2. specials' \in 0 .. MaxSpecials
    BY <2>1, KitchenSets DEF Special, IInv
  <2> QED BY <2>1, <2>2 DEF Kept, IInv
<1>3. CASE UNCHANGED vars
  BY <1>3 DEF vars, books, IInv, Floor, Books, CancelledIsEmpty
<1> QED BY <1>1, <1>2, <1>3 DEF Next

LEMMA Invariance == Spec => []IInv
<1>1. IInv /\ [Next]_vars => IInv'
  BY NextInv
<1> QED BY InitInv, <1>1, PTL DEF Spec

\* Whatever waiters, cooks, cashiers and the cron do, every row of order_items,
\* kds_tickets and orders holds a value of its type, and no order is charged
\* for more dishes than there are.
THEOREM TypeCorrect == Spec => []TypeOK
<1>1. IInv => TypeOK
  BY DEF IInv, Floor, Books, TypeOK, ItemRecord, TicketRecord, Statuses
<1> QED BY Invariance, <1>1, PTL

\* A cancelled dish stays cancelled: the trigger on kds_tickets lets no bump,
\* recall or late card revive it.
THEOREM CancelledDishStays == Spec => CancelledStays
<1>1. IInv /\ [Next]_vars =>
        [\A d \in Dishes : item[d].status = "cancelled" =>
                           item'[d].status = "cancelled"]_vars
  BY NextInv DEF Kept, DishStays
<1> QED BY Invariance, <1>1, PTL DEF Spec, CancelledStays

\* Once an order is cancelled, merged away or refunded, nothing more is
\* deducted for it, as sale or as waste.
THEOREM BooksOfCancelledClosed == Spec => CancelledBooksClosed
<1>1. IInv /\ [Next]_vars =>
        [\A o \in Orders : status[o] = "cancelled" =>
           posted'[o] = posted[o] /\ wasted'[o] = wasted[o]]_vars
  BY NextInv DEF Kept, BooksClosed
<1> QED BY Invariance, <1>1, PTL DEF Spec, CancelledBooksClosed
-----------------------------------------------------------------------------
(* Tickets follow their dishes, and what is charged was made.              *)

\* A dish on no order has no ticket; otherwise TicketFollowsDish, of one dish.
Fits(d) ==
  /\ item[d].order = None => ticket[d].status = "none"
  /\ ticket[d].status = "none" => ticket[d].order = None
  /\ item[d].status # "cancelled" /\ ticket[d].status # "none" =>
       /\ ticket[d].order = item[d].order
       /\ ticket[d].status \in {item[d].status, "pending"}

\* The history knows the dishes of an order and whatever was finished.
Known(d) ==
  /\ \A o \in Orders : item[d].order = o => d \in been[o]
  /\ ticket[d].first => d \in made
  /\ item[d].sent => d \in made

\* An order that is not inserted has no past, a paid one is over, and waste
\* is booked with the cancellation only.
Ended(o) ==
  /\ status[o] = "absent" => been[o] = {}
  /\ paid[o] => status[o] \in Terminal
  /\ status[o] # "cancelled" => wasted[o] = 0

Charge(o) == {d \in been[o] : d \in made \/ paid[o]}
Due(o) == paid[o] /\ status[o] = "completed"
OnBoard(d, o) ==
  /\ item[d].order = o /\ item[d].status # "cancelled"
  /\ ticket[d].order = o /\ ticket[d].status \notin {"none", "cancelled"}
  /\ ticket[d].first

KitchenSound ==
  /\ IInv
  /\ \A d \in Dishes : Fits(d) /\ Known(d)
  /\ \A o \in Orders : Ended(o)
  /\ ChargedMeansMade
  /\ PaidIsDeducted

\* What every operation does to a dish,
DishMoves(d) ==
  /\ Fits(d)'
  /\ \A o \in Orders : item'[d].order = o => item[d].order = o \/ d \in been'[o]
  /\ ticket'[d].first => ticket[d].first \/ d \in made'
  /\ item'[d].sent => item[d].sent \/ d \in made'

\* to an order: nothing of its history is forgotten and its end is final,
OrderMoves(o) ==
  /\ been[o] \subseteq been'[o] \/ status[o] = "absent"
  /\ status'[o] = "absent" => status[o] = "absent" /\ been'[o] = been[o]
  /\ paid[o] => paid'[o]
  /\ paid'[o] => paid[o] \/ status'[o] = "completed"
  /\ status[o] \in Terminal => status'[o] \in Terminal
  /\ status[o] = "cancelled" => status'[o] = "cancelled"

\* and to the deduction of a paid order: it is made up to date, or the board
\* shows no finished dish that it did not show.
Settled(o) == posted'[o] >= Cardinality(Qualifying(o)')
BoardMoves(o) ==
  Due(o)' => \/ Settled(o)
             \/ Due(o) /\ \A d \in Dishes : OnBoard(d, o)' => OnBoard(d, o)

Moves ==
  /\ \A d \in Dishes : DishMoves(d)
  /\ \A o \in Orders : OrderMoves(o) /\ BoardMoves(o)
  /\ made \subseteq made'

Fitting == IInv /\ \A d \in Dishes : Fits(d)

LEMMA BoardIs ==
  ASSUME NEW o \in Orders
  PROVE  MadeOnBoard(o) = {d \in Dishes : OnBoard(d, o)}
  BY DEF MadeOnBoard, Live, On, Shown, OnBoard

\* Posting brings an order up to date.
LEMMA PostSettles ==
  ASSUME Books, NEW O, Post(O), NEW o \in Orders, o \in O
  PROVE  Settled(o)
<1> DEFINE need == Cardinality(Qualifying(o)')
<1>1. need \in Nat
  <2>1. Qualifying(o)' \in SUBSET Dishes
    BY DEF Qualifying, MadeOnBoard, Live, On
  <2> QED BY <2>1, AmountOfDishes DEF Amounts
<1>2. posted[o] \in Nat
  BY DEF Books, Amounts
<1>3. posted'[o] = posted[o] + (IF need > posted[o] THEN need - posted[o] ELSE 0)
  BY DEF Post, Delta
<1>4. posted'[o] >= need
  <2> HIDE DEF need
  <2> QED BY <1>1, <1>2, <1>3
<1> QED BY <1>4 DEF Settled

\* What the updates of a ticket and of a dish change.
LEMMA ReadyFields ==
  ASSUME NEW t \in TicketRecord
  PROVE  /\ Ready(t).order = t.order /\ Ready(t).status = "ready"
         /\ Served(t).order = t.order /\ Served(t).status = "served"
  BY DEF Ready, Served, TicketRecord

LEMMA SyncedFields ==
  ASSUME Floor, NEW d \in Dishes, NEW s
  PROVE  /\ Synced(item, d, s).order = item[d].order
         /\ Synced(item, d, s).sent = item[d].sent
         /\ IF item[d].status = "cancelled"
            THEN Synced(item, d, s).status = "cancelled"
            ELSE Synced(item, d, s).status = s
  BY DEF Floor, Synced, ItemRecord

\* A dish of which neither row changes in what it says of its order, status
\* and finish.
LEMMA DishStill ==
  ASSUME NEW d \in Dishes, Fits(d),
         item'[d] = item[d], ticket'[d] = ticket[d]
  PROVE  DishMoves(d)
  BY DEF DishMoves, Fits

\* A dish that is cancelled on its order, with or without its ticket.
LEMMA DishCancelled ==
  ASSUME Floor, NEW d \in Dishes, Fits(d), item[d].order # None,
         item'[d] = [item[d] EXCEPT !.status = "cancelled"],
         \/ ticket'[d] = ticket[d]
         \/ ticket'[d] = [ticket[d] EXCEPT !.status = "cancelled"]
  PROVE  DishMoves(d) /\ \A o \in Orders : ~OnBoard(d, o)'
<1>1. item[d] \in ItemRecord /\ ticket[d] \in TicketRecord
  BY DEF Floor
<1>2. /\ item'[d].order = item[d].order
      /\ item'[d].sent = item[d].sent
      /\ item'[d].status = "cancelled"
  BY <1>1 DEF ItemRecord
<1>3. /\ ticket'[d].first = ticket[d].first
      /\ ticket'[d] = ticket[d] \/ ticket'[d].status = "cancelled"
  BY <1>1 DEF TicketRecord
<1> QED BY <1>2, <1>3 DEF DishMoves, Fits, OnBoard

-----------------------------------------------------------------------------
(* The operations, once more: tickets, history and board.                  *)

LEMMA RouteFields ==
  ASSUME Floor, NEW o \in Orders, NEW I \in [Dishes -> ItemRecord], Route(I, o)
  PROVE  /\ made \subseteq made'
         /\ \A d \in Dishes :
              /\ item'[d].order = I[d].order
              /\ item'[d].status = I[d].status
              /\ item'[d].sent => I[d].sent \/ d \in made'
              /\ \/ ticket'[d] = ticket[d]
                 \/ /\ I[d].order = o
                    /\ ticket'[d].order = o
                    /\ ticket'[d].status = "pending"
                    /\ ~ticket'[d].first
<1>1. \A d \in Dishes : item'[d].order = I[d].order /\ item'[d].status = I[d].status
  BY RouteTypes
<1>2. \A d \in Dishes : item'[d].sent => I[d].sent \/ d \in made'
  BY DEF Route
<1>3. \A d \in Dishes :
        \/ ticket'[d] = ticket[d]
        \/ /\ I[d].order = o
           /\ ticket'[d].order = o
           /\ ticket'[d].status = "pending"
           /\ ~ticket'[d].first
  BY DEF Route, Unsent
<1>4. made \subseteq made'
  BY DEF Route
<1> QED BY <1>1, <1>2, <1>3, <1>4

LEMMA OrderingMoves ==
  ASSUME Fitting, NEW o \in Orders, NEW D \in SUBSET Dishes,
         \A d \in D : Unused(d),
         CreateOrder(o, D) \/ AppendItems(o, D)
  PROVE  Moves
<1> DEFINE I == Ordered(D, o)
<1>1. /\ I \in [Dishes -> ItemRecord]
      /\ \A d \in D : I[d].order = o /\ ~I[d].sent
      /\ \A d \in Dishes \ D : I[d] = item[d]
  <2>1. \A d \in D : I[d] = [NoItem EXCEPT !.order = o]
    BY DEF Ordered
  <2>2. ~[NoItem EXCEPT !.order = o].sent
    BY DEF NoItem
  <2> HIDE DEF I
  <2>3. \A d \in D : ~I[d].sent
    BY <2>1, <2>2
  <2> QED BY <2>3, OrderedTypes DEF Fitting, IInv, I
<1>2. Route(I, o)
  BY DEF CreateOrder, AppendItems
<1> HIDE DEF I
<1>3. /\ made \subseteq made'
      /\ \A d \in Dishes :
           /\ item'[d].order = I[d].order
           /\ item'[d].status = I[d].status
           /\ item'[d].sent => I[d].sent \/ d \in made'
           /\ \/ ticket'[d] = ticket[d]
              \/ /\ I[d].order = o
                 /\ ticket'[d].order = o
                 /\ ticket'[d].status = "pending"
                 /\ ~ticket'[d].first
  BY <1>1, <1>2, RouteFields DEF Fitting, IInv
<1>4. /\ o # None
      /\ D \subseteq been'[o]
      /\ been[o] \subseteq been'[o] \/ status[o] = "absent"
      /\ status[o] \notin Terminal
      /\ status'[o] \notin Terminal \cup {"absent"}
      /\ \A p \in Orders \ {o} : status'[p] = status[p] /\ been'[p] = been[p]
      /\ UNCHANGED paid
  BY KitchenSets DEF CreateOrder, AppendItems, Fitting, IInv, Floor, Open, Terminal
<1>5. \A d \in D : /\ item[d].order = None /\ ticket[d].status = "none"
                   /\ ticket[d].order = None
  BY DEF Unused, NoItem, Fitting, Fits
<1>6. ASSUME NEW d \in Dishes
      PROVE  DishMoves(d)
  <2>1. CASE d \in D
    <3>1. Fits(d)'
      BY <1>1, <1>3, <1>4, <1>5, <2>1 DEF Fits
    <3> QED BY <1>1, <1>3, <1>4, <2>1, <3>1 DEF DishMoves
  <2>2. CASE d \notin D
    <3>1. Fits(d)'
      BY <1>1, <1>3, <1>4, <2>2 DEF Fits, Fitting
    <3> QED BY <1>1, <1>3, <1>4, <2>2, <3>1 DEF DishMoves
  <2> QED BY <2>1, <2>2
<1>7. \A p \in Orders : OrderMoves(p)
  BY <1>4 DEF OrderMoves, Terminal
<1>8. ASSUME NEW p \in Orders, Due(p)'
      PROVE  Due(p) /\ \A d \in Dishes : OnBoard(d, p)' => OnBoard(d, p)
  <2>1. p # o
    BY <1>4, <1>8 DEF Due, Terminal
  <2>2. Due(p)
    BY <1>4, <1>8, <2>1 DEF Due
  <2>3. \A d \in Dishes : OnBoard(d, p)' => OnBoard(d, p)
    BY <1>1, <1>3, <2>1 DEF OnBoard
  <2> QED BY <2>2, <2>3
<1> QED BY <1>3, <1>6, <1>7, <1>8 DEF Moves, BoardMoves

LEMMA GiftMoves ==
  ASSUME Fitting, NEW o \in Orders, NEW g \in Dishes, Unused(g), ApplyGift(o, g)
  PROVE  Moves
<1>1. /\ item'[g].order = o /\ ~item'[g].sent
      /\ \A d \in Dishes \ {g} : item'[d] = item[d]
      /\ UNCHANGED <<status, paid, ticket, made>>
      /\ g \in been'[o]
      /\ \A p \in Orders : been[p] \subseteq been'[p]
      /\ \A p \in Orders \ {o} : been'[p] = been[p]
      /\ status[o] # "absent"
      /\ o # None
  BY KitchenSets
     DEF ApplyGift, Ordered, NoItem, Fitting, IInv, Floor, Open
<1>2. ticket[g].status = "none"
  BY DEF Unused, NoItem, Fitting, Fits
<1>3. ASSUME NEW d \in Dishes PROVE DishMoves(d)
  <2>1. CASE d = g
    BY <1>1, <1>2, <2>1 DEF DishMoves, Fits, Fitting, IInv, Floor
  <2>2. CASE d # g
    BY <1>1, <2>2, DishStill DEF Fitting
  <2> QED BY <2>1, <2>2
<1>4. \A p \in Orders : OrderMoves(p)
  BY <1>1 DEF OrderMoves
<1>5. \A p \in Orders : BoardMoves(p)
  BY <1>1, <1>2 DEF BoardMoves, Due, OnBoard
<1> QED BY <1>1, <1>3, <1>4, <1>5 DEF Moves
LEMMA CompleteTicketsMoves ==
  ASSUME Fitting, NEW D \in SUBSET Dishes, NEW printed \in BOOLEAN,
         CompleteTickets(D, printed)
  PROVE  Moves
<1> DEFINE s(d) == Synced(item, d, "ready")
<1>1. /\ Post({ticket[d].order : d \in D})
      /\ CheckReady({ticket[d].order : d \in D})
      /\ ticket' = [d \in Dishes |->
                      IF d \in Bumped(D) THEN Ready(ticket[d]) ELSE ticket[d]]
      /\ item' = [d \in Dishes |->
                    IF d \in Bumped(D)
                    THEN IF printed THEN Sent(s(d)) ELSE s(d) ELSE item[d]]
      /\ made' = made \cup Bumped(D)
      /\ UNCHANGED <<paid, been>>
  BY Zenon DEF CompleteTickets
<1>2. \A d \in Dishes :
        /\ s(d) \in ItemRecord
        /\ s(d).order = item[d].order
        /\ s(d).sent = item[d].sent
        /\ IF item[d].status = "cancelled" THEN s(d).status = "cancelled"
                                           ELSE s(d).status = "ready"
  BY SyncedTypes, SyncedFields DEF Fitting, IInv, TicketStatus
<1>3. \A d \in Dishes : /\ Sent(s(d)).order = s(d).order
                        /\ Sent(s(d)).status = s(d).status
  BY <1>2, SentTypes
<1> HIDE DEF s
<1>4. ASSUME NEW d \in Dishes, d \in Bumped(D)
      PROVE  /\ d \in D /\ d \in made'
             /\ ticket[d].status \in {"pending", "preparing"}
             /\ ticket'[d].order = ticket[d].order
             /\ ticket'[d].status = "ready"
             /\ item'[d].order = item[d].order
             /\ IF item[d].status = "cancelled"
                THEN item'[d].status = "cancelled"
                ELSE item'[d].status = "ready"
  <2>1. ticket'[d] = Ready(ticket[d]) /\ item'[d] \in {Sent(s(d)), s(d)}
    BY <1>1, <1>4
  <2>2. /\ Ready(ticket[d]).order = ticket[d].order
        /\ Ready(ticket[d]).status = "ready"
    BY ReadyFields DEF Fitting, IInv, Floor
  <2>3. d \in D /\ d \in made' /\ ticket[d].status \in {"pending", "preparing"}
    BY <1>1, <1>4 DEF Bumped, Active
  <2> QED BY <1>2, <1>3, <2>1, <2>2, <2>3
<1>5. \A d \in Dishes : d \notin Bumped(D) =>
                          item'[d] = item[d] /\ ticket'[d] = ticket[d]
  BY <1>1
<1>6. ASSUME NEW d \in Dishes PROVE DishMoves(d)
  <2>1. CASE d \in Bumped(D)
    <3>1. Fits(d)'
      BY <1>4, <2>1 DEF Fits, Fitting
    <3> QED BY <1>4, <2>1, <3>1 DEF DishMoves
  <2>2. CASE d \notin Bumped(D)
    BY <1>5, <2>2, DishStill DEF Fitting
  <2> QED BY <2>1, <2>2
<1>7. \A o \in Orders : status'[o] = status[o] \/ (status[o] = "new" /\ status'[o] = "ready")
  BY <1>1 DEF CheckReady
<1>8. \A o \in Orders : OrderMoves(o)
  BY <1>1, <1>7 DEF OrderMoves, Terminal
<1>9. ASSUME NEW o \in Orders PROVE BoardMoves(o)
  <2>1. CASE o \in {ticket[d].order : d \in D}
    BY <1>1, <2>1, PostSettles DEF BoardMoves, Fitting, IInv
  <2>2. CASE o \notin {ticket[d].order : d \in D}
    <3>1. \A d \in D : ticket[d].order # o
      BY <2>2
    <3>2. \A d \in Dishes : OnBoard(d, o)' => OnBoard(d, o)
      BY <1>4, <1>5, <3>1 DEF OnBoard
    <3>3. Due(o)' => Due(o)
      BY <1>1, <1>7 DEF Due
    <3> QED BY <3>2, <3>3 DEF BoardMoves
  <2> QED BY <2>1, <2>2
<1>10. made \subseteq made'
  BY <1>1
<1> QED BY <1>6, <1>8, <1>9, <1>10 DEF Moves

\* Operations that leave orders, history and the time of finishing alone.
LEMMA DishOnly ==
  ASSUME UNCHANGED <<status, paid, been, made>>,
         \A d \in Dishes :
           /\ DishMoves(d)
           /\ \A o \in Orders : OnBoard(d, o)' => OnBoard(d, o)
  PROVE  Moves
<1>1. \A o \in Orders : OrderMoves(o)
  BY DEF OrderMoves
<1>2. \A o \in Orders : BoardMoves(o)
  BY DEF BoardMoves, Due
<1> QED BY <1>1, <1>2 DEF Moves

LEMMA RecallTicketMoves ==
  ASSUME Fitting, NEW d \in Dishes, RecallTicket(d)
  PROVE  Moves
<1>1. PICK s \in {"preparing", "pending"} :
        /\ ticket' = [ticket EXCEPT ![d].status = s]
        /\ item' = [item EXCEPT ![d] = Synced(item, d, s)]
  BY Zenon DEF RecallTicket
<1>2. /\ UNCHANGED <<status, paid, been, made>>
      /\ ticket[d].status \in {"ready", "preparing"}
  BY DEF RecallTicket
<1>3. /\ ticket'[d] = [ticket[d] EXCEPT !.status = s]
      /\ item'[d] = Synced(item, d, s)
      /\ \A e \in Dishes \ {d} : item'[e] = item[e] /\ ticket'[e] = ticket[e]
      /\ ticket[d] \in TicketRecord
  BY <1>1 DEF Fitting, IInv, Floor
<1>4. /\ ticket'[d].order = ticket[d].order
      /\ ticket'[d].status = s
      /\ ticket'[d].first = ticket[d].first
  BY <1>3 DEF TicketRecord
<1>5. /\ item'[d].order = item[d].order
      /\ item'[d].sent = item[d].sent
      /\ IF item[d].status = "cancelled" THEN item'[d].status = "cancelled"
                                         ELSE item'[d].status = s
  BY <1>3, SyncedFields DEF Fitting, IInv
<1>6. Fits(d)'
  BY <1>2, <1>4, <1>5 DEF Fits, Fitting
<1>7. DishMoves(d) /\ \A o \in Orders : OnBoard(d, o)' => OnBoard(d, o)
  BY <1>2, <1>4, <1>5, <1>6 DEF DishMoves, OnBoard
<1>8. \A e \in Dishes \ {d} :
        DishMoves(e) /\ \A o \in Orders : OnBoard(e, o)' => OnBoard(e, o)
  BY <1>3, DishStill DEF Fitting, OnBoard
<1> QED BY <1>2, <1>7, <1>8, DishOnly

LEMMA CleanupTicketsMoves ==
  ASSUME Fitting, NEW n, CleanupTickets(n)
  PROVE  Moves
<1>1. /\ UNCHANGED <<status, paid, been, made, item>>
      /\ \A d \in Dishes : ticket'[d] = ticket[d] \/ ticket'[d] = NoTicket
  BY DEF CleanupTickets
<1>2. ASSUME NEW d \in Dishes
      PROVE  DishMoves(d) /\ \A o \in Orders : OnBoard(d, o)' => OnBoard(d, o)
  <2>1. CASE ticket'[d] = ticket[d]
    BY <1>1, <2>1, DishStill DEF Fitting, OnBoard
  <2>2. CASE ticket'[d] = NoTicket
    <3>1. /\ ticket'[d].status = "none" /\ ticket'[d].order = None
          /\ ~ticket'[d].first
      BY <2>2 DEF NoTicket
    <3> QED BY <1>1, <3>1 DEF DishMoves, Fits, OnBoard
  <2> QED BY <1>1, <2>1, <2>2
<1> QED BY <1>1, <1>2, DishOnly

\* Dishes cancelled, with or without their tickets, and orders that end.
LEMMA CancelMoves ==
  ASSUME Fitting, NEW S \in SUBSET Dishes, item' = Cancelled(S),
         \A d \in S : item[d].order # None,
         \A d \in S :
           \/ ticket'[d] = ticket[d]
           \/ ticket'[d] = [ticket[d] EXCEPT !.status = "cancelled"],
         \A d \in Dishes \ S : DishMoves(d) /\ item'[d] = item[d]
            /\ \A o \in Orders : OnBoard(d, o)' => OnBoard(d, o),
         UNCHANGED <<paid, been, made>>,
         \A o \in Orders :
           \/ status'[o] = status[o]
           \/ status'[o] = "cancelled" /\ status[o] # "absent"
           \/ status[o] = "new" /\ status'[o] = "ready"
  PROVE  Moves
<1>1. \A d \in S : item'[d] = [item[d] EXCEPT !.status = "cancelled"]
  BY DEF Cancelled
<1>2. \A d \in S : DishMoves(d) /\ \A o \in Orders : ~OnBoard(d, o)'
  BY <1>1, DishCancelled DEF Fitting, IInv
<1>3. \A o \in Orders : OrderMoves(o)
  BY DEF OrderMoves, Terminal
<1>4. \A o \in Orders : BoardMoves(o)
  BY <1>2 DEF BoardMoves, Due
<1> QED BY <1>2, <1>3, <1>4 DEF Moves
LEMMA OutOfStockMoves ==
  ASSUME Fitting, NEW d \in Dishes, OutOfStock(d)
  PROVE  Moves
<1>1. /\ item' = [item EXCEPT ![d].status = "cancelled"]
      /\ ticket' = [ticket EXCEPT ![d].status = "cancelled"]
      /\ CheckReady({ticket[d].order})
      /\ UNCHANGED <<paid, been, made>>
  BY Zenon DEF OutOfStock
<1>2. ticket[d].status \in {"pending", "preparing"} /\ item[d].order # None
  BY DEF OutOfStock, Active, Fitting, Fits
<1>3. item' = Cancelled({d})
  BY <1>1 DEF Cancelled, Fitting, IInv, Floor
<1>4. /\ ticket'[d] = [ticket[d] EXCEPT !.status = "cancelled"]
      /\ \A e \in Dishes \ {d} : item'[e] = item[e] /\ ticket'[e] = ticket[e]
  BY <1>1 DEF Fitting, IInv, Floor
<1>5. \A e \in Dishes \ {d} : DishMoves(e) /\ item'[e] = item[e]
         /\ \A o \in Orders : OnBoard(e, o)' => OnBoard(e, o)
  BY <1>4, DishStill DEF Fitting, OnBoard
<1>6. \A o \in Orders : status'[o] = status[o] \/ (status[o] = "new" /\ status'[o] = "ready")
  BY <1>1 DEF CheckReady
<1>7. /\ {d} \in SUBSET Dishes
      /\ \A e \in {d} : item[e].order # None
      /\ \A e \in {d} : \/ ticket'[e] = ticket[e]
                       \/ ticket'[e] = [ticket[e] EXCEPT !.status = "cancelled"]
  BY <1>2, <1>4
<1>8. \A o \in Orders :
        \/ status'[o] = status[o]
        \/ status'[o] = "cancelled" /\ status[o] # "absent"
        \/ status[o] = "new" /\ status'[o] = "ready"
  BY <1>6
<1>9. UNCHANGED <<paid, been, made>>
  BY <1>1
<1> QED BY <1>3, <1>5, <1>7, <1>8, <1>9, CancelMoves

LEMMA VoidItemMoves ==
  ASSUME Fitting, NEW d \in Dishes, NEW revoke \in BOOLEAN, VoidItem(d, revoke)
  PROVE  Moves
<1>1. PICK o, S :
        /\ o = item[d].order
        /\ S = {d} \cup (IF revoke THEN Revoked(o) ELSE {})
  OBVIOUS
<1>2. /\ o # None
      /\ status[o] \notin Terminal \cup {"absent"}
      /\ item' = Cancelled(S)
      /\ ticket' = ticket \/ ticket' = [ticket EXCEPT ![d].status = "cancelled"]
      /\ status' = status \/ status' = [status EXCEPT ![o] = "cancelled"]
      /\ UNCHANGED <<paid, been, made>>
  BY <1>1 DEF VoidItem, Open
<1>3. S \in SUBSET Dishes /\ d \in S /\ \A e \in S : item[e].order = o
  BY <1>1 DEF Revoked, On
<1>4. \A e \in Dishes : e # d => ticket'[e] = ticket[e]
  BY <1>2 DEF Fitting, IInv, Floor
<1>5. ticket'[d] = ticket[d] \/ ticket'[d] = [ticket[d] EXCEPT !.status = "cancelled"]
  BY <1>2 DEF Fitting, IInv, Floor
<1>6. \A e \in S : \/ ticket'[e] = ticket[e]
                   \/ ticket'[e] = [ticket[e] EXCEPT !.status = "cancelled"]
  BY <1>3, <1>4, <1>5
<1>7. \A e \in Dishes \ S : item'[e] = item[e] /\ ticket'[e] = ticket[e]
  BY <1>2, <1>3, <1>4 DEF Cancelled
<1>8. \A e \in Dishes \ S : DishMoves(e) /\ item'[e] = item[e]
         /\ \A p \in Orders : OnBoard(e, p)' => OnBoard(e, p)
  BY <1>7, DishStill DEF Fitting, OnBoard
<1>9. \A p \in Orders :
        \/ status'[p] = status[p]
        \/ status'[p] = "cancelled" /\ status[p] # "absent"
  BY <1>2 DEF Fitting, IInv, Floor
<1>10. \A e \in S : item[e].order # None
  BY <1>2, <1>3
<1> QED BY <1>2, <1>3, <1>6, <1>8, <1>9, <1>10, CancelMoves

\* The dishes of an order are cancelled, and those of its tickets that are
\* still on the board, or all.
LEMMA OrderCancelMoves ==
  ASSUME Fitting, NEW o \in Orders, status[o] # "absent",
         item' = Cancelled(On(o)),
         status' = [status EXCEPT ![o] = "cancelled"],
         \A d \in Dishes :
           \/ ticket'[d] = ticket[d]
           \/ /\ ticket[d].order = o
              /\ ticket'[d] = [ticket[d] EXCEPT !.status = "cancelled"],
         UNCHANGED <<paid, been, made>>
  PROVE  Moves
<1>1. /\ On(o) \in SUBSET Dishes
      /\ \A d \in On(o) : item[d].order = o
      /\ o # None
      /\ \A d \in Dishes \ On(o) : item[d].order # o /\ item'[d] = item[d]
  BY KitchenSets DEF On, Cancelled
<1>2. ASSUME NEW d \in Dishes \ On(o)
      PROVE  DishMoves(d) /\ \A p \in Orders : OnBoard(d, p)' => OnBoard(d, p)
  <2>1. CASE ticket'[d] = ticket[d]
    BY <1>1, <2>1, DishStill DEF Fitting, OnBoard
  <2>2. CASE /\ ticket[d].order = o
             /\ ticket'[d] = [ticket[d] EXCEPT !.status = "cancelled"]
    <3>1. ticket[d].status # "none" /\ item[d].status = "cancelled"
      BY <1>1, <2>2 DEF Fitting, Fits
    <3>2. ticket[d] \in TicketRecord
      BY DEF Fitting, IInv, Floor
    <3>3. ticket'[d].status = "cancelled" /\ ticket'[d].first = ticket[d].first
      BY <2>2, <3>2 DEF TicketRecord
    <3> QED BY <1>1, <3>1, <3>3 DEF DishMoves, Fits, Fitting, OnBoard
  <2> QED BY <2>1, <2>2
<1>3. \A p \in Orders :
        \/ status'[p] = status[p]
        \/ status'[p] = "cancelled" /\ status[p] # "absent"
  BY DEF Fitting, IInv, Floor
<1> QED BY <1>1, <1>2, <1>3, CancelMoves

LEMMA CancelOrderMoves ==
  ASSUME Fitting, NEW o \in Orders, CancelOrder(o)
  PROVE  Moves
<1>1. \A d \in Dishes :
        \/ ticket'[d] = ticket[d]
        \/ /\ ticket[d].order = o
           /\ ticket'[d] = [ticket[d] EXCEPT !.status = "cancelled"]
  BY DEF CancelOrder
<1>2. /\ status[o] # "absent"
      /\ item' = Cancelled(On(o))
      /\ status' = [status EXCEPT ![o] = "cancelled"]
      /\ UNCHANGED <<paid, been, made>>
  BY DEF CancelOrder, Open
<1> QED BY <1>1, <1>2, OrderCancelMoves

LEMMA RefundOrderMoves ==
  ASSUME Fitting, NEW o \in Orders, Ended(o), RefundOrder(o)
  PROVE  Moves
<1>1. \A d \in Dishes :
        \/ ticket'[d] = ticket[d]
        \/ /\ ticket[d].order = o
           /\ ticket'[d] = [ticket[d] EXCEPT !.status = "cancelled"]
  BY DEF RefundOrder
<1>2. /\ status[o] # "absent"
      /\ item' = Cancelled(On(o))
      /\ status' = [status EXCEPT ![o] = "cancelled"]
      /\ UNCHANGED <<paid, been, made>>
  BY DEF RefundOrder, Ended, Terminal
<1> QED BY <1>1, <1>2, OrderCancelMoves

LEMMA MarkServedMoves ==
  ASSUME Fitting, NEW d \in Dishes, MarkServed(d)
  PROVE  Moves
<1>1. /\ item[d].order # None
      /\ item[d].status \in {"pending", "preparing", "ready"}
      /\ item' = [item EXCEPT ![d].status = "served"]
      /\ ticket' = IF ticket[d].status \in {"none", "cancelled"} THEN ticket
                   ELSE [ticket EXCEPT ![d] = Served(ticket[d])]
      /\ made' = made \cup {d}
      /\ UNCHANGED <<status, paid, been>>
      /\ Post({item[d].order})
  BY DEF MarkServed
<1>2. /\ item'[d] = [item[d] EXCEPT !.status = "served"]
      /\ \A e \in Dishes \ {d} : item'[e] = item[e] /\ ticket'[e] = ticket[e]
      /\ item[d] \in ItemRecord /\ ticket[d] \in TicketRecord
  BY <1>1 DEF Fitting, IInv, Floor
<1>3. /\ item'[d].order = item[d].order /\ item'[d].sent = item[d].sent
      /\ item'[d].status = "served"
  BY <1>2 DEF ItemRecord
<1>4. \/ ticket'[d] = ticket[d] /\ ticket[d].status \in {"none", "cancelled"}
      \/ ticket'[d].order = ticket[d].order /\ ticket'[d].status = "served"
         /\ ticket[d].status # "none"
  <2>1. CASE ticket[d].status \in {"none", "cancelled"}
    BY <1>1, <2>1
  <2>2. CASE ticket[d].status \notin {"none", "cancelled"}
    <3>1. ticket'[d] = Served(ticket[d])
      BY <1>1, <2>2 DEF Fitting, IInv, Floor
    <3> QED BY <1>2, <2>2, <3>1, ReadyFields
  <2> QED BY <2>1, <2>2
<1>5. Fits(d)'
  BY <1>1, <1>3, <1>4 DEF Fits, Fitting
<1>6. DishMoves(d)
  BY <1>1, <1>3, <1>5 DEF DishMoves
<1>7. \A e \in Dishes \ {d} : DishMoves(e)
  BY <1>2, DishStill DEF Fitting
<1>8. \A o \in Orders : OrderMoves(o)
  BY <1>1 DEF OrderMoves
<1>9. ASSUME NEW o \in Orders PROVE BoardMoves(o)
  <2>1. CASE o = item[d].order
    BY <1>1, <2>1, PostSettles DEF BoardMoves, Fitting, IInv
  <2>2. CASE o # item[d].order
    BY <1>1, <1>2, <1>3, <2>2 DEF BoardMoves, Due, OnBoard
  <2> QED BY <2>1, <2>2
<1> QED BY <1>1, <1>6, <1>7, <1>8, <1>9 DEF Moves

LEMMA ServeOrderMoves ==
  ASSUME Fitting, NEW o \in Orders, ServeOrder(o)
  PROVE  Moves
<1>1. /\ status[o] \in {"new", "ready"}
      /\ status' = [status EXCEPT ![o] = "served"]
      /\ UNCHANGED <<paid, been, made>>
      /\ ticket' = [d \in Dishes |->
           IF ticket[d].order = o /\ ticket[d].status = "ready"
           THEN [ticket[d] EXCEPT !.status = "served"] ELSE ticket[d]]
      /\ item' = [d \in Dishes |->
           IF d \in On(o) /\ item[d].status = "ready"
           THEN [item[d] EXCEPT !.status = "served"] ELSE item[d]]
  BY Zenon DEF ServeOrder
<1>2. ASSUME NEW d \in Dishes
      PROVE  DishMoves(d) /\ \A p \in Orders : OnBoard(d, p)' => OnBoard(d, p)
  <2>1. item[d] \in ItemRecord /\ ticket[d] \in TicketRecord
    BY DEF Fitting, IInv, Floor
  <2>2. /\ item'[d].order = item[d].order /\ item'[d].sent = item[d].sent
        /\ item'[d].status =
             IF item[d].order = o /\ item[d].status = "ready"
             THEN "served" ELSE item[d].status
    BY <1>1, <2>1 DEF On, ItemRecord
  <2>3. /\ ticket'[d].order = ticket[d].order
        /\ ticket'[d].first = ticket[d].first
        /\ ticket'[d].status =
             IF ticket[d].order = o /\ ticket[d].status = "ready"
             THEN "served" ELSE ticket[d].status
    BY <1>1, <2>1 DEF TicketRecord
  <2>4. Fits(d)'
    BY <2>2, <2>3 DEF Fitting, Fits
  <2> QED BY <1>1, <2>2, <2>3, <2>4 DEF DishMoves, OnBoard
<1>3. \A p \in Orders : p # o => status'[p] = status[p]
  BY <1>1 DEF Fitting, IInv, Floor
<1>4. status'[o] = "served"
  BY <1>1 DEF Fitting, IInv, Floor
<1>5. \A p \in Orders : OrderMoves(p)
  BY <1>1, <1>3, <1>4 DEF OrderMoves, Terminal
<1>6. \A p \in Orders : BoardMoves(p)
  BY <1>1, <1>2, <1>3, <1>4 DEF BoardMoves, Due
<1> QED BY <1>1, <1>2, <1>5, <1>6 DEF Moves

LEMMA CompleteOrderMoves ==
  ASSUME Fitting, NEW o \in Orders, Ended(o), CompleteOrder(o)
  PROVE  Moves
<1>1. /\ status[o] = "served" /\ ~paid[o]
      /\ status' = [status EXCEPT ![o] = "completed"]
      /\ UNCHANGED <<paid, item, ticket, been, made>>
  BY DEF CompleteOrder, Ended, Terminal
<1>2. \A d \in Dishes : DishMoves(d)
  BY <1>1, DishStill DEF Fitting
<1>3. \A p \in Orders : p # o => status'[p] = status[p]
  BY <1>1 DEF Fitting, IInv, Floor
<1>4. status'[o] = "completed"
  BY <1>1 DEF Fitting, IInv, Floor
<1>5. \A p \in Orders : OrderMoves(p)
  BY <1>1, <1>3, <1>4 DEF OrderMoves, Terminal
<1>6. \A p \in Orders : BoardMoves(p)
  BY <1>1, <1>3 DEF BoardMoves, Due, OnBoard
<1> QED BY <1>1, <1>2, <1>5, <1>6 DEF Moves

LEMMA PayMoves ==
  ASSUME Fitting, NEW o \in Orders, Pay(o)
  PROVE  Moves
<1>1. /\ status[o] \notin {"absent", "cancelled"}
      /\ status' = [status EXCEPT ![o] = "completed"]
      /\ paid' = [paid EXCEPT ![o] = TRUE]
      /\ UNCHANGED <<item, ticket, been, made>>
      /\ Post({o})
  BY DEF Pay
<1>2. \A d \in Dishes : DishMoves(d)
  BY <1>1, DishStill DEF Fitting
<1>3. /\ \A p \in Orders : p # o => status'[p] = status[p] /\ paid'[p] = paid[p]
      /\ status'[o] = "completed" /\ paid'[o]
  BY <1>1 DEF Fitting, IInv, Floor
<1>4. \A p \in Orders : OrderMoves(p)
  BY <1>1, <1>3 DEF OrderMoves, Terminal
<1>5. \A p \in Orders : BoardMoves(p)
  <2> SUFFICES ASSUME NEW p \in Orders PROVE BoardMoves(p)
    OBVIOUS
  <2>1. CASE p = o
    BY <1>1, <2>1, PostSettles DEF BoardMoves, Fitting, IInv
  <2>2. CASE p # o
    BY <1>1, <1>3, <2>2 DEF BoardMoves, Due, OnBoard
  <2> QED BY <2>1, <2>2
<1> QED BY <1>1, <1>2, <1>4, <1>5 DEF Moves
\* What a move of dishes and their tickets to an order does to a dish.
LEMMA MoveFields ==
  ASSUME Floor, NEW o \in Orders, NEW D, NEW T, MoveItems(D, o),
         MoveTickets(T, o), NEW d \in Dishes
  PROVE  /\ item'[d].sent = item[d].sent
         /\ item'[d].status = item[d].status
         /\ item'[d].order = IF d \in D THEN o ELSE item[d].order
         /\ ticket'[d].first = ticket[d].first
         /\ ticket'[d].status = ticket[d].status
         /\ ticket'[d].order = IF d \in T /\ ticket[d].status # "none"
                               THEN o ELSE ticket[d].order
<1>1. item[d] \in ItemRecord /\ ticket[d] \in TicketRecord
  BY DEF Floor
<1>2. item'[d] = IF d \in D THEN [item[d] EXCEPT !.order = o] ELSE item[d]
  BY DEF MoveItems
<1>3. ticket'[d] = IF d \in T /\ ticket[d].status # "none"
                   THEN [ticket[d] EXCEPT !.order = o] ELSE ticket[d]
  BY DEF MoveTickets
<1>4. /\ item'[d].sent = item[d].sent
      /\ item'[d].status = item[d].status
      /\ item'[d].order = IF d \in D THEN o ELSE item[d].order
  BY <1>1, <1>2 DEF ItemRecord
<1>5. /\ ticket'[d].first = ticket[d].first
      /\ ticket'[d].status = ticket[d].status
      /\ ticket'[d].order = IF d \in T /\ ticket[d].status # "none"
                            THEN o ELSE ticket[d].order
  BY <1>1, <1>3 DEF TicketRecord
<1> QED BY <1>4, <1>5

LEMMA SplitOrderMoves ==
  ASSUME Fitting, NEW o \in Orders, NEW n \in Orders, NEW D \in SUBSET Dishes,
         Ended(n), SplitOrder(o, n, D)
  PROVE  Moves
<1> DEFINE T == {d \in D : ticket[d].order = o}
<1>1. /\ status[o] \notin Terminal \cup {"absent"} /\ status[n] = "absent"
      /\ ~paid[n] /\ n # None
      /\ \A d \in D : item[d].order = o /\ item[d].status # "cancelled"
      /\ status' = [status EXCEPT ![n] = status[o]]
      /\ MoveItems(D, n)
      /\ MoveTickets(T, n)
      /\ been' = [been EXCEPT ![n] = D]
      /\ UNCHANGED <<paid, made>>
  BY KitchenSets DEF SplitOrder, Open, Live, On, Ended, Terminal
<1>2. /\ been'[n] = D /\ status'[n] = status[o]
      /\ \A p \in Orders : p # n => been'[p] = been[p] /\ status'[p] = status[p]
  BY <1>1 DEF Fitting, IInv, Floor
<1>3. \A d \in Dishes : d \in T <=> d \in D /\ ticket[d].order = o
  OBVIOUS
<1> HIDE DEF T
<1>4. \A d \in Dishes :
        /\ item'[d].sent = item[d].sent
        /\ item'[d].status = item[d].status
        /\ item'[d].order = IF d \in D THEN n ELSE item[d].order
        /\ ticket'[d].first = ticket[d].first
        /\ ticket'[d].status = ticket[d].status
        /\ ticket'[d].order = IF d \in T /\ ticket[d].status # "none"
                              THEN n ELSE ticket[d].order
  BY <1>1, MoveFields DEF Fitting, IInv
<1>5. ASSUME NEW d \in Dishes PROVE DishMoves(d)
  <2>1. Fits(d)'
    BY <1>1, <1>3, <1>4 DEF Fits, Fitting
  <2> QED BY <1>2, <1>4, <2>1 DEF DishMoves
<1>6. \A p \in Orders : OrderMoves(p)
  BY <1>1, <1>2 DEF OrderMoves, Terminal
<1>7. ASSUME NEW p \in Orders PROVE BoardMoves(p)
  <2>1. CASE p = n
    BY <1>1, <2>1 DEF BoardMoves, Due
  <2>2. CASE p # n
    <3>1. Due(p)' => Due(p)
      BY <1>1, <1>2, <2>2 DEF Due
    <3>2. \A d \in Dishes : OnBoard(d, p)' => OnBoard(d, p)
      BY <1>4, <2>2 DEF OnBoard
    <3> QED BY <3>1, <3>2 DEF BoardMoves
  <2> QED BY <2>1, <2>2
<1> QED BY <1>1, <1>5, <1>6, <1>7 DEF Moves

LEMMA MergeOrdersMoves ==
  ASSUME Fitting, NEW s \in Orders, NEW t \in Orders, MergeOrders(s, t)
  PROVE  Moves
<1> DEFINE T == {d \in Dishes : ticket[d].order = s}
<1>1. /\ s # t /\ t # None /\ s # None
      /\ status[s] \notin Terminal \cup {"absent"}
      /\ status[t] \notin Terminal \cup {"absent"}
      /\ ~paid[t]
      /\ MoveItems(Live(s), t)
      /\ MoveTickets(T, t)
      /\ status' = [status EXCEPT ![s] = "cancelled"]
      /\ been' = [been EXCEPT ![t] = been[t] \cup Live(s)]
      /\ UNCHANGED <<paid, made>>
  BY KitchenSets DEF MergeOrders, Open
<1>2. /\ been'[t] = been[t] \cup Live(s) /\ status'[s] = "cancelled"
      /\ \A p \in Orders : p # t => been'[p] = been[p]
      /\ \A p \in Orders : p # s => status'[p] = status[p]
  BY <1>1 DEF Fitting, IInv, Floor
<1>3. \A d \in Dishes :
        /\ d \in T <=> ticket[d].order = s
        /\ d \in Live(s) <=> item[d].order = s /\ item[d].status # "cancelled"
  BY DEF Live, On
<1> HIDE DEF T
<1>4. \A d \in Dishes :
        /\ item'[d].sent = item[d].sent
        /\ item'[d].status = item[d].status
        /\ item'[d].order = IF d \in Live(s) THEN t ELSE item[d].order
        /\ ticket'[d].first = ticket[d].first
        /\ ticket'[d].status = ticket[d].status
        /\ ticket'[d].order = IF d \in T /\ ticket[d].status # "none"
                              THEN t ELSE ticket[d].order
  BY <1>1, MoveFields DEF Fitting, IInv
<1>5. ASSUME NEW d \in Dishes PROVE DishMoves(d)
  <2>1. Fits(d)'
    BY <1>1, <1>3, <1>4 DEF Fits, Fitting
  <2> QED BY <1>2, <1>4, <2>1 DEF DishMoves
<1>6. \A p \in Orders : OrderMoves(p)
  BY <1>1, <1>2 DEF OrderMoves, Terminal
<1>7. ASSUME NEW p \in Orders PROVE BoardMoves(p)
  <2>1. CASE p = t
    BY <1>1, <2>1 DEF BoardMoves, Due
  <2>2. CASE p = s
    BY <1>1, <1>2, <2>2 DEF BoardMoves, Due
  <2>3. CASE p # t /\ p # s
    <3>1. Due(p)' => Due(p)
      BY <1>1, <1>2, <2>3 DEF Due
    <3>2. \A d \in Dishes : OnBoard(d, p)' => OnBoard(d, p)
      BY <1>4, <2>3 DEF OnBoard
    <3> QED BY <3>1, <3>2 DEF BoardMoves
  <2> QED BY <2>1, <2>2, <2>3
<1> QED BY <1>1, <1>5, <1>6, <1>7 DEF Moves

-----------------------------------------------------------------------------
(* What the operations do to the books.                                    *)

\* Nothing, the deduction of some orders, the waste of one that ends, or one
\* movement given back.
BooksMove ==
  \/ UNCHANGED books
  \/ \E O : Post(O)
  \/ \E o \in Orders :
       /\ status[o] # "cancelled" /\ status'[o] = "cancelled"
       /\ wasted' = [wasted EXCEPT ![o] = Waste(o)]
       /\ UNCHANGED <<posted, rows, restored>>
  \/ \E o \in Orders : \E back \in Restored(o) :
       /\ restored' = [restored EXCEPT ![o] = back]
       /\ UNCHANGED <<posted, rows, wasted>>

LEMMA StepMoves ==
  ASSUME KitchenSound, Next
  PROVE  Moves /\ BooksMove
<1>1. Fitting /\ \A o \in Orders : Ended(o)
  BY DEF KitchenSound, Fitting
<1>2. CASE \E o \in Orders, D \in NewDishes : CreateOrder(o, D) \/ AppendItems(o, D)
  <2>1. PICK o \in Orders, D \in NewDishes : CreateOrder(o, D) \/ AppendItems(o, D)
    BY <1>2
  <2>2. D \in SUBSET Dishes /\ \A d \in D : Unused(d)
    BY DEF NewDishes
  <2> QED BY <1>1, <2>1, <2>2, OrderingMoves
          DEF BooksMove, CreateOrder, AppendItems
<1>3. CASE \E D \in Cards, printed \in BOOLEAN : CompleteTickets(D, printed)
  BY <1>1, <1>3, CompleteTicketsMoves DEF Cards, BooksMove, CompleteTickets
<1>4. CASE \E d \in Dishes : MarkServed(d) \/ VoidItem(d, FALSE)
  BY <1>1, <1>4, MarkServedMoves, VoidItemMoves
     DEF BooksMove, MarkServed, VoidItem
<1>5. CASE \E o \in Orders : ServeOrder(o) \/ CompleteOrder(o)
  BY <1>1, <1>5, ServeOrderMoves, CompleteOrderMoves
     DEF BooksMove, ServeOrder, CompleteOrder
<1>6. CASE \E o \in Orders : CancelOrder(o)
  <2>1. PICK o \in Orders : CancelOrder(o)
    BY <1>6
  <2>2. /\ status[o] # "cancelled"
        /\ status' = [status EXCEPT ![o] = "cancelled"]
        /\ wasted' = [wasted EXCEPT ![o] = Waste(o)]
        /\ UNCHANGED <<posted, rows, restored>>
    BY <2>1 DEF CancelOrder, Open, Terminal
  <2>3. status'[o] = "cancelled"
    BY <1>1, <2>2 DEF Fitting, IInv, Floor
  <2> QED BY <1>1, <2>1, <2>2, <2>3, CancelOrderMoves DEF BooksMove
<1>7. CASE \E o \in Orders : Pay(o) \/ RefundOrder(o)
  <2>1. PICK o \in Orders : Pay(o) \/ RefundOrder(o)
    BY <1>7
  <2>2. CASE Pay(o)
    BY <1>1, <2>2, PayMoves DEF BooksMove, Pay
  <2>3. CASE RefundOrder(o)
    <3>1. /\ \E back \in Restored(o) : restored' = [restored EXCEPT ![o] = back]
          /\ UNCHANGED <<posted, rows, wasted>>
      BY <2>3 DEF RefundOrder
    <3> QED BY <1>1, <2>3, <3>1, RefundOrderMoves DEF BooksMove
  <2> QED BY <2>1, <2>2, <2>3
<1>8. CASE \E o \in Orders, g \in Gifts : Unused(g) /\ ApplyGift(o, g)
  BY <1>1, <1>8, GiftMoves, KitchenSets DEF BooksMove, ApplyGift
<1>9. CASE \E d \in Dishes : VoidItem(d, TRUE)
  BY <1>1, <1>9, VoidItemMoves DEF BooksMove, VoidItem
<1>10. CASE \E d \in Dishes : RecallTicket(d) \/ OutOfStock(d)
  BY <1>1, <1>10, RecallTicketMoves, OutOfStockMoves
     DEF BooksMove, RecallTicket, OutOfStock
<1>11. CASE \E n \in 1 .. sends : CleanupTickets(n)
  BY <1>1, <1>11, CleanupTicketsMoves DEF BooksMove, CleanupTickets
<1>12. CASE \E o, n \in Orders, D \in Cards : SplitOrder(o, n, D)
  BY <1>1, <1>12, SplitOrderMoves DEF Cards, BooksMove, SplitOrder
<1>13. CASE \E s, t \in Orders : MergeOrders(s, t)
  BY <1>1, <1>13, MergeOrdersMoves DEF BooksMove, MergeOrders
<1> QED BY <1>2, <1>3, <1>4, <1>5, <1>6, <1>7, <1>8, <1>9, <1>10, <1>11,
           <1>12, <1>13 DEF Next, DailyStep, SpecialStep
-----------------------------------------------------------------------------
(* The invariant holds, and what follows from it.                          *)

\* Fewer dishes, a smaller number.
LEMMA FewerDishes ==
  ASSUME NEW T \in SUBSET Dishes, NEW S \in SUBSET T
  PROVE  /\ Cardinality(S) \in Nat /\ Cardinality(T) \in Nat
         /\ Cardinality(S) <= Cardinality(T)
<1>1. IsFiniteSet(T)
  BY FS_Subset, KitchenSets
<1>2. IsFiniteSet(S) /\ Cardinality(S) <= Cardinality(T)
  BY <1>1, FS_Subset
<1> QED BY <1>1, <1>2, FS_CardinalityType

\* Only what was made or paid counts as consumed.
LEMMA QualifyingIsCharge ==
  ASSUME \A d \in Dishes : Known(d), NEW o \in Orders
  PROVE  MadeOnBoard(o) \subseteq Qualifying(o) /\ Qualifying(o) \subseteq Charge(o)
<1>1. \A d \in Live(o) : d \in Dishes /\ d \in been[o]
  BY DEF Known, Live, On
<1>2. \A d \in MadeOnBoard(o) : d \in Live(o) /\ d \in made
  BY DEF Known, MadeOnBoard, Live, On
<1>3. \A d \in Qualifying(o) : d \in Live(o) /\ (d \in made \/ paid[o])
  BY <1>2 DEF Known, Qualifying, Live, On
<1> QED BY <1>1, <1>3 DEF Qualifying, Charge

LEMMA KnownStep ==
  ASSUME KitchenSound, Moves
  PROVE  (\A d \in Dishes : Fits(d) /\ Known(d))'
<1>1. \A d \in Dishes : Fits(d)'
  BY DEF Moves, DishMoves
<1>2. ASSUME NEW d \in Dishes PROVE Known(d)'
  <2>1. \A o \in Orders : been[o] \subseteq been'[o] \/ been[o] = {}
    BY DEF KitchenSound, Ended, Moves, OrderMoves
  <2> QED BY <2>1 DEF Known, KitchenSound, Moves, DishMoves
<1> QED BY <1>1, <1>2

LEMMA EndedStep ==
  ASSUME KitchenSound, Moves, BooksMove
  PROVE  (\A o \in Orders : Ended(o))'
<1> SUFFICES ASSUME NEW o \in Orders PROVE Ended(o)'
  OBVIOUS
<1>1. (status[o] = "absent" => been[o] = {})'
  BY DEF KitchenSound, Ended, Moves, OrderMoves
<1>2. (paid[o] => status[o] \in Terminal)'
  BY DEF KitchenSound, Ended, Moves, OrderMoves, Terminal
<1>3. ASSUME status'[o] # "cancelled" PROVE wasted'[o] = 0
  <2>1. wasted[o] = 0
    BY <1>3 DEF KitchenSound, Ended, Moves, OrderMoves
  <2>2. wasted'[o] = wasted[o]
    BY <1>3 DEF BooksMove, Post, books, KitchenSound, IInv, Books
  <2> QED BY <2>1, <2>2
<1> QED BY <1>1, <1>2, <1>3 DEF Ended

LEMMA ChargedStep ==
  ASSUME KitchenSound, IInv', Moves, BooksMove, BooksClosed,
         (\A d \in Dishes : Known(d))'
  PROVE  ChargedMeansMade'
<1> SUFFICES ASSUME NEW o \in Orders
             PROVE  posted'[o] + wasted'[o] <= Cardinality(Charge(o)')
  BY DEF ChargedMeansMade, Charge
<1> DEFINE was == Cardinality(Charge(o))
           is == Cardinality(Charge(o)')
           need == Cardinality(Qualifying(o)')
<1>1. Charge(o)' \in SUBSET Dishes
  BY DEF IInv, Floor, Charge
<1>2. Charge(o) \in SUBSET Charge(o)'
  <2>1. been[o] \subseteq been'[o] \/ been[o] = {}
    BY DEF KitchenSound, Ended, Moves, OrderMoves
  <2> QED BY <2>1 DEF Charge, Moves, OrderMoves
<1>3. Qualifying(o)' \in SUBSET Charge(o)'
  <2>1. \A d \in Dishes : Known(d)'
    OBVIOUS
  <2>2. \A d \in Live(o)' : d \in Dishes /\ d \in been'[o]
    BY <2>1 DEF Known, Live, On
  <2>3. \A d \in Qualifying(o)' : d \in Live(o)' /\ (d \in made' \/ paid'[o])
    BY <2>1 DEF Known, Qualifying, MadeOnBoard, Live, On
  <2> QED BY <2>2, <2>3 DEF Charge
<1>4. was \in Nat /\ is \in Nat /\ was <= is
  BY <1>1, <1>2, FewerDishes
<1>5. need \in Nat /\ need <= is
  BY <1>1, <1>3, FewerDishes
<1>6. posted[o] \in Nat /\ wasted[o] \in Nat /\ posted[o] + wasted[o] <= was
  BY DEF KitchenSound, ChargedMeansMade, Charge, IInv, Books, Amounts
<1> HIDE DEF was, is
<1>7. CASE posted'[o] = posted[o] /\ wasted'[o] = wasted[o]
  BY <1>4, <1>6, <1>7 DEF is
<1>8. CASE \E O : Post(O) /\ o \in O
  <2>1. posted'[o] = posted[o] + (IF need > posted[o] THEN need - posted[o] ELSE 0)
    BY <1>8 DEF Post, Delta
  <2>2. wasted'[o] = wasted[o]
    BY <1>8 DEF Post
  <2> HIDE DEF need
  <2>3. CASE status[o] = "cancelled"
    BY <1>7, <2>3 DEF BooksClosed
  <2>4. CASE status[o] # "cancelled"
    <3>1. wasted[o] = 0
      BY <2>4 DEF KitchenSound, Ended
    <3>2. posted'[o] + wasted'[o] <= is
      BY <1>4, <1>5, <1>6, <2>1, <2>2, <3>1
    <3> QED BY <3>2 DEF is
  <2> QED BY <2>3, <2>4
<1>9. CASE status[o] # "cancelled" /\ posted'[o] = posted[o]
           /\ wasted'[o] = Waste(o)
  <2> DEFINE board == Cardinality(MadeOnBoard(o))
  <2>1. MadeOnBoard(o) \in SUBSET Charge(o)
    BY QualifyingIsCharge DEF KitchenSound
  <2>2. Charge(o) \in SUBSET Dishes
    BY DEF KitchenSound, IInv, Floor, Charge
  <2>3. board \in Nat /\ board <= was
    BY <2>1, <2>2, FewerDishes DEF was
  <2>4. wasted'[o] = IF posted[o] > 0 THEN 0 ELSE board
    BY <1>9 DEF Waste
  <2> HIDE DEF board
  <2>5. posted'[o] + wasted'[o] <= is
    BY <1>4, <1>6, <1>9, <2>3, <2>4
  <2> QED BY <2>5 DEF is
<1>10. \/ posted'[o] = posted[o] /\ wasted'[o] = wasted[o]
       \/ \E O : Post(O) /\ o \in O
       \/ status[o] # "cancelled" /\ posted'[o] = posted[o]
          /\ wasted'[o] = Waste(o)
  <2>1. CASE UNCHANGED books \/ UNCHANGED <<posted, rows, wasted>>
    BY <2>1 DEF books
  <2>2. CASE \E O : Post(O)
    BY <2>2 DEF Post
  <2>3. CASE \E p \in Orders :
               /\ status[p] # "cancelled"
               /\ wasted' = [wasted EXCEPT ![p] = Waste(p)]
               /\ UNCHANGED <<posted, rows, restored>>
    BY <2>3 DEF KitchenSound, IInv, Books
  <2> QED BY <2>1, <2>2, <2>3 DEF BooksMove
<1> QED BY <1>7, <1>8, <1>9, <1>10

LEMMA DeductedStep ==
  ASSUME KitchenSound, IInv', Moves, BooksMove
  PROVE  PaidIsDeducted'
<1> SUFFICES ASSUME NEW o \in Orders, Due(o)'
             PROVE  posted'[o] >= Cardinality(MadeOnBoard(o)')
  BY DEF PaidIsDeducted, Due
<1>1. posted[o] \in Nat /\ posted'[o] \in Nat
  BY DEF KitchenSound, IInv, Books, Amounts
<1>2. CASE Settled(o)
  <2>1. /\ Qualifying(o)' \in SUBSET Dishes
        /\ MadeOnBoard(o)' \in SUBSET Qualifying(o)'
    BY DEF Qualifying, MadeOnBoard, Live, On
  <2>2. /\ Cardinality(MadeOnBoard(o)') \in Nat
        /\ Cardinality(Qualifying(o)') \in Nat
        /\ Cardinality(MadeOnBoard(o)') <= Cardinality(Qualifying(o)')
    BY <2>1, FewerDishes
  <2>3. posted'[o] >= Cardinality(Qualifying(o)')
    BY <1>2 DEF Settled
  <2> QED BY <1>1, <2>2, <2>3
<1>3. CASE Due(o) /\ \A d \in Dishes : OnBoard(d, o)' => OnBoard(d, o)
  <2>1. /\ MadeOnBoard(o) \in SUBSET Dishes
        /\ MadeOnBoard(o)' \in SUBSET MadeOnBoard(o)
    BY <1>3 DEF MadeOnBoard, Live, On, Shown, OnBoard
  <2>2. /\ Cardinality(MadeOnBoard(o)') \in Nat
        /\ Cardinality(MadeOnBoard(o)) \in Nat
        /\ Cardinality(MadeOnBoard(o)') <= Cardinality(MadeOnBoard(o))
    BY <2>1, FewerDishes
  <2>3. posted[o] >= Cardinality(MadeOnBoard(o))
    BY <1>3 DEF KitchenSound, PaidIsDeducted, Due
  <2>4. posted'[o] >= posted[o]
    <3>1. CASE posted'[o] = posted[o]
      BY <1>1, <3>1
    <3>2. CASE posted'[o] = posted[o] + Delta(o)
      <4>1. Delta(o) \in Nat
        BY DeltaFits DEF Amounts, KitchenSound, IInv
      <4> QED BY <1>1, <3>2, <4>1
    <3> QED BY <3>1, <3>2 DEF BooksMove, books, Post
  <2> QED BY <1>1, <2>2, <2>3, <2>4
<1> QED BY <1>2, <1>3 DEF Moves, BoardMoves

LEMMA SoundInit ==
  ASSUME Init
  PROVE  KitchenSound
<1>1. \A d \in Dishes : Fits(d) /\ Known(d)
  BY KitchenSets DEF Init, Fits, Known, NoItem, NoTicket
<1>2. \A o \in Orders : Ended(o)
  BY DEF Init, Ended
<1>3. ChargedMeansMade
  <2> SUFFICES ASSUME NEW o \in Orders
               PROVE  posted[o] + wasted[o] <= Cardinality(Charge(o))
    BY DEF ChargedMeansMade, Charge
  <2>1. Charge(o) = {} /\ posted[o] = 0 /\ wasted[o] = 0
    BY DEF Init, Charge
  <2> QED BY <2>1, FS_EmptySet
<1>4. PaidIsDeducted
  BY DEF Init, PaidIsDeducted
<1> QED BY <1>1, <1>2, <1>3, <1>4, InitInv DEF KitchenSound

LEMMA SoundStep ==
  ASSUME KitchenSound, [Next]_vars
  PROVE  KitchenSound'
<1>1. IInv' /\ (Kept \/ UNCHANGED vars)
  BY NextInv DEF KitchenSound
<1>2. CASE UNCHANGED vars
  BY <1>1, <1>2 DEF vars, books, KitchenSound, Fits, Known, Ended,
       ChargedMeansMade, PaidIsDeducted, MadeOnBoard, Live, On, Shown
<1>3. CASE Next /\ Kept
  <2>1. Moves /\ BooksMove
    BY <1>3, StepMoves
  <2>2. BooksClosed
    BY <1>3 DEF Kept
  <2>3. (\A d \in Dishes : Fits(d) /\ Known(d))'
    BY <2>1, KnownStep
  <2>4. (\A o \in Orders : Ended(o))'
    BY <2>1, EndedStep
  <2>5. (\A d \in Dishes : Known(d))'
    BY <2>3
  <2>6. ChargedMeansMade'
    BY <1>1, <2>1, <2>2, <2>5, ChargedStep
  <2>7. PaidIsDeducted'
    BY <1>1, <2>1, DeductedStep
  <2> QED BY <1>1, <2>3, <2>4, <2>6, <2>7 DEF KitchenSound
<1> QED BY <1>1, <1>2, <1>3

\* While a dish is not cancelled its ticket is on the dish's own order and in
\* its status, or waits: no split, merge, recall, void, refund or late card
\* separates them.
THEOREM TicketFollowsDishHolds == Spec => []TicketFollowsDish
<1>1. KitchenSound => TicketFollowsDish
  BY DEF KitchenSound, Fits, TicketFollowsDish
<1> QED BY SoundInit, SoundStep, <1>1, PTL DEF Spec

\* No order is charged, as sale and as waste together, for more than the
\* dishes it ever had that somebody finished or paid for.
THEOREM ChargedMeansMadeHolds == Spec => []ChargedMeansMade
<1>1. KitchenSound => ChargedMeansMade
  BY DEF KitchenSound
<1> QED BY SoundInit, SoundStep, <1>1, PTL DEF Spec

\* A paid order is charged for every dish the board shows as finished,
\* whenever and on whichever order it was bumped.
THEOREM PaidIsDeductedHolds == Spec => []PaidIsDeducted
<1>1. KitchenSound => PaidIsDeducted
  BY DEF KitchenSound
<1> QED BY SoundInit, SoundStep, <1>1, PTL DEF Spec

\* What a refund may give back: every movement is part of what was deducted.
RestoredFits ==
  \A o \in Orders : /\ \A q \in rows[o] : q <= posted[o]
                    /\ restored[o] <= posted[o]

LEMMA RestoredStep ==
  ASSUME KitchenSound, RestoredFits, [Next]_vars
  PROVE  RestoredFits'
<1> SUFFICES ASSUME NEW o \in Orders
             PROVE  /\ \A q \in rows'[o] : q <= posted'[o]
                    /\ restored'[o] <= posted'[o]
  BY DEF RestoredFits
<1>1. /\ posted[o] \in Nat /\ restored[o] \in Nat
      /\ \A q \in rows[o] : q \in Nat
  BY DEF KitchenSound, IInv, Books, Amounts
<1>2. /\ \A q \in rows[o] : q <= posted[o]
      /\ restored[o] <= posted[o]
  BY DEF RestoredFits
<1>3. CASE /\ posted'[o] = posted[o] /\ rows'[o] = rows[o]
           /\ restored'[o] \in {restored[o], 0} \cup rows[o]
  BY <1>1, <1>2, <1>3
<1>4. CASE \E O : Post(O)
  <2>1. Delta(o) \in Nat
    BY DeltaFits DEF KitchenSound, IInv, Amounts
  <2>2. /\ restored'[o] = restored[o]
        /\ \/ posted'[o] = posted[o] /\ rows'[o] = rows[o]
           \/ /\ posted'[o] = posted[o] + Delta(o)
              /\ rows'[o] = rows[o] \cup ({Delta(o)} \ {0})
    BY <1>4 DEF Post
  <2> QED BY <1>1, <1>2, <2>1, <2>2
<1>5. CASE \E p \in Orders : \E back \in Restored(p) :
             /\ restored' = [restored EXCEPT ![p] = back]
             /\ UNCHANGED <<posted, rows, wasted>>
  <2>1. restored'[o] = restored[o] \/ restored'[o] \in Restored(o)
    BY <1>5 DEF KitchenSound, IInv, Books
  <2> QED BY <1>3, <1>5, <2>1 DEF Restored
<1>6. CASE UNCHANGED <<posted, rows, restored>>
  BY <1>3, <1>6
<1>7. BooksMove \/ UNCHANGED vars
  BY StepMoves
<1> QED BY <1>4, <1>5, <1>6, <1>7 DEF BooksMove, books, vars

\* A refund never gives back more stock than was deducted for the order:
\* what RefundRestores says and the code misses, it misses on one side only.
THEOREM RefundWithinDeduction ==
  Spec => [](\A o \in Orders : restored[o] <= posted[o])
<1>1. Init => RestoredFits
  BY DEF Init, RestoredFits
<1>2. RestoredFits => \A o \in Orders : restored[o] <= posted[o]
  BY DEF RestoredFits
<1> QED BY SoundInit, SoundStep, RestoredStep, <1>1, <1>2, PTL DEF Spec
=============================================================================
