---------------------------- MODULE RelayQueue ----------------------------
(***************************************************************************)
(* The delivery relay of a branch.  The Android agent poses as a network   *)
(* printer, stores every receipt that a delivery app prints in a SQLite    *)
(* queue, and posts it to the web server, which looks for an order already *)
(* on the POS and else creates one.  Coroutines of the intake, the retry   *)
(* loop, the operator of the phone, the cashier at the till, restarts of   *)
(* the agent and requests that outlive their client interleave.            *)
(*                                                                         *)
(* A receipt stands for the bytes printed; rows of queued_orders are kept  *)
(* in a sequence, the row id being the position (no row is ever deleted).  *)
(***************************************************************************)
EXTENDS Integers, FiniteSets, Sequences

CONSTANTS
  Receipts,      \* distinct byte streams a delivery app may print
  TextReceipts,  \* those whose platform shows in the ESC/POS text, without OCR
  Orders,        \* orders of the delivery platform
  OrderOf,       \* the order a receipt was printed for
  ShortRef,      \* the last four digits of an order's code, as stored by the POS
  Items,         \* the items of an order
  NoRef,         \* no order code was read from the receipt
  Conns,         \* coroutines launched for received receipts
  Loop,          \* the coroutine of startRetryLoop
  LoopLimit,     \* rows listed by one round of the loop
  SlowPosts,     \* may a live POST outlast the 120 s claim timeout?
  MaxPrints,     \* bound: receipts printed
  MaxFaults,     \* bound: restarts, failed calls, misread receipts
  MaxOperator    \* bound: presses of the phone's buttons

Procs == Conns \union {Loop}

ASSUME NamesAssumption ==
  /\ TextReceipts \subseteq Receipts
  /\ OrderOf \in [Receipts -> Orders]
  /\ DOMAIN ShortRef = Orders /\ DOMAIN Items = Orders
  /\ NoRef \notin Orders
  /\ Loop \notin Conns
  /\ \A o \in Orders : Items[o] # "other"
ASSUME BoundsAssumption ==
  /\ LoopLimit \in Nat \ {0}
  /\ SlowPosts \in BOOLEAN
  /\ MaxPrints \in Nat /\ MaxFaults \in Nat /\ MaxOperator \in Nat

VARIABLES
  rows,      \* the table queued_orders
  proc,      \* what each coroutine is doing
  todo,      \* ids the loop listed and has not come to
  recovery,  \* ids recoverUnclassifiedReceipts listed and has not come to
  requests,  \* requests the web server is handling
  pos,       \* delivery orders on the POS, in order of creation
  prints, faults, presses   \* bound counters

vars == <<rows, proc, todo, recovery, requests, pos, prints, faults, presses>>
bounds == <<prints, faults, presses>>

Statuses    == {"PENDING", "SENDING", "BLOCKED", "SENT", "UNCLASSIFIED", "DISMISSED"}
Resolved    == {"SENT", "DISMISSED"}
Dismissible == {"PENDING", "BLOCKED", "UNCLASSIFIED"}

\* text: receipt_text is not null.  stale: claimed_at is over 120 s ago.
\* due: next_retry_at has passed.
RowRecord == [bytes : Receipts, ref : Orders \union {NoRef}, text : BOOLEAN,
              platform : {"shopee", "unknown"}, status : Statuses,
              stale : BOOLEAN, due : BOOLEAN]
Answers   == {"ok", "terminal", "transient"}
\* A request is named by the coroutine that sent it and the faults there had been:
\* a coroutine that sends another one has its answer, or lost it by a fault.
RequestIds == Procs \X (0 .. MaxFaults)
Request    == [n : RequestIds, order : Orders, seen : {"nothing", "clear"}]
PosOrder   == [order : Orders, by : {"relay", "cashier"}, items : {Items[o] : o \in Orders} \union {"other"}]

Idle          == [at |-> "idle"]
Reading(r)    == [at |-> "reading", bytes |-> r]
Stored(i)     == [at |-> "stored", id |-> i]
Posting(i, n) == [at |-> "posting", id |-> i, n |-> n]
Answered(i, a) == [at |-> "answered", id |-> i, answer |-> a]
ProcStates ==
  {Idle} \union {Reading(r) : r \in Receipts} \union {Stored(i) : i \in DOMAIN rows}
  \union {Posting(i, n) : i \in DOMAIN rows, n \in RequestIds}
  \union {Answered(i, a) : i \in DOMAIN rows, a \in Answers}

\* Rows, coroutines, requests and POS orders keep their shape.
TypeOK ==
  /\ rows \in Seq(RowRecord)
  /\ proc \in [Procs -> ProcStates]
  /\ todo \subseteq DOMAIN rows
  /\ recovery \subseteq DOMAIN rows
  /\ requests \subseteq Request
  /\ pos \in Seq(PosOrder)
  /\ prints \in 0 .. MaxPrints /\ faults \in 0 .. MaxFaults /\ presses \in 0 .. MaxOperator

Init ==
  /\ rows = <<>> /\ todo = {} /\ recovery = {}
  /\ proc = [p \in Procs |-> Idle]
  /\ requests = {} /\ pos = <<>>
  /\ prints = 0 /\ faults = 0 /\ presses = 0

Working(p) == proc[p].at \in {"posting", "answered"}
Holds(p, i) == Working(p) /\ proc[p].id = i
Fault == faults < MaxFaults /\ faults' = faults + 1
Press == presses < MaxOperator /\ presses' = presses + 1

-----------------------------------------------------------------------------
(* The local queue. *)

\* findExistingOrder, and the two unique indexes: rows of this platform with
\* the order code, if one was read, or the same bytes.
SameIdentity(r, platform, ref) ==
  {i \in DOMAIN rows : /\ rows[i].platform = platform
                       /\ \/ ref # NoRef /\ rows[i].ref = ref
                          \/ rows[i].bytes = r}

\* What the agent makes of a receipt: its platform shows in the text, is found
\* by OCR with the order code, or is not recognised.
Text2Row(r) == [platform |-> "shopee", ref |-> NoRef, text |-> FALSE]
Ocr2Row(r)  == [platform |-> "shopee", ref |-> OrderOf[r], text |-> TRUE]
Unread      == [platform |-> "unknown", ref |-> NoRef, text |-> FALSE]
Readings(r) == IF r \in TextReceipts THEN {Text2Row(r)} ELSE {Ocr2Row(r), Unread}

\* A connection hands over a whole receipt; a coroutine is launched for it.
PrintReceipt(c, r) ==
  /\ proc[c] = Idle /\ prints < MaxPrints
  /\ prints' = prints + 1
  /\ proc' = [proc EXCEPT ![c] = Reading(r)]
  /\ UNCHANGED <<rows, todo, recovery, requests, pos, faults, presses>>

\* Classify, then enqueue in one transaction: a receipt whose identity is in the
\* table is dropped (its duplicate counter grows), another one is inserted,
\* waiting for its POST or held when its source is unknown or switched off.
StoreReceipt(c) ==
  /\ proc[c].at = "reading"
  /\ \E k \in Readings(proc[c].bytes), enabled \in BOOLEAN :
       LET r == proc[c].bytes
           held == k.platform = "unknown" \/ ~enabled
           row == [bytes |-> r, ref |-> k.ref, text |-> k.text, platform |-> k.platform,
                   status |-> IF held THEN "UNCLASSIFIED" ELSE "PENDING",
                   stale |-> FALSE, due |-> TRUE]
       IN /\ IF held THEN Fault ELSE UNCHANGED faults
          /\ IF SameIdentity(r, k.platform, k.ref) # {}
               THEN proc' = [proc EXCEPT ![c] = Idle] /\ UNCHANGED rows
               ELSE /\ rows' = Append(rows, row)
                    /\ proc' = [proc EXCEPT ![c] =
                                  IF held THEN Idle ELSE Stored(Len(rows) + 1)]
  /\ UNCHANGED <<todo, recovery, requests, pos, prints, presses>>

\* executePost: the request leaves for the server.
Post(p, i) ==
  /\ proc' = [proc EXCEPT ![p] = Posting(i, <<p, faults>>)]
  /\ requests' = requests \union
       {[n |-> <<p, faults>>, order |-> OrderOf[rows[i].bytes], seen |-> "nothing"]}

\* Mutant: the claim is not conditional on the row's status.
ClaimAny(p, i) ==
  /\ rows' = [rows EXCEPT ![i].status = "SENDING", ![i].stale = FALSE]
  /\ Post(p, i)
\* claimOrder, and the POST that follows it.
Claim(p, i) ==
  /\ rows[i].status = "PENDING"
  /\ rows' = [rows EXCEPT ![i].status = "SENDING", ![i].stale = FALSE]
  /\ Post(p, i)

\* The rest of dispatchRawReceipt: claim the new row, unless the loop did.
DispatchNew(c) ==
  /\ proc[c].at = "stored"
  /\ \/ Claim(c, proc[c].id)
     \/ /\ rows[proc[c].id].status # "PENDING"
        /\ proc' = [proc EXCEPT ![c] = Idle]
        /\ UNCHANGED <<rows, requests>>
  /\ UNCHANGED <<todo, recovery, pos, bounds>>

\* Mutant: abandoned claims are never released.
ReleaseNothing == rows
\* One round of the loop: abandoned claims are released, then the due rows are
\* listed, oldest first.
ReleaseStaleClaims ==
  [i \in DOMAIN rows |-> IF rows[i].status = "SENDING" /\ rows[i].stale
                           THEN [rows[i] EXCEPT !.status = "PENDING"] ELSE rows[i]]
PendingOrders(table) ==
  LET due == {i \in DOMAIN table : table[i].status = "PENDING" /\ table[i].due}
  IN {i \in due : Cardinality({j \in due : j < i}) < LoopLimit}
LoopRound ==
  /\ proc[Loop] = Idle /\ todo = {}
  /\ rows' = ReleaseStaleClaims
  /\ todo' = PendingOrders(rows')
  /\ (rows' # rows \/ todo' # {})
  /\ UNCHANGED <<proc, recovery, requests, pos, bounds>>

LoopNext ==
  /\ proc[Loop] = Idle
  /\ \E i \in todo :
       /\ \A j \in todo : i <= j
       /\ todo' = todo \ {i}
       /\ \/ Claim(Loop, i)
          \/ rows[i].status # "PENDING" /\ UNCHANGED <<rows, proc, requests>>
  /\ UNCHANGED <<recovery, pos, bounds>>

\* The client gives up: no connection, or no answer within the timeouts.  The
\* server may or may not have the request.
GiveUp(p) ==
  /\ proc[p].at = "posting" /\ Fault
  /\ proc' = [proc EXCEPT ![p] = Answered(proc[p].id, "transient")]
  /\ \/ UNCHANGED requests
     \/ requests' = {q \in requests : q.n # proc[p].n}
  /\ UNCHANGED <<rows, todo, recovery, pos, prints, presses>>

\* Mutant: a failed row gets a status of its own.
MarkRowFailed(row, answer) ==
  [row EXCEPT !.status = IF answer = "ok" THEN "SENT" ELSE "FAILED"]
\* markOrderSent, markOrderBlocked or markOrderFailed, by row id alone.
MarkRow(row, answer) ==
  CASE answer = "ok"        -> [row EXCEPT !.status = "SENT"]
    [] answer = "terminal"  -> [row EXCEPT !.status = "BLOCKED", !.due = TRUE]
    [] answer = "transient" -> [row EXCEPT !.status = "PENDING", !.due = FALSE]
MarkOrder(p) ==
  /\ proc[p].at = "answered"
  /\ rows' = [rows EXCEPT ![proc[p].id] = MarkRow(rows[proc[p].id], proc[p].answer)]
  /\ proc' = [proc EXCEPT ![p] = Idle]
  /\ UNCHANGED <<todo, recovery, requests, pos, bounds>>

\* Time: a row's backoff ends; a claim grows older than 120 s, which only an
\* abandoned one does unless a POST may be that slow.
BackoffEnds(i) ==
  /\ rows[i].status = "PENDING" /\ ~rows[i].due
  /\ rows' = [rows EXCEPT ![i].due = TRUE]
  /\ UNCHANGED <<proc, todo, recovery, requests, pos, bounds>>
ClaimExpires(i) ==
  /\ rows[i].status = "SENDING" /\ ~rows[i].stale
  /\ SlowPosts \/ \A p \in Procs : ~Holds(p, i)
  /\ rows' = [rows EXCEPT ![i].stale = TRUE]
  /\ UNCHANGED <<proc, todo, recovery, requests, pos, bounds>>

\* The agent's process dies and is started again: coroutines are gone, the
\* table and the server's requests are not; the new service lists the receipts
\* it may read again.
Recoverable == {i \in DOMAIN rows : rows[i].status \in {"UNCLASSIFIED", "PENDING"} /\ ~rows[i].text}
Restart ==
  /\ Fault
  /\ proc' = [p \in Procs |-> Idle] /\ todo' = {}
  /\ recovery' = Recoverable
  /\ UNCHANGED <<rows, requests, pos, prints, presses>>

\* recoverUnclassifiedReceipts: read a listed receipt again and reclassify its
\* row, unless it moved on, is still not recognised or would collide with the
\* identity of another row (the unique index refuses the update).
Recover(i) ==
  /\ i \in recovery
  /\ recovery' = recovery \ {i}
  /\ \/ \E k \in Readings(rows[i].bytes) :
          /\ k.platform = "shopee"
          /\ rows[i].status \in {"UNCLASSIFIED", "PENDING"}
          /\ SameIdentity(rows[i].bytes, k.platform, k.ref) \subseteq {i}
          /\ rows' = [rows EXCEPT ![i].platform = k.platform,
                                  ![i].text = k.text \/ rows[i].text,
                                  ![i].ref = IF k.text THEN k.ref ELSE rows[i].ref,
                                  ![i].status = "PENDING", ![i].due = TRUE]
     \/ UNCHANGED rows
  /\ UNCHANGED <<proc, todo, requests, pos, bounds>>

\* The operator of the phone: send again now; entered by hand.
RetryOrderNow(i) ==
  /\ Press
  /\ rows[i].status \in {"PENDING", "BLOCKED"}
  /\ rows' = [rows EXCEPT ![i].status = "PENDING", ![i].due = TRUE]
  /\ UNCHANGED <<proc, todo, recovery, requests, pos, prints, faults>>
DismissWaitingOrder(i) ==
  /\ Press
  /\ rows[i].status \in Dismissible
  /\ rows' = [rows EXCEPT ![i].status = "DISMISSED"]
  /\ UNCHANGED <<proc, todo, recovery, requests, pos, prints, faults>>

-----------------------------------------------------------------------------
(* The web server and the POS. *)

\* A request ends; the client reads the answer if it still waits.
Finish(q, answer) ==
  /\ requests' = requests \ {q}
  /\ proc' = [p \in Procs |->
                IF proc[p].at = "posting" /\ proc[p].n = q.n
                  THEN Answered(proc[p].id, answer) ELSE proc[p]]

\* Orders of the same day with the same last four digits.
Candidates(o) == {k \in DOMAIN pos : ShortRef[pos[k].order] = ShortRef[o]}
\* Mutant: the four digits alone identify an order.
AnyItems(k, o) == k \in DOMAIN pos
SameItems(k, o) == pos[k].items = Items[o]

\* The lookup: a single order with the same items answers the request, any other
\* match is refused (409) and left to the operator.
LookUp(q) ==
  LET found == Candidates(q.order) IN
  /\ q.seen = "nothing"
  /\ \/ /\ found = {}
        /\ requests' = (requests \ {q}) \union {[q EXCEPT !.seen = "clear"]}
        /\ UNCHANGED proc
     \/ \E k \in found : found = {k} /\ SameItems(k, q.order) /\ Finish(q, "ok")
     \/ /\ found # {} /\ ~\E k \in found : found = {k} /\ SameItems(k, q.order)
        /\ Finish(q, "terminal")
  /\ UNCHANGED <<rows, todo, recovery, pos, bounds>>

\* create_order: an order that carries the idempotency key is returned.
CreatedFor(o) == {k \in DOMAIN pos : pos[k].by = "relay" /\ pos[k].order = o}
\* Mutant: the idempotency key is not looked up.
CreateAnew(o) == pos' = Append(pos, [order |-> o, by |-> "relay", items |-> Items[o]])
CreateOrder(o) ==
  IF CreatedFor(o) # {} THEN UNCHANGED pos
  ELSE pos' = Append(pos, [order |-> o, by |-> "relay", items |-> Items[o]])
Create(q) ==
  /\ q.seen = "clear"
  /\ CreateOrder(q.order)
  /\ Finish(q, "ok")
  /\ UNCHANGED <<rows, todo, recovery, bounds>>

\* An item not on the menu or sold out (4xx), an error of the server (5xx), or a
\* request the server loses.
Refuse(q) ==
  /\ Fault
  /\ \E a \in {"terminal", "transient"} : Finish(q, a)
  /\ UNCHANGED <<rows, todo, recovery, pos, prints, presses>>

\* A cashier enters an order by hand, with its four digits, rightly or not.
EnterByHand(o) ==
  /\ Press
  /\ ~\E k \in DOMAIN pos : pos[k].by = "cashier" /\ pos[k].order = o
  /\ \E s \in {Items[o], "other"} :
       pos' = Append(pos, [order |-> o, by |-> "cashier", items |-> s])
  /\ UNCHANGED <<rows, proc, todo, recovery, requests, prints, faults>>

-----------------------------------------------------------------------------
Agent == \/ \E c \in Conns : StoreReceipt(c) \/ DispatchNew(c)
         \/ LoopRound \/ LoopNext
         \/ \E p \in Procs : GiveUp(p) \/ MarkOrder(p)
         \/ \E i \in recovery : Recover(i)
Clock == \E i \in DOMAIN rows : BackoffEnds(i) \/ ClaimExpires(i)
Server == \E q \in requests : LookUp(q) \/ Create(q) \/ Refuse(q)
Staff == \/ \E i \in DOMAIN rows : RetryOrderNow(i) \/ DismissWaitingOrder(i)
         \/ \E o \in Orders : EnterByHand(o)

Next == \/ \E c \in Conns, r \in Receipts : PrintReceipt(c, r)
        \/ Agent \/ Clock \/ Server \/ Staff \/ Restart

Spec == Init /\ [][Next]_vars

\* The coroutines run, time passes, and a request the server handles is answered
\* or gives its client a timeout; nothing is assumed of people, of restarts or
\* of what the delivery app prints.
Fairness ==
  /\ WF_vars(\E c \in Conns : StoreReceipt(c)) /\ WF_vars(\E c \in Conns : DispatchNew(c))
  /\ WF_vars(LoopRound) /\ WF_vars(LoopNext)
  /\ \A p \in Procs : WF_vars(MarkOrder(p))
  /\ WF_vars(\E i \in DOMAIN rows : BackoffEnds(i)) /\ WF_vars(\E i \in DOMAIN rows : ClaimExpires(i))
  /\ \A n \in RequestIds : WF_vars(\E q \in requests : q.n = n /\ (LookUp(q) \/ Create(q)))
FairSpec == Spec /\ Fairness
-----------------------------------------------------------------------------
(* Properties. *)

\* However often a receipt is posted (retries, abandoned claims, answers that
\* come too late, restarts, reprints), the relay creates one order for it.
OneRelayedOrder == \A o \in Orders : Cardinality(CreatedFor(o)) <= 1

\* A row is marked SENT only when the POS has its order: a lookup by four digits
\* never takes the order of another customer for it.
SentMeansOnPos ==
  \A i \in DOMAIN rows : rows[i].status = "SENT" =>
     \E k \in DOMAIN pos : pos[k].order = OrderOf[rows[i].bytes]

\* Between its claim and its mark a coroutine owns the row: nobody else posts
\* it, and neither the operator nor the recovery of receipts takes it away.
OwnedWhileSent ==
  \A p \in Procs : Working(p) =>
     /\ rows[proc[p].id].status = "SENDING"
     /\ \A q \in Procs \ {p} : ~Holds(q, proc[p].id)

Waiting(i) == i \in DOMAIN rows /\ rows[i].status \in {"PENDING", "SENDING"}

\* A receipt that waits for its POST, or whose POST was cut short by a restart,
\* is in the end sent, refused or taken out by the operator.
QueueDrains == \A i \in 1 .. MaxPrints : Waiting(i) ~> ~Waiting(i)

-----------------------------------------------------------------------------
(* What the repository says and the code does not keep: TLC refutes these     *)
(* formulas on small instances, as README.md tells under "Known divergences". *)

\* A resolved row (sent, or entered by hand) never comes back to the queue.
ResolvedIsFinal ==
  [][\A i \in DOMAIN rows : rows[i].status \in Resolved => rows'[i].status = rows[i].status]_vars

\* A receipt that the operator marked as entered by hand is not queued again
\* when the app prints it once more.
ReprintStaysOut ==
  [][\A i \in DOMAIN rows', j \in DOMAIN rows :
       rows[j].status = "DISMISSED" /\ rows'[i].bytes = rows[j].bytes => i \in DOMAIN rows]_vars

\* The relay never creates an order that a cashier has already entered.
NoCopyOfManualOrder ==
  [][\A k \in DOMAIN pos', j \in DOMAIN pos :
       pos'[k].by = "relay" /\ pos[j].by = "cashier" /\ pos'[k].order = pos[j].order
         => k \in DOMAIN pos]_vars
=============================================================================
