----------------------------- MODULE GrabRelay -----------------------------
(***************************************************************************)
(* The browser extension that relays GrabFood orders to the POS.  Scripts  *)
(* in the tabs of the Grab portal see orders appear, change and be         *)
(* cancelled; the service worker keeps a queue of one item per order in    *)
(* chrome.storage, which it reads and writes as a whole without a lock,    *)
(* and posts the items; the web server looks an order up and then creates, *)
(* revises or cancels it.                                                  *)
(*                                                                         *)
(* A content fingerprint is the number of the revision at Grab; the        *)
(* fingerprint of a cancellation is Cancel.  A call of chrome.storage is   *)
(* served in the order of issue: a get takes its snapshot when it is       *)
(* issued, and the code that runs on its answer ends in one set.           *)
(***************************************************************************)
EXTENDS Integers, FiniteSets, Sequences

CONSTANTS
  Orders,       \* orders of the Grab portal
  Tabs,         \* tabs open on the portal, each with its scripts
  Popup,        \* the extension's popup
  Runs,         \* activations of processRelayQueue that may overlap
  MaxAttempts,  \* attempts before an item is given up (5 in the code)
  MaxRev,       \* bound: revisions of an order at Grab
  MaxEnded,     \* bound: orders cancelled or completed at Grab
  MaxCalls,     \* bound: unanswered messages of a tab to the worker
  MaxFaults,    \* bound: lost answers, refusals, deaths of the worker, reloads
  MaxPresses    \* bound: retries asked for in the popup

ASSUME NamesAssumption == Popup \notin Tabs
ASSUME BoundsAssumption ==
  /\ MaxAttempts \in Nat \ {0} /\ MaxRev \in Nat \ {0} /\ MaxCalls \in Nat \ {0}
  /\ MaxEnded \in Nat /\ MaxFaults \in Nat /\ MaxPresses \in Nat

VARIABLES
  grab,      \* what the portal says of an order
  tabs,      \* the fingerprints a tab's script remembers
  calls,     \* messages to the worker, oldest first, and how far each is served
  queue,     \* grabRelayQueue in chrome.storage
  relayed,   \* grabRelayedOrders in chrome.storage: the last fingerprint sent
  runs,      \* activations of processRelayQueue
  requests,  \* requests the web server is handling
  pos,       \* the orders on the POS
  faults, presses,  \* bound counters
  \* History: orders taken out of the queue, or out of the list of relayed ones,
  \* by a write of an older snapshot of it.
  overwritten, forgotten

history == <<overwritten, forgotten>>
vars == <<grab, tabs, calls, queue, relayed, runs, requests, pos, faults, presses, history>>
bounds == <<faults, presses>>

Cancel == 0
Never  == -1
Fingerprints == Cancel .. MaxRev
Actions  == {"create", "amend", "cancel"}
Outcomes == {"pending", "ok", "terminal", "transient"}

Item == [fp : Fingerprints, action : Actions, attempts : 0 .. MaxAttempts,
         terminal : BOOLEAN, due : BOOLEAN]
NoItem == [action |-> "none"]
Queues == [Orders -> Item \union {NoItem}]
NoQueue == [o \in Orders |-> NoItem]
NoneRelayed == [o \in Orders |-> Never]

Senders == Tabs \union {Popup}
Call == [order : Orders, fp : Fingerprints, at : {"sent", "read"}, queue : Queues]

IdleRun == [at |-> "idle", items |-> NoQueue, out |-> [o \in Orders |-> "pending"],
            queue |-> NoQueue, relayed |-> NoneRelayed]
Run == [at : {"idle", "selecting", "posting", "merging"}, items : Queues,
        out : [Orders -> Outcomes], queue : Queues,
        relayed : [Orders -> {Never} \union Fingerprints]]

\* sent: the faults there had been when it was sent, which tells it from an earlier
\* request of the same run for the same order that the run no longer waits for.
Request == [sent : 0 .. MaxFaults, run : Runs, order : Orders, action : Actions,
            fp : Fingerprints, step : Actions \union {"arrived"}, waits : BOOLEAN]

\* Portal, tabs, storage, activations, requests and POS keep their shape.
TypeOK ==
  /\ grab \in [Orders -> [rev : 0 .. MaxRev, state : {"none", "preparing", "cancelled", "done"}]]
  /\ tabs \in [Tabs -> [Orders -> [dispatched : 0 .. MaxRev, queued : 0 .. MaxRev]]]
  /\ calls \in [Senders -> Seq(Call)] /\ \A s \in Senders : Len(calls[s]) <= MaxCalls
  /\ queue \in Queues
  /\ relayed \in [Orders -> {Never} \union Fingerprints]
  /\ runs \in [Runs -> Run]
  /\ requests \subseteq Request
  /\ pos \in [Orders -> [rev : 0 .. MaxRev, status : {"none", "open", "paid", "cancelled"}]]
  /\ faults \in 0 .. MaxFaults /\ presses \in 0 .. MaxPresses
  /\ overwritten \subseteq Orders /\ forgotten \subseteq Orders

Init ==
  /\ grab = [o \in Orders |-> [rev |-> 0, state |-> "none"]]
  /\ tabs = [t \in Tabs |-> [o \in Orders |-> [dispatched |-> 0, queued |-> 0]]]
  /\ calls = [s \in Senders |-> <<>>]
  /\ queue = NoQueue /\ relayed = NoneRelayed
  /\ runs = [w \in Runs |-> IdleRun]
  /\ requests = {}
  /\ pos = [o \in Orders |-> [rev |-> 0, status |-> "none"]]
  /\ faults = 0 /\ presses = 0
  /\ overwritten = {} /\ forgotten = {}

Fault == faults < MaxFaults /\ faults' = faults + 1
-----------------------------------------------------------------------------
(* The portal. *)

Ended == {o \in Orders : grab[o].state \in {"cancelled", "done"}}

Portal ==
  /\ \E o \in Orders :
       \/ /\ grab[o].state = "none"
          /\ grab' = [grab EXCEPT ![o] = [rev |-> 1, state |-> "preparing"]]
       \/ /\ grab[o].state = "preparing" /\ grab[o].rev < MaxRev
          /\ grab' = [grab EXCEPT ![o].rev = @ + 1]
       \/ /\ grab[o].state = "preparing" /\ Cardinality(Ended) < MaxEnded
          /\ \E s \in {"cancelled", "done"} : grab' = [grab EXCEPT ![o].state = s]
  /\ UNCHANGED <<tabs, calls, queue, relayed, runs, requests, pos, bounds, history>>
-----------------------------------------------------------------------------
(* The scripts of a tab. *)

Send(s, o, fp) ==
  /\ Len(calls[s]) < MaxCalls
  /\ calls' = [calls EXCEPT ![s] =
       Append(@, [order |-> o, fp |-> fp, at |-> "sent", queue |-> NoQueue])]

\* The list of the portal, its own or polled, shows an order with a content the
\* tab has not dispatched: its detail is fetched and sent to the worker.
DispatchDetail(t, o) ==
  /\ grab[o].state = "preparing"
  /\ grab[o].rev \notin {tabs[t][o].dispatched, tabs[t][o].queued}
  /\ tabs' = [tabs EXCEPT ![t][o].dispatched = grab[o].rev]
  /\ Send(t, o, grab[o].rev)
  /\ UNCHANGED <<grab, queue, relayed, runs, requests, pos, bounds, history>>

\* Mutant: one tab tells of a cancellation once.
DispatchCancelOnce(t, o) ==
  /\ grab[o].state = "cancelled" /\ relayed[o] \notin {Never, Cancel}
  /\ tabs' = [tabs EXCEPT ![t][o].dispatched = 0]
  /\ tabs[t][o].dispatched # 0
  /\ Send(t, o, Cancel)
  /\ UNCHANGED <<grab, queue, relayed, runs, requests, pos, bounds, history>>
\* Every poll of the cancelled orders tells of each of them again, and the tab
\* sends those that the extension has relayed.
DispatchCancel(t, o) ==
  /\ grab[o].state = "cancelled" /\ relayed[o] # Never
  /\ Send(t, o, Cancel)
  /\ UNCHANGED <<grab, tabs, queue, relayed, runs, requests, pos, bounds, history>>

\* The page is loaded again, after its messages were answered: its scripts start
\* with empty maps.
Reload(t) ==
  /\ Fault
  /\ calls[t] = <<>>
  /\ tabs' = [tabs EXCEPT ![t] = [o \in Orders |-> [dispatched |-> 0, queued |-> 0]]]
  /\ UNCHANGED <<grab, calls, queue, relayed, runs, requests, pos, presses, history>>

\* An operator sends a failed item again from the popup.
RetryQueuedOrder(o) ==
  /\ presses < MaxPresses /\ presses' = presses + 1
  /\ queue[o] # NoItem /\ (queue[o].terminal \/ queue[o].attempts > 0)
  /\ Send(Popup, o, queue[o].fp)
  /\ UNCHANGED <<grab, tabs, queue, relayed, runs, requests, pos, faults, history>>
-----------------------------------------------------------------------------
(* The service worker: enqueueOrder. *)

\* Mutant: a new item has no time for its first attempt.
FreshUndated(fp, action) ==
  [fp |-> fp, action |-> action, attempts |-> 0, terminal |-> FALSE]
Fresh(fp, action) ==
  [fp |-> fp, action |-> action, attempts |-> 0, terminal |-> FALSE, due |-> TRUE]

\* An order that is not queued is appended; the same content of an item that is
\* not given up changes nothing; other content takes the item's place.
EnqueueOrRevive(q, o, fp) ==
  IF q[o] = NoItem
    THEN [q EXCEPT ![o] = Fresh(fp, IF fp = Cancel THEN "cancel" ELSE "create")]
  ELSE IF ~q[o].terminal /\ q[o].fp = fp THEN q
  ELSE [q EXCEPT ![o] = Fresh(fp, IF fp = Cancel THEN "cancel" ELSE "amend")]

\* The items that a snapshot does not have.
Missing(snapshot) == {o \in Orders : queue[o] # NoItem /\ snapshot[o] = NoItem}
Overwritten(by) == {o \in overwritten \union by : queue'[o] = NoItem}
Forgotten(by)   == {o \in forgotten \union by : relayed'[o] = Never}

\* The handler of a message issues its get ...
ReadQueue(s) ==
  /\ \E i \in DOMAIN calls[s] :
       /\ calls[s][i].at = "sent" /\ \A j \in 1 .. i - 1 : calls[s][j].at = "read"
       /\ calls' = [calls EXCEPT ![s][i].at = "read", ![s][i].queue = queue]
  /\ UNCHANGED <<grab, tabs, queue, relayed, runs, requests, pos, bounds, history>>

\* ... and on its answer sets the queue and tells the tab, which notes the
\* content as queued.
WriteQueue(s) ==
  /\ calls[s] # <<>> /\ Head(calls[s]).at = "read"
  /\ LET c == Head(calls[s])
         q == EnqueueOrRevive(c.queue, c.order, c.fp)
     IN /\ queue' = IF q = c.queue THEN queue ELSE q
        /\ tabs' = IF s \in Tabs /\ c.fp # Cancel
                     THEN [tabs EXCEPT ![s][c.order].queued = c.fp] ELSE tabs
        /\ overwritten' = Overwritten(IF q = c.queue THEN {} ELSE Missing(c.queue))
  /\ calls' = [calls EXCEPT ![s] = Tail(@)]
  /\ UNCHANGED <<grab, relayed, runs, requests, pos, bounds, forgotten>>
-----------------------------------------------------------------------------
(* The service worker: processRelayQueue. *)

InFlight == {o \in Orders : \E w \in Runs : /\ runs[w].at \in {"posting", "merging"}
                                            /\ runs[w].items[o] # NoItem}

\* Mutant: orders in flight are selected again.
SelectBusyJobs(q) ==
  LET ready == {o \in Orders : q[o] # NoItem /\ ~q[o].terminal /\ q[o].due}
      live  == {o \in ready : q[o].attempts = 0}
  IN IF live # {} THEN live ELSE ready
\* Items never tried go first.
SelectDispatchJobs(q) ==
  LET ready == {o \in Orders \ InFlight : q[o] # NoItem /\ ~q[o].terminal /\ q[o].due}
      live  == {o \in ready : q[o].attempts = 0}
  IN IF live # {} THEN live ELSE ready

\* Of those that are ready a run takes the first three; which these are, the
\* place in the queue decides, which the model leaves open.
MaxLiveSlots == 3
Slots(ready) ==
  {jobs \in SUBSET ready : IF Cardinality(ready) <= MaxLiveSlots THEN jobs = ready
                                                       ELSE Cardinality(jobs) = MaxLiveSlots}

\* The alarm, an enqueued order or a message of the popup starts a run.
RunRead(w) ==
  /\ runs[w].at = "idle" /\ queue # NoQueue
  /\ runs' = [runs EXCEPT ![w].at = "selecting", ![w].queue = queue]
  /\ UNCHANGED <<grab, tabs, calls, queue, relayed, requests, pos, bounds, history>>

\* The selected items are posted at once.
RunSelect(w) ==
  LET q == runs[w].queue IN
  \E jobs \in Slots(SelectDispatchJobs(q)) :
     /\ runs[w].at = "selecting"
     /\ runs' = [runs EXCEPT ![w] = IF jobs = {} THEN IdleRun
          ELSE [IdleRun EXCEPT !.at = "posting",
                               !.items = [o \in Orders |-> IF o \in jobs THEN q[o] ELSE NoItem]]]
     /\ requests' = requests \union
          {[sent |-> faults, run |-> w, order |-> o, action |-> q[o].action, fp |-> q[o].fp,
            step |-> "arrived", waits |-> TRUE] : o \in jobs}
     /\ UNCHANGED <<grab, tabs, calls, queue, relayed, pos, bounds, history>>

\* No answer within 15 s, or none at all; the request may still be served.
TimeOut(w, o) ==
  /\ Fault
  /\ runs[w].at = "posting" /\ runs[w].items[o] # NoItem /\ runs[w].out[o] = "pending"
  /\ runs' = [runs EXCEPT ![w].out[o] = "transient"]
  /\ LET mine == {q \in requests : q.run = w /\ q.order = o /\ q.waits}
     IN requests' \in {requests \ mine,
                       (requests \ mine) \union {[q EXCEPT !.waits = FALSE] : q \in mine}}
  /\ UNCHANGED <<grab, tabs, calls, queue, relayed, pos, presses, history>>

\* All answers are in: read the storage again ...
RunSettle(w) ==
  /\ runs[w].at = "posting"
  /\ \A o \in Orders : runs[w].items[o] # NoItem => runs[w].out[o] # "pending"
  /\ runs' = [runs EXCEPT ![w].at = "merging", ![w].queue = queue, ![w].relayed = relayed]
  /\ UNCHANGED <<grab, tabs, calls, queue, relayed, requests, pos, bounds, history>>

\* Mutant: an item refused for good leaves the queue.
KeepUnlessTerminal(item, out) ==
  IF out = "terminal" THEN NoItem
  ELSE [item EXCEPT !.attempts = @ + 1, !.due = FALSE, !.terminal = item.attempts + 1 >= MaxAttempts]
\* An item that failed stays, to be sent again later or given up.
ApplyDispatchOutcome(item, out) ==
  IF out = "ok" THEN NoItem
  ELSE [item EXCEPT !.attempts = @ + 1, !.due = FALSE,
                    !.terminal = out = "terminal" \/ item.attempts + 1 >= MaxAttempts]

\* ... and write it: a delivered order's item is removed, whatever it is by now;
\* a failed one takes the place of the item in the storage.
RunMerge(w) ==
  LET r == runs[w] IN
  /\ r.at = "merging"
  /\ queue' = [o \in Orders |-> IF r.items[o] = NoItem THEN r.queue[o]
                                ELSE ApplyDispatchOutcome(r.items[o], r.out[o])]
  /\ relayed' = [o \in Orders |-> IF r.items[o] # NoItem /\ r.out[o] = "ok"
                                    THEN r.items[o].fp ELSE r.relayed[o]]
  /\ overwritten' = Overwritten({o \in Missing(r.queue) : r.items[o] = NoItem})
  /\ forgotten' = Forgotten({o \in Orders : relayed[o] # Never /\ r.relayed[o] = Never})
  /\ runs' = [runs EXCEPT ![w] = IdleRun]
  /\ UNCHANGED <<grab, tabs, calls, requests, pos, bounds>>

\* The time of the next attempt is part of the item: it comes for every copy of it.
Ripe(q, o) == IF q[o] = queue[o] THEN [q EXCEPT ![o].due = TRUE] ELSE q
BackoffEnds(o) ==
  /\ queue[o] # NoItem /\ ~queue[o].terminal /\ ~queue[o].due
  /\ queue' = Ripe(queue, o)
  /\ calls' = [s \in Senders |-> [i \in DOMAIN calls[s] |->
                 [calls[s][i] EXCEPT !.queue = Ripe(@, o)]]]
  /\ runs' = [w \in Runs |-> [runs[w] EXCEPT !.queue = Ripe(@, o)]]
  /\ UNCHANGED <<grab, tabs, relayed, requests, pos, bounds, history>>

\* Chrome ends the worker: runs and handlers are gone, a tab whose message was
\* not answered forgets that it dispatched the content.
\* Mutant: a tab goes on waiting for a worker that is gone.
AllAnswered(t, o) == FALSE
Unanswered(t, o) == \E i \in DOMAIN calls[t] : /\ calls[t][i].order = o
                                               /\ calls[t][i].fp = tabs[t][o].dispatched
WorkerDies ==
  /\ Fault
  /\ runs' = [w \in Runs |-> IdleRun]
  /\ calls' = [s \in Senders |-> <<>>]
  /\ tabs' = [t \in Tabs |-> [o \in Orders |->
                IF Unanswered(t, o) THEN [tabs[t][o] EXCEPT !.dispatched = 0] ELSE tabs[t][o]]]
  /\ requests' = {[q EXCEPT !.waits = FALSE] : q \in requests}
  /\ UNCHANGED <<grab, queue, relayed, pos, presses, history>>
-----------------------------------------------------------------------------
(* The web server and the POS. *)

Answer(q, out) ==
  /\ requests' = requests \ {q}
  /\ runs' = IF q.waits THEN [runs EXCEPT ![q.run].out[q.order] = out] ELSE runs
GoOn(q, step) ==
  /\ requests' = (requests \ {q}) \union {[q EXCEPT !.step = step]}
  /\ UNCHANGED runs

PaidOrTerminal(o) == pos[o].status \in {"paid", "cancelled"}

\* Step 7 of the route: look the order up and decide.
Decide(q) ==
  LET o == q.order IN
  /\ q.step = "arrived"
  /\ \/ pos[o].rev = 0 /\ (IF q.action = "cancel" THEN Answer(q, "ok") ELSE GoOn(q, "create"))
     \/ /\ pos[o].rev # 0
        /\ CASE q.action = "create" -> Answer(q, "ok")
             [] q.action = "cancel" /\ pos[o].status = "cancelled" -> Answer(q, "ok")
             [] q.action # "create" /\ PaidOrTerminal(o) /\
                ~(q.action = "cancel" /\ pos[o].status = "cancelled") -> Answer(q, "terminal")
             [] OTHER -> GoOn(q, q.action)
  /\ UNCHANGED <<grab, tabs, calls, queue, relayed, pos, bounds, history>>

\* create_order with the idempotency key of the Grab order.
CreateOrder(q) ==
  /\ q.step = "create"
  /\ pos' = IF pos[q.order].rev # 0 THEN pos
            ELSE [pos EXCEPT ![q.order] = [rev |-> q.fp, status |-> "open"]]
  /\ Answer(q, "ok")
  /\ UNCHANGED <<grab, tabs, calls, queue, relayed, bounds, history>>

\* Mutant: the revision does not look at the order's status again.
ApplyRevisionAnyway(q) ==
  /\ q.step = "amend"
  /\ pos' = [pos EXCEPT ![q.order].rev = q.fp] /\ Answer(q, "ok")
  /\ UNCHANGED <<grab, tabs, calls, queue, relayed, bounds, history>>
\* relay_apply_grab_order_revision.
ApplyRevision(q) ==
  /\ q.step = "amend"
  /\ IF PaidOrTerminal(q.order) THEN Answer(q, "terminal") /\ UNCHANGED pos
     ELSE pos' = [pos EXCEPT ![q.order].rev = q.fp] /\ Answer(q, "ok")
  /\ UNCHANGED <<grab, tabs, calls, queue, relayed, bounds, history>>

\* relay_cancel_delivery_order.
CancelOrder(q) ==
  /\ q.step = "cancel"
  /\ CASE pos[q.order].status = "cancelled" -> Answer(q, "ok") /\ UNCHANGED pos
       [] pos[q.order].status = "paid" -> Answer(q, "terminal") /\ UNCHANGED pos
       [] OTHER -> pos' = [pos EXCEPT ![q.order].status = "cancelled"] /\ Answer(q, "ok")
  /\ UNCHANGED <<grab, tabs, calls, queue, relayed, bounds, history>>

\* An item that is not mapped or sold out (4xx), or an error of the server.
Refuse(q) ==
  /\ Fault
  /\ \E out \in {"terminal", "transient"} : Answer(q, out)
  /\ UNCHANGED <<grab, tabs, calls, queue, relayed, pos, presses, history>>

\* The cashier takes the platform's tender when the rider comes.
Pay(o) ==
  /\ pos[o].status = "open"
  /\ pos' = [pos EXCEPT ![o].status = "paid"]
  /\ UNCHANGED <<grab, tabs, calls, queue, relayed, runs, requests, bounds, history>>
-----------------------------------------------------------------------------
Tab(t, o) == DispatchDetail(t, o) \/ DispatchCancel(t, o)
Handler(s) == ReadQueue(s) \/ WriteQueue(s)
Worker(w) == RunRead(w) \/ RunSelect(w) \/ RunSettle(w) \/ RunMerge(w)
Server(q) == Decide(q) \/ CreateOrder(q) \/ ApplyRevision(q) \/ CancelOrder(q)

Next ==
  \/ Portal \/ WorkerDies
  \/ \E t \in Tabs, o \in Orders : Tab(t, o)
  \/ \E t \in Tabs : Reload(t)
  \/ \E s \in Senders : Handler(s)
  \/ \E w \in Runs : Worker(w) \/ \E o \in Orders : TimeOut(w, o)
  \/ \E q \in requests : Server(q) \/ Refuse(q)
  \/ \E o \in Orders : RetryQueuedOrder(o) \/ BackoffEnds(o) \/ Pay(o)

Spec == Init /\ [][Next]_vars

\* An item is due, and every one that is was tried before.
RetriesOnly ==
  LET ready == {o \in Orders : queue[o] # NoItem /\ ~queue[o].terminal /\ queue[o].due}
  IN ready # {} /\ \A o \in ready : queue[o].attempts > 0

\* The tabs poll, Chrome delivers messages and alarms, backoffs end, and the server
\* answers what reached it; nothing is assumed of people or of the portal.  Strong
\* fairness is for what recurs: a tab finds a place for a message again and again,
\* since it is MaxCalls, not the code, that makes it wait; and cancellations, told
\* again each 45 s, do not meet every alarm of the queue.
Fairness ==
  /\ \A o \in Orders : /\ SF_vars(\E t \in Tabs : DispatchDetail(t, o))
                       /\ SF_vars(\E t \in Tabs : DispatchCancel(t, o))
                       /\ WF_vars(BackoffEnds(o))
  /\ \A s \in Senders : WF_vars(Handler(s))
  /\ \A w \in Runs : WF_vars(Worker(w))
  /\ SF_vars(\E w \in Runs : RunRead(w) /\ RetriesOnly)
  /\ \A w \in Runs, o \in Orders, n \in 0 .. MaxFaults :
       WF_vars(\E q \in requests : q.run = w /\ q.order = o /\ q.sent = n /\ Server(q))
FairSpec == Spec /\ Fairness
-----------------------------------------------------------------------------
(* Properties. *)

\* Two overlapping runs of one worker, each with a snapshot of its own, never
\* post the same order at the same time.
OneFlightPerOrder ==
  \A v, w \in Runs : \A o \in Orders :
    /\ runs[v].at = "posting" /\ runs[w].at = "posting"
    /\ runs[v].items[o] # NoItem /\ runs[w].items[o] # NoItem
    => v = w

\* An order that a tab was told is queued, and will not send again, is in the
\* queue or has reached the POS, whatever fails, is retried or is started again
\* meanwhile; unless a handler or a run that had read the queue before the item
\* came in wrote that older queue back over it.
QueuedNotLost ==
  \A t \in Tabs, o \in Orders :
    tabs[t][o].queued # 0 => queue[o] # NoItem \/ pos[o].rev # 0 \/ o \in overwritten

\* Once the cashier has taken the money, no revision or cancellation that is
\* still on its way changes the order.
PaidIsFinal == [][\A o \in Orders : pos[o].status = "paid" => pos'[o] = pos[o]]_vars

\* Its item was overwritten when every tab had been told that it is queued: no tab
\* will send it again.
Stranded(o) == o \in overwritten /\ \A t \in Tabs : tabs[t][o].queued = grab[o].rev

\* An order the restaurant is preparing reaches the POS, unless the portal takes
\* it back first, its item is given up and shown as failed, or it is stranded by
\* an overlapping write; an item that is overwritten while a tab still has to
\* hear of it is sent again.
OrderReachesPos ==
  \A o \in Orders : grab[o].state = "preparing" ~>
    \/ pos[o].rev # 0 \/ grab[o].state # "preparing"
    \/ queue[o] # NoItem /\ queue[o].terminal
    \/ Stranded(o)

\* A handler or a run that serves other orders writes an older item of o back.
LostToAnother(o) ==
  \/ \E s \in Senders : /\ WriteQueue(s)
                        /\ Head(calls[s]).order # o /\ Head(calls[s]).queue[o] # queue[o]
  \/ \E w \in Runs : /\ RunMerge(w)
                     /\ runs[w].items[o] = NoItem /\ runs[w].queue[o] # queue[o]

\* An order cancelled at Grab does not stay open on the POS, as long as overlapping
\* writes for other orders do not meet its item each time it is told again; unless
\* the extension does not list the order as relayed: because it was never
\* acknowledged and its item is shown as failed, or because an overlapping write
\* took item or entry away.
CancelReachesPos ==
  \A o \in Orders : <>[][~LostToAnother(o)]_vars =>
    (grab[o].state = "cancelled" /\ pos[o].status = "open" ~>
      \/ pos[o].status # "open"
      \/ /\ relayed[o] = Never
         /\ \/ queue[o] # NoItem /\ queue[o].terminal
            \/ o \in overwritten \union forgotten)

-----------------------------------------------------------------------------
(* What the repository says and the code does not keep: TLC refutes these     *)
(* formulas on small instances, as README.md tells under "Known divergences". *)

\* No write of the storage loses what another order put there.
NothingOverwritten == overwritten = {} /\ forgotten = {}

\* The content that the extension lists as relayed, and sends to nobody again, is
\* on the POS, or a newer one is.
RelayedContentOnPos ==
  \A o \in Orders : pos[o].status = "open" /\ relayed[o] # Never => pos[o].rev >= relayed[o]
=============================================================================
