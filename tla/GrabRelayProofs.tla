-------------------------- MODULE GrabRelayProofs --------------------------
(***************************************************************************)
(* For any orders, tabs, runs and bounds: overlapping runs of the worker   *)
(* never post one order at the same time, an order that is paid is never   *)
(* touched again, and what a tab was told is queued is lost by nothing but *)
(* an overlapping write for another order.  They rest on an invariant that *)
(* follows the items from the queue into every snapshot of it and into the *)
(* requests.                                                               *)
(***************************************************************************)
EXTENDS GrabRelay, SequenceTheorems, TLAPS

-----------------------------------------------------------------------------
(* The inductive invariant: the types, with what the code keeps of them.   *)

\* An item that is not given up has attempts left, and only a cancellation has the
\* fingerprint of one, in the queue and in every snapshot of it.
SoundItem ==
  {x \in Item : /\ x.terminal \/ x.attempts < MaxAttempts
                /\ x.action = "cancel" \/ x.fp # Cancel}
LiveItem    == {x \in SoundItem : ~x.terminal}
SoundQueues == [Orders -> SoundItem \union {NoItem}]
LiveQueues  == [Orders -> LiveItem \union {NoItem}]

SoundCall == {c \in Call : c.queue \in SoundQueues}
SoundRun  == {r \in Run : r.queue \in SoundQueues /\ r.items \in LiveQueues}

\* What the portal shows of an order has contents.
SoundGrab ==
  {g \in [rev : 0 .. MaxRev, state : {"none", "preparing", "cancelled", "done"}] :
     g.state # "none" => g.rev # 0}

\* The server creates or revises an order with the contents of a revision only.
SoundRequest ==
  {q \in Request : /\ q.action = "cancel" \/ q.fp # Cancel
                   /\ q.step \in {"create", "amend"} => q.action # "cancel"}

\* An order that is open or paid has contents.
SoundPos ==
  {p \in [rev : 0 .. MaxRev, status : {"none", "open", "paid", "cancelled"}] :
     p.status \in {"open", "paid"} => p.rev # 0}

Sound ==
  /\ grab \in [Orders -> SoundGrab]
  /\ tabs \in [Tabs -> [Orders -> [dispatched : 0 .. MaxRev, queued : 0 .. MaxRev]]]
  /\ calls \in [Senders -> Seq(SoundCall)] /\ \A s \in Senders : Len(calls[s]) <= MaxCalls
  /\ queue \in SoundQueues
  /\ relayed \in [Orders -> {Never} \union Fingerprints]
  /\ runs \in [Runs -> SoundRun]
  /\ requests \subseteq SoundRequest
  /\ pos \in [Orders -> SoundPos]
  /\ faults \in 0 .. MaxFaults /\ presses \in 0 .. MaxPresses
  /\ overwritten \subseteq Orders /\ forgotten \subseteq Orders

LEMMA SoundTypes ==
  /\ SoundItem \subseteq Item /\ LiveItem \subseteq SoundItem
  /\ SoundQueues \subseteq Queues /\ LiveQueues \subseteq SoundQueues
  /\ SoundCall \subseteq Call /\ SoundRun \subseteq Run /\ SoundRequest \subseteq Request
BY DEF SoundItem, LiveItem, SoundQueues, LiveQueues, Queues, SoundCall, SoundRun, SoundRequest

LEMMA SoundIsTyped == Sound => TypeOK
<1> SUFFICES ASSUME Sound PROVE TypeOK
  OBVIOUS
<1>1. calls \in [Senders -> Seq(Call)]
  <2>1. ASSUME NEW s \in Seq(SoundCall) PROVE s \in Seq(Call)
    BY SoundTypes, SeqDef
  <2> QED BY <2>1 DEF Sound
<1>2. pos \in [Orders -> [rev : 0 .. MaxRev, status : {"none", "open", "paid", "cancelled"}]]
  BY DEF Sound, SoundPos
<1>3. queue \in Queues /\ runs \in [Runs -> Run] /\ requests \subseteq Request
  BY SoundTypes DEF Sound
<1>4. grab \in [Orders -> [rev : 0 .. MaxRev, state : {"none", "preparing", "cancelled", "done"}]]
  BY DEF Sound, SoundGrab
<1> QED BY <1>1, <1>2, <1>3, <1>4 DEF Sound, TypeOK

LEMMA NoItemIsNone == \A x \in SoundItem : x # NoItem
BY DEF SoundItem, Item, Actions, NoItem

LEMMA NoQueueIsSound == NoQueue \in SoundQueues /\ NoQueue \in LiveQueues
BY DEF NoQueue, SoundQueues, LiveQueues

LEMMA IdleRunIsSound == IdleRun \in SoundRun
<1>1. NoQueue \in Queues /\ NoQueue \in SoundQueues /\ NoQueue \in LiveQueues
  BY NoQueueIsSound, SoundTypes
<1>2. [o \in Orders |-> "pending"] \in [Orders -> Outcomes]
  BY DEF Outcomes
<1>3. NoneRelayed \in [Orders -> {Never} \union Fingerprints]
  BY DEF NoneRelayed
<1>4. IdleRun \in Run
  BY <1>1, <1>2, <1>3 DEF IdleRun, Run
<1> QED BY <1>1, <1>4 DEF IdleRun, SoundRun

-----------------------------------------------------------------------------
(* What the operators of the queue make of sound items.                    *)

LEMMA FreshIsSound ==
  ASSUME NEW fp \in Fingerprints, NEW a \in Actions, a = "cancel" \/ fp # Cancel
  PROVE  Fresh(fp, a) \in LiveItem
<1>1. Fresh(fp, a) \in Item
  BY BoundsAssumption DEF Fresh, Item
<1> QED BY <1>1, BoundsAssumption DEF Fresh, SoundItem, LiveItem

LEMMA EnqueueIsSound ==
  ASSUME NEW q \in SoundQueues, NEW o \in Orders, NEW fp \in Fingerprints
  PROVE  EnqueueOrRevive(q, o, fp) \in SoundQueues
<1>1. Fresh(fp, IF fp = Cancel THEN "cancel" ELSE "create") \in SoundItem
  BY FreshIsSound, SoundTypes DEF Actions
<1>2. Fresh(fp, IF fp = Cancel THEN "cancel" ELSE "amend") \in SoundItem
  BY FreshIsSound, SoundTypes DEF Actions
<1>3. \A x \in SoundItem : [q EXCEPT ![o] = x] \in SoundQueues
  BY DEF SoundQueues
<1> QED BY <1>1, <1>2, <1>3 DEF EnqueueOrRevive

LEMMA OutcomeIsSound ==
  ASSUME NEW x \in LiveItem, NEW out \in Outcomes
  PROVE  ApplyDispatchOutcome(x, out) \in SoundItem \union {NoItem}
<1> DEFINE t == out = "terminal" \/ x.attempts + 1 >= MaxAttempts
           y == [x EXCEPT !.attempts = @ + 1, !.due = FALSE, !.terminal = t]
<1>1. x \in Item /\ x.attempts < MaxAttempts /\ (x.action = "cancel" \/ x.fp # Cancel)
  BY DEF LiveItem, SoundItem
<1>2. x.attempts + 1 \in 0 .. MaxAttempts
  BY <1>1, BoundsAssumption DEF Item
<1>3. y \in Item
  BY <1>1, <1>2 DEF Item
<1>4. /\ y.terminal = t /\ y.attempts = x.attempts + 1
      /\ y.action = x.action /\ y.fp = x.fp
  BY <1>1 DEF Item
<1>5. y.terminal \/ y.attempts < MaxAttempts
  <2>1. CASE x.attempts + 1 >= MaxAttempts
    BY <1>4, <2>1
  <2>2. CASE ~(x.attempts + 1 >= MaxAttempts)
    BY <1>2, <1>4, <2>2, BoundsAssumption
  <2> QED BY <2>1, <2>2
<1>6. y \in SoundItem
  BY <1>1, <1>3, <1>4, <1>5 DEF SoundItem
<1> QED BY <1>6 DEF ApplyDispatchOutcome

-----------------------------------------------------------------------------
(* Every step keeps the types.                                             *)

LEMMA CallsGrow ==
  ASSUME Sound, NEW s \in Senders, NEW o \in Orders, NEW fp \in Fingerprints, Send(s, o, fp)
  PROVE  calls' \in [Senders -> Seq(SoundCall)] /\ \A r \in Senders : Len(calls'[r]) <= MaxCalls
<1> DEFINE c == [order |-> o, fp |-> fp, at |-> "sent", queue |-> NoQueue]
<1>1. c \in SoundCall
  <2>1. c \in Call
    BY NoQueueIsSound, SoundTypes DEF Call
  <2> QED BY <2>1, NoQueueIsSound DEF SoundCall
<1>2. calls[s] \in Seq(SoundCall) /\ Len(calls[s]) < MaxCalls
  BY DEF Sound, Send
<1> HIDE DEF c
<1>3. Append(calls[s], c) \in Seq(SoundCall) /\ Len(Append(calls[s], c)) <= MaxCalls
  BY <1>1, <1>2, AppendProperties, LenProperties, BoundsAssumption
<1>4. calls' = [calls EXCEPT ![s] = Append(calls[s], c)]
  BY DEF Send, c
<1> QED BY <1>3, <1>4 DEF Sound

LEMMA PortalSound ==
  ASSUME Sound, Portal PROVE Sound'
<1>1. PICK o \in Orders :
        \/ grab' = [grab EXCEPT ![o] = [rev |-> 1, state |-> "preparing"]]
        \/ /\ grab[o].state = "preparing" /\ grab[o].rev < MaxRev
           /\ grab' = [grab EXCEPT ![o].rev = @ + 1]
        \/ /\ grab[o].state = "preparing"
           /\ \E s \in {"cancelled", "done"} : grab' = [grab EXCEPT ![o].state = s]
  BY DEF Portal
<1>2. grab' \in [Orders -> SoundGrab]
  <2>1. grab[o] \in SoundGrab
    BY DEF Sound
  <2>2. CASE grab' = [grab EXCEPT ![o] = [rev |-> 1, state |-> "preparing"]]
    <3>1. [rev |-> 1, state |-> "preparing"] \in SoundGrab
      BY BoundsAssumption DEF SoundGrab
    <3> QED BY <2>2, <3>1 DEF Sound
  <2>3. CASE grab[o].rev < MaxRev /\ grab' = [grab EXCEPT ![o].rev = @ + 1]
    <3>1. grab[o].rev + 1 \in 0 .. MaxRev /\ grab[o].rev + 1 # 0
      BY <2>1, <2>3, BoundsAssumption DEF SoundGrab
    <3>2. [grab[o] EXCEPT !.rev = @ + 1] \in SoundGrab
      BY <2>1, <3>1 DEF SoundGrab
    <3> QED BY <2>3, <3>2 DEF Sound
  <2>4. ASSUME grab[o].state = "preparing",
               NEW s \in {"cancelled", "done"}, grab' = [grab EXCEPT ![o].state = s]
        PROVE  grab' \in [Orders -> SoundGrab]
    <3>1. [grab[o] EXCEPT !.state = s] \in SoundGrab
      BY <2>1, <2>4 DEF SoundGrab
    <3> QED BY <2>4, <3>1 DEF Sound
  <2> QED BY <1>1, <2>2, <2>3, <2>4
<1> QED BY <1>2 DEF Portal, Sound, bounds, history

LEMMA TabsSound ==
  ASSUME Sound,
         \/ \E t \in Tabs, o \in Orders : Tab(t, o)
         \/ \E t \in Tabs : Reload(t)
         \/ \E o \in Orders : RetryQueuedOrder(o)
  PROVE  Sound'
<1>1. ASSUME NEW t \in Tabs, NEW o \in Orders, DispatchDetail(t, o) PROVE Sound'
  <2>1. grab[o].rev \in 0 .. MaxRev /\ grab[o].rev \in Fingerprints /\ t \in Senders
    BY DEF Sound, SoundGrab, Fingerprints, Cancel, Senders
  <2>2. calls' \in [Senders -> Seq(SoundCall)] /\ \A r \in Senders : Len(calls'[r]) <= MaxCalls
    BY <1>1, <2>1, CallsGrow DEF DispatchDetail
  <2>3. tabs' \in [Tabs -> [Orders -> [dispatched : 0 .. MaxRev, queued : 0 .. MaxRev]]]
    <3>1. tabs[t][o] \in [dispatched : 0 .. MaxRev, queued : 0 .. MaxRev]
      BY DEF Sound
    <3>2. [tabs[t][o] EXCEPT !.dispatched = grab[o].rev]
            \in [dispatched : 0 .. MaxRev, queued : 0 .. MaxRev]
      BY <2>1, <3>1
    <3> QED BY <1>1, <3>2 DEF DispatchDetail, Sound
  <2> QED BY <1>1, <2>2, <2>3 DEF DispatchDetail, Sound, bounds, history
<1>2. ASSUME NEW t \in Tabs, NEW o \in Orders, DispatchCancel(t, o) PROVE Sound'
  <2>1. Cancel \in Fingerprints /\ t \in Senders
    BY BoundsAssumption DEF Fingerprints, Cancel, Senders
  <2>2. calls' \in [Senders -> Seq(SoundCall)] /\ \A r \in Senders : Len(calls'[r]) <= MaxCalls
    BY <1>2, <2>1, CallsGrow DEF DispatchCancel
  <2> QED BY <1>2, <2>2 DEF DispatchCancel, Sound, bounds, history
<1>3. ASSUME NEW t \in Tabs, Reload(t) PROVE Sound'
  <2>1. faults' \in 0 .. MaxFaults
    BY <1>3, BoundsAssumption DEF Reload, Fault, Sound
  <2>2. [o \in Orders |-> [dispatched |-> 0, queued |-> 0]]
          \in [Orders -> [dispatched : 0 .. MaxRev, queued : 0 .. MaxRev]]
    BY BoundsAssumption
  <2>3. tabs' \in [Tabs -> [Orders -> [dispatched : 0 .. MaxRev, queued : 0 .. MaxRev]]]
    BY <1>3, <2>2 DEF Reload, Sound
  <2> QED BY <1>3, <2>1, <2>3 DEF Reload, Sound, history
<1>4. ASSUME NEW o \in Orders, RetryQueuedOrder(o) PROVE Sound'
  <2>1. queue[o] \in SoundItem
    BY <1>4 DEF RetryQueuedOrder, Sound, SoundQueues
  <2>2. queue[o].fp \in Fingerprints /\ Popup \in Senders
    BY <2>1 DEF SoundItem, Item, Senders
  <2>3. calls' \in [Senders -> Seq(SoundCall)] /\ \A r \in Senders : Len(calls'[r]) <= MaxCalls
    BY <1>4, <2>2, CallsGrow DEF RetryQueuedOrder
  <2>4. presses' \in 0 .. MaxPresses
    BY <1>4, BoundsAssumption DEF RetryQueuedOrder, Sound
  <2> QED BY <1>4, <2>3, <2>4 DEF RetryQueuedOrder, Sound, history
<1> QED BY <1>1, <1>2, <1>3, <1>4 DEF Tab

\* The handlers of messages: one snapshot of the queue, one write of it.
LEMMA HandlerSound ==
  ASSUME Sound, NEW s \in Senders, Handler(s) PROVE Sound'
<1>0. calls[s] \in Seq(SoundCall) /\ Len(calls[s]) <= MaxCalls
  BY DEF Sound
<1>1. ASSUME ReadQueue(s) PROVE Sound'
  <2>1. PICK i \in DOMAIN calls[s] :
          calls' = [calls EXCEPT ![s][i].at = "read", ![s][i].queue = queue]
    BY <1>1 DEF ReadQueue
  <2> DEFINE c == [calls[s][i] EXCEPT !.at = "read", !.queue = queue]
             t == [calls[s] EXCEPT ![i] = c]
  <2>2. calls[s][i] \in SoundCall
    BY <1>0, LenProperties, ElementOfSeq
  <2>3. c \in SoundCall
    <3>1. queue \in SoundQueues /\ queue \in Queues
      BY SoundTypes DEF Sound
    <3>2. c \in Call /\ c.queue = queue
      BY <2>2, <3>1 DEF SoundCall, Call
    <3> QED BY <3>1, <3>2 DEF SoundCall
  <2>4. calls' = [calls EXCEPT ![s] = t]
    BY <2>1 DEF Sound
  <2>5. t \in Seq(SoundCall) /\ Len(t) = Len(calls[s])
    <3> HIDE DEF c
    <3> QED BY <1>0, <2>3, ExceptSeq
  <2> HIDE DEF t
  <2>6. calls' \in [Senders -> Seq(SoundCall)] /\ \A r \in Senders : Len(calls'[r]) <= MaxCalls
    BY <1>0, <2>4, <2>5 DEF Sound
  <2> QED BY <1>1, <2>6 DEF ReadQueue, Sound, bounds, history
<1>2. ASSUME WriteQueue(s) PROVE Sound'
  <2> DEFINE c == Head(calls[s])
             q == EnqueueOrRevive(c.queue, c.order, c.fp)
  <2>1. c \in SoundCall /\ Tail(calls[s]) \in Seq(SoundCall) /\ Len(Tail(calls[s])) <= MaxCalls
    <3>1. calls[s] # <<>>
      BY <1>2 DEF WriteQueue
    <3>2. Len(calls[s]) \in Nat
      BY <1>0, LenProperties
    <3> QED BY <1>0, <3>1, <3>2, HeadTailProperties, BoundsAssumption
  <2>2. c.queue \in SoundQueues /\ c.order \in Orders /\ c.fp \in Fingerprints
    BY <2>1 DEF SoundCall, Call
  <2>3. q \in SoundQueues
    BY <2>2, EnqueueIsSound
  <2>4. queue' \in SoundQueues
    BY <1>2, <2>3 DEF WriteQueue, Sound
  <2>5. tabs' \in [Tabs -> [Orders -> [dispatched : 0 .. MaxRev, queued : 0 .. MaxRev]]]
    <3>1. CASE s \in Tabs /\ c.fp # Cancel
      <4>1. tabs[s][c.order] \in [dispatched : 0 .. MaxRev, queued : 0 .. MaxRev]
        BY <2>2, <3>1 DEF Sound
      <4>2. [tabs[s][c.order] EXCEPT !.queued = c.fp] \in [dispatched : 0 .. MaxRev, queued : 0 .. MaxRev]
        BY <2>2, <4>1 DEF Fingerprints, Cancel
      <4>3. tabs' = [tabs EXCEPT ![s][c.order].queued = c.fp]
        BY <1>2, <3>1 DEF WriteQueue
      <4> QED BY <2>2, <4>2, <4>3 DEF Sound
    <3>2. CASE ~(s \in Tabs /\ c.fp # Cancel)
      BY <1>2, <3>2 DEF WriteQueue, Sound
    <3> QED BY <3>1, <3>2
  <2>6. calls' \in [Senders -> Seq(SoundCall)] /\ \A r \in Senders : Len(calls'[r]) <= MaxCalls
    BY <1>2, <2>1 DEF WriteQueue, Sound
  <2>7. overwritten' \subseteq Orders /\ forgotten' \subseteq Orders
    BY <1>2 DEF WriteQueue, Overwritten, Missing, Sound
  <2> QED BY <1>2, <2>4, <2>5, <2>6, <2>7 DEF WriteQueue, Sound, bounds
<1> QED BY <1>1, <1>2 DEF Handler

\* What a run does with the items it selected.
Starts(w, jobs) ==
  LET q == runs[w].queue IN
  /\ runs' = [runs EXCEPT ![w] = IF jobs = {} THEN IdleRun
        ELSE [IdleRun EXCEPT !.at = "posting",
                             !.items = [o \in Orders |-> IF o \in jobs THEN q[o] ELSE NoItem]]]
  /\ requests' = requests \union
       {[sent |-> faults, run |-> w, order |-> o, action |-> q[o].action, fp |-> q[o].fp,
         step |-> "arrived", waits |-> TRUE] : o \in jobs}

LEMMA SelectStarts ==
  ASSUME NEW w \in Runs, RunSelect(w)
  PROVE  \E jobs \in Slots(SelectDispatchJobs(runs[w].queue)) : Starts(w, jobs)
BY DEF RunSelect, Starts

LEMMA SlotsSelect ==
  ASSUME NEW ready, NEW jobs \in Slots(ready) PROVE jobs \subseteq ready
BY DEF Slots

LEMMA JobsAreLive ==
  ASSUME NEW q \in SoundQueues, NEW o \in SelectDispatchJobs(q)
  PROVE  o \in Orders /\ o \notin InFlight /\ q[o] \in LiveItem
BY DEF SelectDispatchJobs, SoundQueues, LiveItem

LEMMA WorkerSound ==
  ASSUME Sound, NEW w \in Runs, Worker(w) PROVE Sound'
<1>0. runs[w] \in SoundRun /\ queue \in SoundQueues /\ queue \in Queues /\ runs[w] \in Run
  BY SoundTypes DEF Sound
<1>1. ASSUME RunRead(w) PROVE Sound'
  <2>1. [runs[w] EXCEPT !.at = "selecting", !.queue = queue] \in SoundRun
    <3>1. [runs[w] EXCEPT !.at = "selecting", !.queue = queue] \in Run
      BY <1>0 DEF Run
    <3> QED BY <1>0, <3>1 DEF SoundRun, Run
  <2>2. runs' \in [Runs -> SoundRun]
    BY <1>1, <2>1 DEF RunRead, Sound
  <2> QED BY <1>1, <2>2 DEF RunRead, Sound, bounds, history
<1>2. ASSUME RunSelect(w) PROVE Sound'
  <2> DEFINE q == runs[w].queue
  <2>0. PICK jobs \in Slots(SelectDispatchJobs(q)) : Starts(w, jobs)
    BY <1>2, SelectStarts
  <2> DEFINE items == [o \in Orders |-> IF o \in jobs THEN q[o] ELSE NoItem]
             run == [IdleRun EXCEPT !.at = "posting", !.items = items]
  <2>1. q \in SoundQueues /\ jobs \subseteq SelectDispatchJobs(q)
    BY <1>0, SlotsSelect DEF SoundRun
  <2>2. items \in LiveQueues /\ items \in Queues
    <3>1. items \in LiveQueues
      BY <2>1, JobsAreLive DEF LiveQueues
    <3> QED BY <3>1, SoundTypes
  <2>3. run \in SoundRun
    <3> HIDE DEF items
    <3>1. run \in Run
      BY <2>2, IdleRunIsSound DEF SoundRun, Run
    <3> QED BY <2>2, <3>1, IdleRunIsSound DEF SoundRun, Run
  <2>4. runs' \in [Runs -> SoundRun]
    <3>1. runs' = [runs EXCEPT ![w] = IF jobs = {} THEN IdleRun ELSE run]
      BY <2>0 DEF Starts
    <3> HIDE DEF run
    <3> QED BY <2>3, <3>1, IdleRunIsSound DEF Sound
  <2>5. ASSUME NEW o \in jobs
        PROVE  [sent |-> faults, run |-> w, order |-> o, action |-> q[o].action, fp |-> q[o].fp,
                step |-> "arrived", waits |-> TRUE] \in SoundRequest
    <3>1. o \in Orders /\ q[o] \in SoundItem
      BY <2>1, JobsAreLive, SoundTypes
    <3>2. /\ q[o].action \in Actions /\ q[o].fp \in Fingerprints
          /\ q[o].action = "cancel" \/ q[o].fp # Cancel
      BY <3>1 DEF SoundItem, Item
    <3>3. faults \in 0 .. MaxFaults
      BY DEF Sound
    <3> HIDE DEF q
    <3>4. [sent |-> faults, run |-> w, order |-> o, action |-> q[o].action, fp |-> q[o].fp,
           step |-> "arrived", waits |-> TRUE] \in Request
      BY <3>1, <3>2, <3>3 DEF Request
    <3> QED BY <3>2, <3>4 DEF SoundRequest
  <2>6. requests' \subseteq SoundRequest
    <3>1. requests' = requests \union
            {[sent |-> faults, run |-> w, order |-> o, action |-> q[o].action, fp |-> q[o].fp,
              step |-> "arrived", waits |-> TRUE] : o \in jobs}
      BY <2>0 DEF Starts
    <3> HIDE DEF q
    <3> QED BY <2>5, <3>1 DEF Sound
  <2> QED BY <1>2, <2>4, <2>6 DEF RunSelect, Sound, bounds, history
<1>3. ASSUME RunSettle(w) PROVE Sound'
  <2>1. [runs[w] EXCEPT !.at = "merging", !.queue = queue, !.relayed = relayed] \in SoundRun
    <3>1. relayed \in [Orders -> {Never} \union Fingerprints]
      BY DEF Sound
    <3>2. [runs[w] EXCEPT !.at = "merging", !.queue = queue, !.relayed = relayed] \in Run
      BY <1>0, <3>1 DEF Run
    <3> QED BY <1>0, <3>2 DEF SoundRun, Run
  <2>2. runs' \in [Runs -> SoundRun]
    BY <1>3, <2>1 DEF RunSettle, Sound
  <2> QED BY <1>3, <2>2 DEF RunSettle, Sound, bounds, history
<1>4. ASSUME RunMerge(w) PROVE Sound'
  <2>1. /\ runs[w].items \in LiveQueues /\ runs[w].out \in [Orders -> Outcomes]
        /\ runs[w].queue \in SoundQueues /\ runs[w].relayed \in [Orders -> {Never} \union Fingerprints]
    BY <1>0 DEF SoundRun, Run
  <2>2. ASSUME NEW o \in Orders
        PROVE  (IF runs[w].items[o] = NoItem THEN runs[w].queue[o]
                ELSE ApplyDispatchOutcome(runs[w].items[o], runs[w].out[o]))
                 \in SoundItem \union {NoItem}
    BY <2>1, OutcomeIsSound DEF LiveQueues, SoundQueues
  <2>3. queue' \in SoundQueues
    BY <1>4, <2>2 DEF RunMerge, SoundQueues
  <2>4. ASSUME NEW o \in Orders
        PROVE  (IF runs[w].items[o] # NoItem /\ runs[w].out[o] = "ok"
                  THEN runs[w].items[o].fp ELSE runs[w].relayed[o]) \in {Never} \union Fingerprints
    <3>1. runs[w].items[o] # NoItem => runs[w].items[o].fp \in Fingerprints
      BY <2>1 DEF LiveQueues, LiveItem, SoundItem, Item
    <3> QED BY <2>1, <3>1
  <2>5. relayed' \in [Orders -> {Never} \union Fingerprints]
    BY <1>4, <2>4 DEF RunMerge
  <2>6. runs' \in [Runs -> SoundRun]
    BY <1>4, IdleRunIsSound DEF RunMerge, Sound
  <2>7. overwritten' \subseteq Orders /\ forgotten' \subseteq Orders
    BY <1>4 DEF RunMerge, Overwritten, Forgotten, Missing, Sound
  <2> QED BY <1>4, <2>3, <2>5, <2>6, <2>7 DEF RunMerge, Sound, bounds
<1> QED BY <1>1, <1>2, <1>3, <1>4 DEF Worker

LEMMA RunOutSound ==
  ASSUME Sound, NEW w \in Runs, NEW o \in Orders, NEW out \in Outcomes
  PROVE  [runs EXCEPT ![w].out[o] = out] \in [Runs -> SoundRun]
<1> DEFINE r == [runs[w] EXCEPT !.out = [runs[w].out EXCEPT ![o] = out]]
<1>1. runs[w] \in SoundRun /\ runs[w] \in Run
  BY SoundTypes DEF Sound
<1>2. [runs[w].out EXCEPT ![o] = out] \in [Orders -> Outcomes]
  BY <1>1 DEF Run
<1>3. r \in Run
  BY <1>1, <1>2 DEF Run
<1>4. r \in SoundRun
  BY <1>1, <1>3 DEF SoundRun, Run
<1>5. [runs EXCEPT ![w].out[o] = out] = [runs EXCEPT ![w] = r]
  OBVIOUS
<1> QED BY <1>4, <1>5 DEF Sound

LEMMA TimeOutSound ==
  ASSUME Sound, NEW w \in Runs, NEW o \in Orders, TimeOut(w, o) PROVE Sound'
<1>1. runs' \in [Runs -> SoundRun]
  BY RunOutSound DEF TimeOut, Outcomes
<1>2. faults' \in 0 .. MaxFaults
  BY BoundsAssumption DEF TimeOut, Fault, Sound
<1>3. ASSUME NEW q \in requests PROVE [q EXCEPT !.waits = FALSE] \in SoundRequest
  BY DEF Sound, SoundRequest, Request
<1>4. requests' \subseteq SoundRequest
  BY <1>3 DEF TimeOut, Sound
<1> QED BY <1>1, <1>2, <1>4 DEF TimeOut, Sound, history

LEMMA WorkerDiesSound ==
  ASSUME Sound, WorkerDies PROVE Sound'
<1>1. runs' \in [Runs -> SoundRun]
  BY IdleRunIsSound DEF WorkerDies
<1>2. faults' \in 0 .. MaxFaults
  BY BoundsAssumption DEF WorkerDies, Fault, Sound
<1>3. ASSUME NEW q \in requests PROVE [q EXCEPT !.waits = FALSE] \in SoundRequest
  BY DEF Sound, SoundRequest, Request
<1>4. requests' \subseteq SoundRequest
  BY <1>3 DEF WorkerDies
<1>5. calls' \in [Senders -> Seq(SoundCall)] /\ \A r \in Senders : Len(calls'[r]) <= MaxCalls
  BY EmptySeq, BoundsAssumption DEF WorkerDies
<1>6. ASSUME NEW t \in Tabs, NEW o \in Orders
      PROVE  (IF Unanswered(t, o) THEN [tabs[t][o] EXCEPT !.dispatched = 0] ELSE tabs[t][o])
                \in [dispatched : 0 .. MaxRev, queued : 0 .. MaxRev]
  <2>1. tabs[t][o] \in [dispatched : 0 .. MaxRev, queued : 0 .. MaxRev]
    BY DEF Sound
  <2> QED BY <2>1, BoundsAssumption
<1>7. tabs' \in [Tabs -> [Orders -> [dispatched : 0 .. MaxRev, queued : 0 .. MaxRev]]]
  BY <1>6 DEF WorkerDies
<1> QED BY <1>1, <1>2, <1>4, <1>5, <1>7 DEF WorkerDies, Sound, history

LEMMA AnswerSound ==
  ASSUME Sound, NEW q \in requests, NEW out \in Outcomes, Answer(q, out)
  PROVE  runs' \in [Runs -> SoundRun] /\ requests' \subseteq SoundRequest
<1>1. q.run \in Runs /\ q.order \in Orders
  BY DEF Sound, SoundRequest, Request
<1>2. runs' = runs \/ runs' = [runs EXCEPT ![q.run].out[q.order] = out]
  BY DEF Answer
<1>3. [runs EXCEPT ![q.run].out[q.order] = out] \in [Runs -> SoundRun]
  BY <1>1, RunOutSound
<1> QED BY <1>2, <1>3 DEF Answer, Sound

\* What a step of the server does to the POS and to the run that waits for it.
LEMMA ServerSteps ==
  ASSUME Sound, NEW q \in requests, Server(q) \/ Refuse(q)
  PROVE  /\ UNCHANGED <<grab, tabs, calls, queue, relayed, presses, history>>
         /\ faults' \in 0 .. MaxFaults
         /\ \/ \E out \in Outcomes : Answer(q, out)
            \/ UNCHANGED runs /\ requests' \subseteq SoundRequest
         /\ \/ UNCHANGED pos
            \/ /\ pos[q.order].rev = 0 /\ q.fp # 0 /\ q.order \in Orders /\ q.fp \in 0 .. MaxRev
               /\ pos' = [pos EXCEPT ![q.order] = [rev |-> q.fp, status |-> "open"]]
            \/ /\ pos[q.order].status # "paid" /\ q.fp # 0 /\ q.order \in Orders /\ q.fp \in 0 .. MaxRev
               /\ pos' = [pos EXCEPT ![q.order].rev = q.fp]
            \/ /\ pos[q.order].status # "paid" /\ q.order \in Orders
               /\ pos' = [pos EXCEPT ![q.order].status = "cancelled"]
<1>0. /\ q \in Request /\ q.order \in Orders /\ q.fp \in 0 .. MaxRev /\ q.action \in Actions
      /\ q.action = "cancel" \/ q.fp # 0
      /\ q.step \in {"create", "amend"} => q.action # "cancel"
      /\ faults \in 0 .. MaxFaults
  BY DEF Sound, SoundRequest, Request, Fingerprints, Cancel
<1>1. CASE Decide(q)
  <2>1. ASSUME NEW step \in {"create", "amend", "cancel"}, step # "cancel" => q.action # "cancel",
               GoOn(q, step)
        PROVE  UNCHANGED runs /\ requests' \subseteq SoundRequest
    <3>1. [q EXCEPT !.step = step] \in SoundRequest
      BY <1>0, <2>1 DEF SoundRequest, Request, Actions, Cancel
    <3> QED BY <2>1, <3>1 DEF GoOn, Sound
  <2>2. \/ Answer(q, "ok") \/ Answer(q, "terminal")
        \/ q.action # "cancel" /\ GoOn(q, "create")
        \/ q.action # "create" /\ GoOn(q, q.action)
    BY <1>1 DEF Decide
  <2>3. \/ \E out \in Outcomes : Answer(q, out)
        \/ UNCHANGED runs /\ requests' \subseteq SoundRequest
    <3>1. CASE Answer(q, "ok") \/ Answer(q, "terminal")
      <4>1. \E out \in Outcomes : Answer(q, out)
        BY <3>1 DEF Outcomes, Answer
      <4> QED BY <4>1
    <3>2. CASE q.action # "cancel" /\ GoOn(q, "create")
      BY <2>1, <3>2
    <3>3. CASE q.action # "create" /\ GoOn(q, q.action)
      <4>1. q.action \in {"amend", "cancel"}
        BY <1>0, <3>3 DEF Actions
      <4> QED BY <2>1, <3>3, <4>1
    <3> QED BY <2>2, <3>1, <3>2, <3>3
  <2> QED BY <1>0, <1>1, <2>3 DEF Decide, bounds
<1>2. CASE CreateOrder(q)
  <2>1. q.fp # 0 /\ Answer(q, "ok")
    BY <1>0, <1>2 DEF CreateOrder
  <2> QED BY <1>0, <1>2, <2>1 DEF CreateOrder, Outcomes, bounds
<1>3. CASE ApplyRevision(q)
  <2>1. q.fp # 0 /\ \E out \in {"ok", "terminal"} : Answer(q, out)
    BY <1>0, <1>3 DEF ApplyRevision
  <2> QED BY <1>0, <1>3, <2>1 DEF ApplyRevision, PaidOrTerminal, Outcomes, bounds
<1>4. CASE CancelOrder(q)
  <2>1. \E out \in {"ok", "terminal"} : Answer(q, out)
    BY <1>4 DEF CancelOrder
  <2>2. \/ UNCHANGED pos
        \/ pos[q.order].status # "paid" /\ pos' = [pos EXCEPT ![q.order].status = "cancelled"]
    BY <1>4 DEF CancelOrder
  <2> QED BY <1>0, <1>4, <2>1, <2>2 DEF CancelOrder, Outcomes, bounds
<1>5. CASE Refuse(q)
  <2>1. faults' \in 0 .. MaxFaults
    BY <1>5, BoundsAssumption DEF Refuse, Fault, Sound
  <2> QED BY <1>5, <2>1 DEF Refuse, Outcomes
<1> QED BY <1>1, <1>2, <1>3, <1>4, <1>5 DEF Server

LEMMA PosSound ==
  ASSUME Sound, NEW o \in Orders, NEW n \in 0 .. MaxRev,
         \/ UNCHANGED pos
         \/ n # 0 /\ pos' = [pos EXCEPT ![o] = [rev |-> n, status |-> "open"]]
         \/ n # 0 /\ pos' = [pos EXCEPT ![o].rev = n]
         \/ pos' = [pos EXCEPT ![o].status = "cancelled"]
         \/ pos[o].status = "open" /\ pos' = [pos EXCEPT ![o].status = "paid"]
  PROVE  pos' \in [Orders -> SoundPos]
<1>1. pos[o] \in SoundPos /\ pos \in [Orders -> SoundPos]
  BY DEF Sound
<1>2. n # 0 => /\ [rev |-> n, status |-> "open"] \in SoundPos
               /\ [pos[o] EXCEPT !.rev = n] \in SoundPos
  BY <1>1 DEF SoundPos
<1>3. [pos[o] EXCEPT !.status = "cancelled"] \in SoundPos
  BY <1>1 DEF SoundPos
<1>4. pos[o].status = "open" => [pos[o] EXCEPT !.status = "paid"] \in SoundPos
  BY <1>1 DEF SoundPos
<1> QED BY <1>1, <1>2, <1>3, <1>4

LEMMA ServerSound ==
  ASSUME Sound, NEW q \in requests, Server(q) \/ Refuse(q) PROVE Sound'
<1>1. q.order \in Orders /\ q.fp \in 0 .. MaxRev
  BY DEF Sound, SoundRequest, Request, Fingerprints, Cancel
<1>2. pos' \in [Orders -> SoundPos]
  BY <1>1, ServerSteps, PosSound
<1>3. runs' \in [Runs -> SoundRun] /\ requests' \subseteq SoundRequest
  <2>1. CASE \E out \in Outcomes : Answer(q, out)
    BY <2>1, AnswerSound
  <2>2. CASE UNCHANGED runs /\ requests' \subseteq SoundRequest
    BY <2>2 DEF Sound
  <2> QED BY <2>1, <2>2, ServerSteps
<1> QED BY <1>2, <1>3, ServerSteps DEF Sound, history

\* An item that comes due stays the item it is, in the queue and in every snapshot.
LEMMA RipeHolds ==
  ASSUME Sound, NEW o \in Orders, queue[o] # NoItem, NEW q \in SoundQueues
  PROVE  /\ Ripe(q, o) \in SoundQueues
         /\ \A x \in Orders : /\ Ripe(q, o)[x] = NoItem <=> q[x] = NoItem
                             /\ Ripe(q, o)[x].action = q[x].action
<1> DEFINE y == [queue[o] EXCEPT !.due = TRUE]
<1>1. queue[o] \in SoundItem
  BY DEF Sound, SoundQueues
<1>2. y \in SoundItem /\ y.action = queue[o].action
  BY <1>1 DEF SoundItem, Item
<1>3. y # NoItem
  BY <1>2, NoItemIsNone
<1>4. CASE q[o] = queue[o]
  <2>1. Ripe(q, o) = [q EXCEPT ![o] = y]
    BY <1>4 DEF Ripe
  <2> HIDE DEF y
  <2> QED BY <1>2, <1>3, <1>4, <2>1 DEF SoundQueues
<1>5. CASE q[o] # queue[o]
  BY <1>5 DEF Ripe
<1> QED BY <1>4, <1>5

LEMMA RipeCopies ==
  ASSUME Sound, NEW o \in Orders, BackoffEnds(o)
  PROVE  /\ calls' \in [Senders -> Seq(SoundCall)] /\ \A s \in Senders : Len(calls'[s]) <= MaxCalls
         /\ \A s \in Senders :
              /\ DOMAIN calls'[s] = DOMAIN calls[s]
              /\ \A i \in DOMAIN calls[s] :
                   /\ calls[s][i].queue \in SoundQueues
                   /\ calls'[s][i].order = calls[s][i].order /\ calls'[s][i].fp = calls[s][i].fp
                   /\ calls'[s][i].queue = Ripe(calls[s][i].queue, o)
         /\ runs' \in [Runs -> SoundRun]
         /\ \A w \in Runs :
              /\ runs[w].queue \in SoundQueues /\ runs'[w].queue = Ripe(runs[w].queue, o)
              /\ runs'[w].at = runs[w].at /\ runs'[w].items = runs[w].items
              /\ runs'[w].out = runs[w].out /\ runs'[w].relayed = runs[w].relayed
<1>0. queue[o] # NoItem
  BY DEF BackoffEnds
<1> DEFINE C(c) == [c EXCEPT !.queue = Ripe(c.queue, o)]
           R(r) == [r EXCEPT !.queue = Ripe(r.queue, o)]
<1>1. ASSUME NEW c \in SoundCall
      PROVE  /\ C(c) \in SoundCall /\ c.queue \in SoundQueues
             /\ C(c).order = c.order /\ C(c).fp = c.fp /\ C(c).queue = Ripe(c.queue, o)
  <2>1. c \in Call /\ c.queue \in SoundQueues
    BY DEF SoundCall
  <2>2. Ripe(c.queue, o) \in SoundQueues /\ Ripe(c.queue, o) \in Queues
    BY <1>0, <2>1, RipeHolds, SoundTypes
  <2>3. C(c) \in Call /\ C(c).queue = Ripe(c.queue, o)
    BY <2>1, <2>2 DEF Call
  <2> QED BY <2>1, <2>2, <2>3 DEF SoundCall, Call
<1>2. ASSUME NEW r \in SoundRun
      PROVE  /\ R(r) \in SoundRun /\ r.queue \in SoundQueues /\ R(r).queue = Ripe(r.queue, o)
             /\ R(r).at = r.at /\ R(r).items = r.items /\ R(r).out = r.out /\ R(r).relayed = r.relayed
  <2>1. r \in Run /\ r.queue \in SoundQueues /\ r.items \in LiveQueues
    BY DEF SoundRun
  <2>2. Ripe(r.queue, o) \in SoundQueues /\ Ripe(r.queue, o) \in Queues
    BY <1>0, <2>1, RipeHolds, SoundTypes
  <2>3. R(r) \in Run /\ R(r).queue = Ripe(r.queue, o) /\ R(r).items = r.items
    BY <2>1, <2>2 DEF Run
  <2> QED BY <2>1, <2>2, <2>3 DEF SoundRun, Run
<1>3. /\ calls' = [s \in Senders |-> [i \in DOMAIN calls[s] |-> C(calls[s][i])]]
      /\ runs' = [w \in Runs |-> R(runs[w])]
  BY DEF BackoffEnds
<1> HIDE DEF C, R
<1>4. ASSUME NEW s \in Senders
      PROVE  /\ calls'[s] = [i \in DOMAIN calls[s] |-> C(calls[s][i])]
             /\ \A i \in DOMAIN calls[s] : calls[s][i] \in SoundCall
             /\ calls'[s] \in Seq(SoundCall) /\ Len(calls'[s]) <= MaxCalls
  <2>1. calls[s] \in Seq(SoundCall) /\ Len(calls[s]) <= MaxCalls
    BY DEF Sound
  <2>2. /\ Len(calls[s]) \in Nat /\ DOMAIN calls[s] = 1 .. Len(calls[s])
        /\ \A i \in DOMAIN calls[s] : calls[s][i] \in SoundCall
    BY <2>1, LenProperties, ElementOfSeq
  <2>3. calls'[s] = [i \in 1 .. Len(calls[s]) |-> C(calls[s][i])]
    BY <1>3, <2>2
  <2>4. \A i \in 1 .. Len(calls[s]) : C(calls[s][i]) \in SoundCall
    BY <1>1, <2>2
  <2>5. calls'[s] \in Seq(SoundCall) /\ Len(calls'[s]) = Len(calls[s])
    BY <2>2, <2>3, <2>4, IsASeq
  <2> QED BY <2>1, <2>2, <2>3, <2>5
<1>5. calls' \in [Senders -> Seq(SoundCall)]
  BY <1>3, <1>4
<1>6. \A w \in Runs : runs[w] \in SoundRun /\ runs'[w] = R(runs[w])
  BY <1>3 DEF Sound
<1>7. runs' \in [Runs -> SoundRun]
  BY <1>2, <1>3, <1>6
<1> QED BY <1>1, <1>2, <1>4, <1>5, <1>6, <1>7

LEMMA SoundNext ==
  ASSUME Sound, [Next]_vars PROVE Sound'
<1>1. ASSUME NEW o \in Orders, BackoffEnds(o) PROVE Sound'
  <2>1. queue' \in SoundQueues
    BY <1>1, RipeHolds DEF BackoffEnds, Sound
  <2> QED BY <1>1, <2>1, RipeCopies DEF BackoffEnds, Sound, bounds, history
<1>2. ASSUME NEW o \in Orders, Pay(o) PROVE Sound'
  <2>1. 0 \in 0 .. MaxRev
    BY BoundsAssumption
  <2>2. pos' \in [Orders -> SoundPos]
    BY <1>2, <2>1, PosSound DEF Pay
  <2> QED BY <1>2, <2>2 DEF Pay, Sound, bounds, history
<1>3. CASE UNCHANGED vars
  BY <1>3 DEF vars, history, Sound
<1> QED BY <1>1, <1>2, <1>3, PortalSound, TabsSound, HandlerSound, WorkerSound, TimeOutSound,
           WorkerDiesSound, ServerSound DEF Next

LEMMA SoundInit == Init => Sound
<1> SUFFICES ASSUME Init PROVE Sound
  OBVIOUS
<1>1. queue \in SoundQueues /\ runs \in [Runs -> SoundRun]
  BY NoQueueIsSound, IdleRunIsSound DEF Init
<1>2. calls \in [Senders -> Seq(SoundCall)] /\ \A s \in Senders : Len(calls[s]) <= MaxCalls
  BY EmptySeq, BoundsAssumption DEF Init
<1>3. pos \in [Orders -> SoundPos]
  BY BoundsAssumption DEF Init, SoundPos
<1>4. /\ grab \in [Orders -> SoundGrab]
      /\ tabs \in [Tabs -> [Orders -> [dispatched : 0 .. MaxRev, queued : 0 .. MaxRev]]]
  BY BoundsAssumption DEF Init, SoundGrab
<1>5. relayed \in [Orders -> {Never} \union Fingerprints]
  BY DEF Init, NoneRelayed
<1> QED BY <1>1, <1>2, <1>3, <1>4, <1>5, BoundsAssumption DEF Init, Sound

-----------------------------------------------------------------------------
(* The theorems.                                                           *)

\* Every reachable state of the extension and of the server is typed, an item that
\* counts its attempts and a snapshot of the queue included.
THEOREM TypeCorrect == Spec => []TypeOK
<1>1. Sound /\ [Next]_vars => Sound'
  BY SoundNext
<1> QED BY <1>1, SoundInit, SoundIsTyped, PTL DEF Spec

\* Once the cashier has taken the money, no revision or cancellation that is still
\* on its way changes the order, nor does a create that comes late.
THEOREM PaidIsFinalHolds == Spec => PaidIsFinal
<1>1. Sound /\ [Next]_vars => [\A o \in Orders : pos[o].status = "paid" => pos'[o] = pos[o]]_vars
  <2> SUFFICES ASSUME Sound, Next, NEW o \in Orders, pos[o].status = "paid"
               PROVE  pos'[o] = pos[o]
    OBVIOUS
  <2>1. pos[o] \in SoundPos
    BY DEF Sound
  <2>2. pos[o].rev # 0
    BY <2>1 DEF SoundPos
  <2>3. ASSUME NEW q \in requests, Server(q) \/ Refuse(q) PROVE pos'[o] = pos[o]
    BY <2>2, <2>3, ServerSteps DEF Sound
  <2>4. ASSUME NEW x \in Orders, Pay(x) PROVE pos'[o] = pos[o]
    BY <2>4 DEF Pay, Sound
  <2>5. ASSUME NEW w \in Runs, Worker(w) \/ \E x \in Orders : TimeOut(w, x) PROVE UNCHANGED pos
    BY <2>5 DEF Worker, RunRead, RunSelect, RunSettle, RunMerge, TimeOut
  <2>6. ASSUME \/ Portal \/ WorkerDies
               \/ \E t \in Tabs, x \in Orders : Tab(t, x)
               \/ \E t \in Tabs : Reload(t)
               \/ \E s \in Senders : Handler(s)
               \/ \E x \in Orders : RetryQueuedOrder(x) \/ BackoffEnds(x)
        PROVE  UNCHANGED pos
    BY <2>6 DEF Portal, WorkerDies, Tab, DispatchDetail, DispatchCancel, Reload, Handler,
                ReadQueue, WriteQueue, RetryQueuedOrder, BackoffEnds
  <2> QED BY <2>3, <2>4, <2>5, <2>6 DEF Next
<1>2. Sound /\ [Next]_vars => Sound'
  BY SoundNext
<1> QED BY <1>1, <1>2, SoundInit, PTL DEF Spec, PaidIsFinal

-----------------------------------------------------------------------------
(* One flight per order.                                                   *)

Flies(w, o) == runs[w].at \in {"posting", "merging"} /\ runs[w].items[o] # NoItem
OneFlight == \A v, w \in Runs : \A o \in Orders : Flies(v, o) /\ Flies(w, o) => v = w

\* A step after which a run carries only what it carried keeps it.
LEMMA FlightStep ==
  ASSUME OneFlight,
         \A w \in Runs, o \in Orders :
           runs'[w].at \in {"posting", "merging"} /\ runs'[w].items[o] # NoItem => Flies(w, o)
  PROVE  OneFlight'
BY DEF OneFlight, Flies

LEMMA OutFlies ==
  ASSUME Sound, OneFlight, NEW w \in Runs, NEW o \in Orders, NEW out,
         runs' = [runs EXCEPT ![w].out[o] = out]
  PROVE  OneFlight'
<1>1. \A v \in Runs : runs'[v].at = runs[v].at /\ runs'[v].items = runs[v].items
  BY DEF Sound, SoundRun, Run
<1> QED BY <1>1, FlightStep DEF Flies

LEMMA FlightNext ==
  ASSUME Sound, OneFlight, [Next]_vars PROVE OneFlight'
<1>1. ASSUME UNCHANGED runs PROVE OneFlight'
  BY <1>1, FlightStep DEF Flies
<1>2. ASSUME NEW w \in Runs, \A v \in Runs \ {w} : runs'[v] = runs[v],
             \/ runs'[w].at \in {"idle", "selecting"}
             \/ runs[w].at = "posting" /\ runs'[w].items = runs[w].items
      PROVE  OneFlight'
  BY <1>2, FlightStep DEF Flies
<1>3. ASSUME NEW w \in Runs, Worker(w) PROVE OneFlight'
  <2>0. runs[w] \in Run /\ IdleRun.at = "idle"
    BY SoundTypes DEF Sound, IdleRun
  <2>1. CASE RunRead(w)
    <3> DEFINE r == [runs[w] EXCEPT !.at = "selecting", !.queue = queue]
    <3>1. r.at = "selecting" /\ runs' = [runs EXCEPT ![w] = r]
      BY <2>0, <2>1 DEF RunRead, Run
    <3> HIDE DEF r
    <3>2. runs'[w] = r /\ \A v \in Runs \ {w} : runs'[v] = runs[v]
      BY <3>1 DEF Sound
    <3> QED BY <1>2, <3>1, <3>2
  <2>2. CASE RunSelect(w)
    <3>0. PICK jobs \in Slots(SelectDispatchJobs(runs[w].queue)) : Starts(w, jobs)
      BY <2>2, SelectStarts
    <3> DEFINE items == [o \in Orders |-> IF o \in jobs THEN runs[w].queue[o] ELSE NoItem]
               run == [IdleRun EXCEPT !.at = "posting", !.items = items]
    <3>1. runs' = [runs EXCEPT ![w] = IF jobs = {} THEN IdleRun ELSE run]
      BY <3>0 DEF Starts
    <3>2. CASE jobs = {}
      <4>1. runs'[w] = IdleRun /\ \A v \in Runs \ {w} : runs'[v] = runs[v]
        BY <3>1, <3>2 DEF Sound
      <4> QED BY <1>2, <2>0, <4>1
    <3>3. CASE jobs # {}
      <4>1. run.items = items /\ runs' = [runs EXCEPT ![w] = run]
        BY <3>1, <3>3 DEF IdleRun
      <4>2. \A o \in Orders : items[o] # NoItem => o \notin InFlight
        BY SlotsSelect DEF SelectDispatchJobs
      <4>3. runs'[w].items = items /\ \A v \in Runs \ {w} : runs'[v] = runs[v]
        <5> HIDE DEF run
        <5> QED BY <4>1 DEF Sound
      <4>4. \A v \in Runs, o \in Orders : Flies(v, o) => o \in InFlight
        BY DEF Flies, InFlight
      <4> HIDE DEF items
      <4> QED BY <4>2, <4>3, <4>4 DEF OneFlight, Flies
    <3> QED BY <3>2, <3>3
  <2>3. CASE RunSettle(w)
    <3> DEFINE r == [runs[w] EXCEPT !.at = "merging", !.queue = queue, !.relayed = relayed]
    <3>1. /\ r.at = "merging" /\ r.items = runs[w].items /\ runs[w].at = "posting"
          /\ runs' = [runs EXCEPT ![w] = r]
      BY <2>0, <2>3 DEF RunSettle, Run
    <3> HIDE DEF r
    <3>2. runs'[w] = r /\ \A v \in Runs \ {w} : runs'[v] = runs[v]
      BY <3>1 DEF Sound
    <3> QED BY <1>2, <3>1, <3>2
  <2>4. CASE RunMerge(w)
    <3>1. runs'[w] = IdleRun /\ \A v \in Runs \ {w} : runs'[v] = runs[v]
      BY <2>4 DEF RunMerge, Sound
    <3> QED BY <1>2, <2>0, <3>1
  <2> QED BY <1>3, <2>1, <2>2, <2>3, <2>4 DEF Worker
<1>4. ASSUME NEW w \in Runs, NEW o \in Orders, TimeOut(w, o) PROVE OneFlight'
  BY <1>4, OutFlies DEF TimeOut
<1>5. ASSUME NEW q \in requests, Server(q) \/ Refuse(q) PROVE OneFlight'
  <2>1. q.run \in Runs /\ q.order \in Orders
    BY DEF Sound, SoundRequest, Request
  <2>2. ASSUME NEW out \in Outcomes, Answer(q, out) PROVE OneFlight'
    BY <1>1, <2>1, <2>2, OutFlies DEF Answer
  <2> QED BY <1>1, <1>5, <2>2, ServerSteps
<1>6. ASSUME WorkerDies PROVE OneFlight'
  <2>1. \A w \in Runs : runs'[w].at = "idle"
    BY <1>6 DEF WorkerDies, IdleRun
  <2> QED BY <2>1, FlightStep
<1>7. ASSUME \/ Portal \/ \E t \in Tabs, o \in Orders : Tab(t, o)
             \/ \E t \in Tabs : Reload(t)
             \/ \E s \in Senders : Handler(s)
             \/ \E o \in Orders : RetryQueuedOrder(o) \/ Pay(o)
             \/ UNCHANGED vars
      PROVE  UNCHANGED runs
  BY <1>7 DEF Portal, Tab, DispatchDetail, DispatchCancel, Reload, Handler, ReadQueue, WriteQueue,
              RetryQueuedOrder, Pay, vars
<1>8. ASSUME NEW o \in Orders, BackoffEnds(o) PROVE OneFlight'
  BY <1>8, RipeCopies, FlightStep DEF Flies
<1> QED BY <1>1, <1>3, <1>4, <1>5, <1>6, <1>7, <1>8 DEF Next

\* Two overlapping runs of one worker, each with a snapshot of its own, never post
\* the same order at the same time: the registry of orders in flight is read and
\* written without an await between.
THEOREM OneFlightHolds == Spec => []OneFlightPerOrder
<1>1. Init => Sound /\ OneFlight
  BY SoundInit DEF Init, OneFlight, Flies, IdleRun
<1>2. Sound /\ OneFlight /\ [Next]_vars => (Sound /\ OneFlight)'
  BY SoundNext, FlightNext
<1>3. OneFlight => OneFlightPerOrder
  BY DEF OneFlight, OneFlightPerOrder, Flies
<1> QED BY <1>1, <1>2, <1>3, PTL DEF Spec

-----------------------------------------------------------------------------
(* An order that is not on the POS was acknowledged to nobody.             *)

Plain(x) == x.action # "cancel"

UntoldCalls(o) ==
  \A s \in Senders : \A i \in DOMAIN calls[s] :
    (calls[s][i].order = o => calls[s][i].fp # Cancel) /\ Plain(calls[s][i].queue[o])
UntoldRuns(o) ==
  \A w \in Runs : /\ runs[w].relayed[o] = Never /\ runs[w].out[o] # "ok"
                  /\ Plain(runs[w].queue[o]) /\ Plain(runs[w].items[o])
UntoldRequests(o) == \A q \in requests : q.order = o => q.action # "cancel" /\ q.step # "cancel"

\* Nothing says that the order was relayed, or that it is to be cancelled.
Untold(o) ==
  /\ relayed[o] = Never /\ Plain(queue[o])
  /\ UntoldCalls(o) /\ UntoldRuns(o) /\ UntoldRequests(o)

Acked == \A o \in Orders : pos[o].rev = 0 => Untold(o)

LEMMA IdleIsUntold ==
  ASSUME NEW o \in Orders
  PROVE  /\ IdleRun.relayed[o] = Never /\ IdleRun.out[o] = "pending"
         /\ Plain(IdleRun.queue[o]) /\ Plain(IdleRun.items[o])
BY DEF IdleRun, NoneRelayed, NoQueue, NoItem, Plain

LEMMA CallsUntold ==
  ASSUME Sound, NEW o \in Orders, UntoldCalls(o),
         NEW s \in Senders, NEW x \in Orders, NEW fp \in Fingerprints, Send(s, x, fp),
         x = o => fp # Cancel
  PROVE  UntoldCalls(o)'
<1> DEFINE c == [order |-> x, fp |-> fp, at |-> "sent", queue |-> NoQueue]
<1>1. c \in SoundCall /\ (c.order = o => c.fp # Cancel) /\ Plain(c.queue[o])
  <2>1. c \in Call
    BY NoQueueIsSound, SoundTypes DEF Call
  <2>2. c \in SoundCall
    BY <2>1, NoQueueIsSound DEF SoundCall
  <2> QED BY <2>2 DEF Plain, NoQueue, NoItem
<1>2. calls[s] \in Seq(SoundCall) /\ calls' = [calls EXCEPT ![s] = Append(calls[s], c)]
  BY DEF Sound, Send
<1> HIDE DEF c
<1>3. /\ DOMAIN Append(calls[s], c) = 1 .. Len(calls[s]) + 1 /\ Len(calls[s]) \in Nat
      /\ DOMAIN calls[s] = 1 .. Len(calls[s])
      /\ Append(calls[s], c)[Len(calls[s]) + 1] = c
      /\ \A i \in 1 .. Len(calls[s]) : Append(calls[s], c)[i] = calls[s][i]
  BY <1>1, <1>2, AppendProperties, LenProperties
<1>4. ASSUME NEW r \in Senders, NEW i \in DOMAIN calls'[r]
      PROVE  (calls'[r][i].order = o => calls'[r][i].fp # Cancel) /\ Plain(calls'[r][i].queue[o])
  <2>1. CASE r = s
    <3>1. calls'[r] = Append(calls[s], c)
      BY <1>2, <2>1 DEF Sound
    <3>2. CASE i = Len(calls[s]) + 1
      BY <1>1, <1>3, <3>1, <3>2
    <3>3. CASE i \in DOMAIN calls[s]
      BY <1>3, <3>1, <3>3 DEF UntoldCalls
    <3> QED BY <1>3, <3>1, <3>2, <3>3
  <2>2. CASE r # s
    <3>1. calls'[r] = calls[r]
      BY <1>2, <2>2 DEF Sound
    <3> QED BY <3>1 DEF UntoldCalls
  <2> QED BY <2>1, <2>2
<1> QED BY <1>4 DEF UntoldCalls

LEMMA EnqueuePlain ==
  ASSUME NEW q \in SoundQueues, NEW x \in Orders, NEW fp \in Fingerprints, NEW o \in Orders,
         Plain(q[o]), x = o => fp # Cancel
  PROVE  Plain(EnqueueOrRevive(q, x, fp)[o])
<1>1. fp # Cancel => /\ Plain(Fresh(fp, IF fp = Cancel THEN "cancel" ELSE "create"))
                     /\ Plain(Fresh(fp, IF fp = Cancel THEN "cancel" ELSE "amend"))
  BY DEF Fresh, Plain
<1>2. \A y : [q EXCEPT ![x] = y][o] = IF x = o THEN y ELSE q[o]
  BY DEF SoundQueues
<1> QED BY <1>1, <1>2 DEF EnqueueOrRevive

LEMMA OutcomePlain ==
  ASSUME NEW x \in LiveItem, NEW out \in Outcomes, Plain(x)
  PROVE  Plain(ApplyDispatchOutcome(x, out))
BY DEF ApplyDispatchOutcome, Plain, NoItem, LiveItem, SoundItem, Item

LEMMA HandlerUntold ==
  ASSUME Sound, NEW o \in Orders, Untold(o), NEW s \in Senders, Handler(s) PROVE Untold(o)'
<1>0. calls[s] \in Seq(SoundCall) /\ UntoldCalls(o)
  BY DEF Sound, Untold
<1>1. ASSUME ReadQueue(s) PROVE Untold(o)'
  <2>1. PICK i \in DOMAIN calls[s] :
          calls' = [calls EXCEPT ![s][i].at = "read", ![s][i].queue = queue]
    BY <1>1 DEF ReadQueue
  <2> DEFINE c == [calls[s][i] EXCEPT !.at = "read", !.queue = queue]
             t == [calls[s] EXCEPT ![i] = c]
  <2>2. calls[s][i] \in Call
    BY <1>0, LenProperties, ElementOfSeq, SoundTypes
  <2>3. c.order = calls[s][i].order /\ c.fp = calls[s][i].fp /\ c.queue = queue
    BY <2>2 DEF Call
  <2>4. calls' = [calls EXCEPT ![s] = t]
    BY <2>1 DEF Sound
  <2> HIDE DEF c
  <2>5. DOMAIN t = DOMAIN calls[s] /\ t[i] = c /\ \A j \in DOMAIN t \ {i} : t[j] = calls[s][j]
    OBVIOUS
  <2> HIDE DEF t
  <2>6. calls'[s] = t /\ \A r \in Senders \ {s} : calls'[r] = calls[r]
    BY <2>4 DEF Sound
  <2>7. Plain(queue[o]) /\ (calls[s][i].order = o => calls[s][i].fp # Cancel)
    BY <1>0 DEF Untold, UntoldCalls
  <2>8. UntoldCalls(o)'
    BY <1>0, <2>3, <2>5, <2>6, <2>7 DEF UntoldCalls
  <2> QED BY <1>1, <2>8 DEF ReadQueue, Untold, UntoldRuns, UntoldRequests
<1>2. ASSUME WriteQueue(s) PROVE Untold(o)'
  <2> DEFINE c == Head(calls[s])
             q == EnqueueOrRevive(c.queue, c.order, c.fp)
  <2>1. calls[s] # <<>>
    BY <1>2 DEF WriteQueue
  <2>2. c \in SoundCall /\ c = calls[s][1] /\ 1 \in DOMAIN calls[s]
    BY <1>0, <2>1, HeadTailProperties, LenProperties, EmptySeq
  <2>3. c.queue \in SoundQueues /\ c.order \in Orders /\ c.fp \in Fingerprints
    BY <2>2 DEF SoundCall, Call
  <2>4. Plain(c.queue[o]) /\ (c.order = o => c.fp # Cancel)
    BY <1>0, <2>2 DEF UntoldCalls
  <2>5. Plain(q[o])
    <3> HIDE DEF c
    <3> QED BY <2>3, <2>4, EnqueuePlain
  <2>6. Plain(queue'[o])
    BY <1>2, <2>5 DEF WriteQueue, Untold
  <2>7. \A i \in DOMAIN Tail(calls[s]) : i + 1 \in DOMAIN calls[s] /\ Tail(calls[s])[i] = calls[s][i + 1]
    BY <1>0, <2>1, HeadTailProperties, LenProperties
  <2>8. calls'[s] = Tail(calls[s]) /\ \A r \in Senders \ {s} : calls'[r] = calls[r]
    BY <1>2 DEF WriteQueue, Sound
  <2>9. ASSUME NEW r \in Senders, NEW i \in DOMAIN calls'[r]
        PROVE  \E j \in DOMAIN calls[r] : calls'[r][i] = calls[r][j]
    BY <2>7, <2>8
  <2>10. UntoldCalls(o)'
    BY <1>0, <2>9 DEF UntoldCalls
  <2> QED BY <1>2, <2>6, <2>10 DEF WriteQueue, Untold, UntoldRuns, UntoldRequests
<1> QED BY <1>1, <1>2 DEF Handler

LEMMA WorkerUntold ==
  ASSUME Sound, NEW o \in Orders, Untold(o), NEW w \in Runs, Worker(w) PROVE Untold(o)'
<1>0. /\ runs[w] \in SoundRun /\ runs[w] \in Run /\ runs[w].out \in [Orders -> Outcomes]
      /\ runs[w].queue \in SoundQueues /\ runs[w].items \in LiveQueues
  BY SoundTypes DEF Sound, SoundRun, Run
\* A run becomes one that knows nothing of the order.
<1>1. ASSUME \A v \in Runs \ {w} : runs'[v] = runs[v],
             runs'[w].relayed[o] = Never, runs'[w].out[o] # "ok",
             Plain(runs'[w].queue[o]), Plain(runs'[w].items[o])
      PROVE  UntoldRuns(o)'
  BY <1>1 DEF Untold, UntoldRuns
<1>2. ASSUME RunRead(w) PROVE Untold(o)'
  <2> DEFINE r == [runs[w] EXCEPT !.at = "selecting", !.queue = queue]
  <2>1. /\ r.relayed = runs[w].relayed /\ r.out = runs[w].out
        /\ r.queue = queue /\ r.items = runs[w].items
    BY <1>0 DEF Run
  <2>2. runs' = [runs EXCEPT ![w] = r]
    BY <1>2 DEF RunRead
  <2> HIDE DEF r
  <2>3. runs'[w] = r /\ \A v \in Runs \ {w} : runs'[v] = runs[v]
    BY <2>2 DEF Sound
  <2>4. UntoldRuns(o)'
    BY <1>1, <2>1, <2>3 DEF Untold, UntoldRuns
  <2> QED BY <1>2, <2>4 DEF RunRead, Untold, UntoldCalls, UntoldRequests
<1>3. ASSUME RunSelect(w) PROVE Untold(o)'
  <2> DEFINE q == runs[w].queue
  <2>0. PICK jobs \in Slots(SelectDispatchJobs(q)) : Starts(w, jobs)
    BY <1>3, SelectStarts
  <2> DEFINE items == [x \in Orders |-> IF x \in jobs THEN q[x] ELSE NoItem]
             run == [IdleRun EXCEPT !.at = "posting", !.items = items]
  <2>1. Plain(q[o]) /\ Plain(items[o])
    BY DEF Untold, UntoldRuns, Plain, NoItem
  <2>2. run.relayed = IdleRun.relayed /\ run.out = IdleRun.out /\ run.queue = IdleRun.queue
        /\ run.items = items
    BY DEF IdleRun
  <2>3. runs' = [runs EXCEPT ![w] = IF jobs = {} THEN IdleRun ELSE run]
    BY <2>0 DEF Starts
  <2> HIDE DEF items, run
  <2>4. /\ runs'[w] = IdleRun \/ runs'[w] = run
        /\ \A v \in Runs \ {w} : runs'[v] = runs[v]
    BY <2>3 DEF Sound
  <2>5. UntoldRuns(o)'
    BY <1>1, <2>1, <2>2, <2>4, IdleIsUntold
  <2>6. UntoldRequests(o)'
    <3>1. ASSUME NEW r \in requests', r.order = o PROVE r.action # "cancel" /\ r.step # "cancel"
      <4>1. CASE r \in requests
        BY <3>1, <4>1 DEF Untold, UntoldRequests
      <4>2. ASSUME NEW x \in jobs,
                   r = [sent |-> faults, run |-> w, order |-> x, action |-> q[x].action,
                        fp |-> q[x].fp, step |-> "arrived", waits |-> TRUE]
            PROVE  r.action # "cancel" /\ r.step # "cancel"
        BY <2>1, <3>1, <4>2 DEF Plain
      <4> QED BY <2>0, <4>1, <4>2 DEF Starts
    <3> QED BY <3>1 DEF UntoldRequests
  <2> QED BY <1>3, <2>5, <2>6 DEF RunSelect, Untold, UntoldCalls
<1>4. ASSUME RunSettle(w) PROVE Untold(o)'
  <2> DEFINE r == [runs[w] EXCEPT !.at = "merging", !.queue = queue, !.relayed = relayed]
  <2>1. r.relayed = relayed /\ r.out = runs[w].out /\ r.queue = queue /\ r.items = runs[w].items
    BY <1>0 DEF Run
  <2>2. runs' = [runs EXCEPT ![w] = r]
    BY <1>4 DEF RunSettle
  <2> HIDE DEF r
  <2>3. runs'[w] = r /\ \A v \in Runs \ {w} : runs'[v] = runs[v]
    BY <2>2 DEF Sound
  <2>4. UntoldRuns(o)'
    BY <1>1, <2>1, <2>3 DEF Untold, UntoldRuns
  <2> QED BY <1>4, <2>4 DEF RunSettle, Untold, UntoldCalls, UntoldRequests
<1>5. ASSUME RunMerge(w) PROVE Untold(o)'
  <2>1. /\ runs[w].relayed[o] = Never /\ runs[w].out[o] # "ok"
        /\ Plain(runs[w].queue[o]) /\ Plain(runs[w].items[o])
    BY DEF Untold, UntoldRuns
  <2>2. relayed'[o] = Never
    BY <1>5, <2>1 DEF RunMerge
  <2>3. Plain(queue'[o])
    <3>1. CASE runs[w].items[o] = NoItem
      BY <1>5, <2>1, <3>1 DEF RunMerge
    <3>2. CASE runs[w].items[o] # NoItem
      <4>1. runs[w].items[o] \in LiveItem /\ runs[w].out[o] \in Outcomes
        BY <1>0, <3>2 DEF LiveQueues
      <4>2. queue'[o] = ApplyDispatchOutcome(runs[w].items[o], runs[w].out[o])
        BY <1>5, <3>2 DEF RunMerge
      <4> QED BY <2>1, <4>1, <4>2, OutcomePlain
    <3> QED BY <3>1, <3>2
  <2>4. runs'[w] = IdleRun /\ \A v \in Runs \ {w} : runs'[v] = runs[v]
    BY <1>5 DEF RunMerge, Sound
  <2>5. UntoldRuns(o)'
    BY <1>1, <2>4, IdleIsUntold
  <2> QED BY <1>5, <2>2, <2>3, <2>5 DEF RunMerge, Untold, UntoldCalls, UntoldRequests
<1> QED BY <1>2, <1>3, <1>4, <1>5 DEF Worker

\* An answer for another order, or one that is not ok, tells nothing of this one.
LEMMA OutUntold ==
  ASSUME Sound, NEW o \in Orders, UntoldRuns(o), NEW w \in Runs, NEW x \in Orders, NEW out,
         x = o => out # "ok", runs' = [runs EXCEPT ![w].out[x] = out]
  PROVE  UntoldRuns(o)'
<1> DEFINE f == [runs[w].out EXCEPT ![x] = out]
           r == [runs[w] EXCEPT !.out = f]
<1>1. runs[w] \in Run
  BY SoundTypes DEF Sound
<1>2. f[o] # "ok"
  BY <1>1 DEF Run, UntoldRuns
<1> HIDE DEF f
<1>3. r.out = f /\ r.relayed = runs[w].relayed /\ r.queue = runs[w].queue /\ r.items = runs[w].items
  BY <1>1 DEF Run
<1>4. runs' = [runs EXCEPT ![w] = r]
  BY DEF f
<1> HIDE DEF r
<1>5. runs'[w] = r /\ \A v \in Runs \ {w} : runs'[v] = runs[v]
  BY <1>4 DEF Sound
<1> QED BY <1>2, <1>3, <1>5 DEF UntoldRuns

LEMMA ServerUntold ==
  ASSUME Sound, NEW o \in Orders, Untold(o), NEW q \in requests, Server(q) \/ Refuse(q),
         pos[o].rev = 0, pos'[o].rev = 0
  PROVE  Untold(o)'
<1>0. /\ q \in SoundRequest /\ q \in Request /\ q.run \in Runs /\ q.order \in Orders
      /\ q.order = o => q.action # "cancel" /\ q.step # "cancel"
  BY SoundTypes DEF Sound, Untold, UntoldRequests, SoundRequest, Request
<1>1. UNCHANGED <<calls, queue, relayed>>
  BY ServerSteps
<1>2. ASSUME NEW out, Answer(q, out), q.order = o => out # "ok" PROVE Untold(o)'
  <2>1. UntoldRuns(o) /\ UntoldRequests(o)
    BY DEF Untold
  <2>2. UntoldRuns(o)'
    <3>1. CASE UNCHANGED runs
      BY <2>1, <3>1 DEF UntoldRuns
    <3>2. CASE runs' = [runs EXCEPT ![q.run].out[q.order] = out]
      BY <1>0, <1>2, <2>1, <3>2, OutUntold
    <3> QED BY <1>2, <3>1, <3>2 DEF Answer
  <2>3. UntoldRequests(o)'
    BY <1>2, <2>1 DEF Answer, UntoldRequests
  <2> QED BY <1>1, <2>2, <2>3 DEF Untold, UntoldCalls
<1>3. ASSUME NEW step, GoOn(q, step), q.order = o => step # "cancel" PROVE Untold(o)'
  <2>1. [q EXCEPT !.step = step].order = q.order /\ [q EXCEPT !.step = step].action = q.action
        /\ [q EXCEPT !.step = step].step = step
    BY <1>0 DEF Request
  <2>2. UntoldRequests(o)'
    BY <1>0, <1>3, <2>1 DEF GoOn, Untold, UntoldRequests
  <2> QED BY <1>1, <1>3, <2>2 DEF GoOn, Untold, UntoldCalls, UntoldRuns
<1>4. CASE Decide(q)
  <2>1. q.order = o => \/ GoOn(q, "create") \/ Answer(q, "terminal")
                       \/ q.action # "create" /\ GoOn(q, q.action)
    BY <1>0, <1>4 DEF Decide
  <2>2. \/ Answer(q, "ok") \/ Answer(q, "terminal")
        \/ GoOn(q, "create") \/ GoOn(q, q.action)
    BY <1>4 DEF Decide
  <2> QED BY <1>0, <1>2, <1>3, <2>1, <2>2
<1>5. CASE CreateOrder(q)
  <2>1. q.order # o
    BY <1>0, <1>5 DEF CreateOrder, Sound, SoundPos, SoundRequest, Cancel
  <2> QED BY <1>2, <1>5, <2>1 DEF CreateOrder
<1>6. CASE ApplyRevision(q)
  <2>1. q.order = o => Answer(q, "terminal")
    BY <1>0, <1>6 DEF ApplyRevision, Sound, SoundPos, SoundRequest, Cancel
  <2>2. Answer(q, "ok") \/ Answer(q, "terminal")
    BY <1>6 DEF ApplyRevision
  <2> QED BY <1>2, <2>1, <2>2
<1>7. CASE CancelOrder(q)
  <2>1. q.order # o
    BY <1>0, <1>7 DEF CancelOrder
  <2> QED BY <1>2, <1>7, <2>1 DEF CancelOrder
<1>8. CASE Refuse(q)
  <2>1. PICK out \in {"terminal", "transient"} : Answer(q, out)
    BY <1>8 DEF Refuse
  <2> QED BY <1>2, <2>1
<1> QED BY <1>4, <1>5, <1>6, <1>7, <1>8 DEF Server

\* Once on the POS, an order stays there.
LEMMA RevStays ==
  ASSUME Sound, [Next]_vars, NEW o \in Orders, pos[o].rev # 0 PROVE pos'[o].rev # 0
<1>1. pos[o] \in SoundPos
  BY DEF Sound
<1>2. ASSUME NEW q \in requests, Server(q) \/ Refuse(q) PROVE pos'[o].rev # 0
  <2>1. q.order \in Orders /\ pos[q.order] \in SoundPos
    BY DEF Sound, SoundRequest, Request
  <2>2. CASE UNCHANGED pos
    BY <2>2
  <2>3. CASE q.fp # 0 /\ pos' = [pos EXCEPT ![q.order] = [rev |-> q.fp, status |-> "open"]]
    BY <2>3 DEF Sound
  <2>4. CASE q.fp # 0 /\ pos' = [pos EXCEPT ![q.order].rev = q.fp]
    BY <2>1, <2>4 DEF Sound, SoundPos
  <2>5. CASE pos' = [pos EXCEPT ![q.order].status = "cancelled"]
    BY <2>1, <2>5 DEF Sound, SoundPos
  <2> QED BY <1>2, <2>2, <2>3, <2>4, <2>5, ServerSteps
<1>3. ASSUME NEW x \in Orders, Pay(x) PROVE pos'[o].rev # 0
  BY <1>1, <1>3 DEF Pay, Sound, SoundPos
<1>4. ASSUME UNCHANGED pos PROVE pos'[o].rev # 0
  BY <1>4
<1>5. ASSUME NEW w \in Runs, Worker(w) \/ \E x \in Orders : TimeOut(w, x) PROVE UNCHANGED pos
  BY <1>5 DEF Worker, RunRead, RunSelect, RunSettle, RunMerge, TimeOut
<1>6. ASSUME \/ Portal \/ WorkerDies \/ UNCHANGED vars
             \/ \E t \in Tabs, x \in Orders : Tab(t, x)
             \/ \E t \in Tabs : Reload(t)
             \/ \E s \in Senders : Handler(s)
             \/ \E x \in Orders : RetryQueuedOrder(x) \/ BackoffEnds(x)
      PROVE  UNCHANGED pos
  BY <1>6 DEF Portal, WorkerDies, Tab, DispatchDetail, DispatchCancel, Reload, Handler,
              ReadQueue, WriteQueue, RetryQueuedOrder, BackoffEnds, vars
<1> QED BY <1>2, <1>3, <1>4, <1>5, <1>6 DEF Next

LEMMA AckedNext ==
  ASSUME Sound, Acked, [Next]_vars PROVE Acked'
<1> SUFFICES ASSUME NEW o \in Orders, pos'[o].rev = 0 PROVE Untold(o)'
  BY DEF Acked
<1>1. pos[o].rev = 0 /\ Untold(o)
  BY RevStays DEF Acked
<1>2. ASSUME UNCHANGED <<calls, queue, relayed, runs, requests>> PROVE Untold(o)'
  BY <1>1, <1>2 DEF Untold, UntoldCalls, UntoldRuns, UntoldRequests
<1>3. ASSUME \/ Portal \/ UNCHANGED vars \/ \E t \in Tabs : Reload(t)
             \/ \E x \in Orders : Pay(x)
      PROVE  UNCHANGED <<calls, queue, relayed, runs, requests>>
  BY <1>3 DEF Portal, vars, Reload, Pay
<1>4. ASSUME UntoldCalls(o)', UNCHANGED <<queue, relayed, runs, requests>> PROVE Untold(o)'
  BY <1>1, <1>4 DEF Untold, UntoldRuns, UntoldRequests
<1>5. ASSUME NEW t \in Tabs, NEW x \in Orders, Tab(t, x) PROVE Untold(o)'
  <2>1. t \in Senders /\ UntoldCalls(o) /\ Cancel \in Fingerprints
    BY <1>1, BoundsAssumption DEF Senders, Untold, Fingerprints, Cancel
  <2>2. CASE DispatchDetail(t, x)
    <3>1. grab[x] \in SoundGrab /\ grab[x].state = "preparing" /\ Send(t, x, grab[x].rev)
      BY <2>2 DEF DispatchDetail, Sound
    <3>2. grab[x].rev \in Fingerprints /\ grab[x].rev # Cancel
      BY <3>1 DEF SoundGrab, Fingerprints, Cancel
    <3>3. UntoldCalls(o)'
      BY <2>1, <3>1, <3>2, CallsUntold
    <3> QED BY <1>4, <2>2, <3>3 DEF DispatchDetail
  <2>3. CASE DispatchCancel(t, x)
    <3>1. x # o /\ Send(t, x, Cancel)
      BY <1>1, <2>3 DEF DispatchCancel, Untold
    <3>2. UntoldCalls(o)'
      BY <2>1, <3>1, CallsUntold
    <3> QED BY <1>4, <2>3, <3>2 DEF DispatchCancel
  <2> QED BY <1>5, <2>2, <2>3 DEF Tab
<1>6. ASSUME NEW x \in Orders, RetryQueuedOrder(x) PROVE Untold(o)'
  <2>1. queue[x] \in SoundItem /\ Popup \in Senders /\ Send(Popup, x, queue[x].fp)
    BY <1>6 DEF RetryQueuedOrder, Sound, SoundQueues, Senders
  <2>2. queue[x].fp \in Fingerprints /\ (queue[x].action = "cancel" \/ queue[x].fp # Cancel)
    BY <2>1 DEF SoundItem, Item
  <2>3. x = o => queue[x].fp # Cancel
    BY <1>1, <2>2 DEF Untold, Plain
  <2>4. UntoldCalls(o)'
    BY <1>1, <2>1, <2>2, <2>3, CallsUntold DEF Untold
  <2> QED BY <1>4, <1>6, <2>4 DEF RetryQueuedOrder
<1>7. ASSUME NEW x \in Orders, BackoffEnds(x) PROVE Untold(o)'
  <2>1. queue[x] # NoItem /\ queue \in SoundQueues /\ queue' = Ripe(queue, x)
    BY <1>7 DEF BackoffEnds, Sound
  <2>2. \A q \in SoundQueues : Ripe(q, x)[o].action = q[o].action
    BY <2>1, RipeHolds
  <2>3. ASSUME NEW s \in Senders, NEW i \in DOMAIN calls'[s]
        PROVE  (calls'[s][i].order = o => calls'[s][i].fp # Cancel) /\ Plain(calls'[s][i].queue[o])
    <3>1. /\ i \in DOMAIN calls[s] /\ calls[s][i].queue \in SoundQueues
          /\ calls'[s][i].order = calls[s][i].order /\ calls'[s][i].fp = calls[s][i].fp
          /\ calls'[s][i].queue = Ripe(calls[s][i].queue, x)
      BY <1>7, <2>3, RipeCopies
    <3>2. (calls[s][i].order = o => calls[s][i].fp # Cancel) /\ Plain(calls[s][i].queue[o])
      BY <1>1, <3>1 DEF Untold, UntoldCalls
    <3> QED BY <2>2, <3>1, <3>2 DEF Plain
  <2>4. UntoldRuns(o)'
    BY <1>1, <1>7, <2>2, RipeCopies DEF Untold, UntoldRuns, Plain
  <2>5. Plain(queue'[o])
    BY <1>1, <2>1, <2>2 DEF Untold, Plain
  <2> QED BY <1>1, <1>7, <2>3, <2>4, <2>5 DEF BackoffEnds, Untold, UntoldCalls, UntoldRequests
<1>8. ASSUME NEW q \in requests
      PROVE  [q EXCEPT !.waits = FALSE].order = q.order
             /\ [q EXCEPT !.waits = FALSE].action = q.action /\ [q EXCEPT !.waits = FALSE].step = q.step
  BY DEF Sound, SoundRequest, Request
<1>9. ASSUME NEW w \in Runs, NEW x \in Orders, TimeOut(w, x) PROVE Untold(o)'
  <2>1. UntoldRuns(o)'
    <3>1. PICK out : out # "ok" /\ runs' = [runs EXCEPT ![w].out[x] = out]
      BY <1>9 DEF TimeOut
    <3>2. UntoldRuns(o)
      BY <1>1 DEF Untold
    <3> QED BY <3>1, <3>2, OutUntold
  <2>2. UntoldRequests(o)'
    <3>1. ASSUME NEW r \in requests'
          PROVE  \E q \in requests : r.order = q.order /\ r.action = q.action /\ r.step = q.step
      <4>1. r \in requests \/ \E q \in requests : r = [q EXCEPT !.waits = FALSE]
        BY <1>9 DEF TimeOut
      <4> QED BY <1>8, <4>1
    <3> QED BY <1>1, <3>1 DEF Untold, UntoldRequests
  <2> QED BY <1>1, <1>9, <2>1, <2>2 DEF TimeOut, Untold, UntoldCalls
<1>10. ASSUME WorkerDies PROVE Untold(o)'
  <2>1. UntoldRuns(o)'
    <3>1. IdleRun.out[o] # "ok" /\ \A w \in Runs : runs'[w] = IdleRun
      BY <1>10, IdleIsUntold DEF WorkerDies
    <3> QED BY <3>1, IdleIsUntold DEF UntoldRuns
  <2>2. UntoldRequests(o)'
    <3>1. ASSUME NEW r \in requests'
          PROVE  \E q \in requests : r.order = q.order /\ r.action = q.action /\ r.step = q.step
      BY <1>8, <1>10 DEF WorkerDies
    <3> QED BY <1>1, <3>1 DEF Untold, UntoldRequests
  <2>3. UntoldCalls(o)'
    BY <1>10 DEF WorkerDies, UntoldCalls
  <2> QED BY <1>1, <1>10, <2>1, <2>2, <2>3 DEF WorkerDies, Untold
<1>11. ASSUME NEW q \in requests, Server(q) \/ Refuse(q) PROVE Untold(o)'
  BY <1>1, <1>11, ServerUntold
<1>12. ASSUME NEW w \in Runs, Worker(w) PROVE Untold(o)'
  BY <1>1, <1>12, WorkerUntold
<1>13. ASSUME NEW s \in Senders, Handler(s) PROVE Untold(o)'
  BY <1>1, <1>13, HandlerUntold
<1> QED BY <1>2, <1>3, <1>5, <1>6, <1>7, <1>9, <1>10, <1>11, <1>12, <1>13 DEF Next

-----------------------------------------------------------------------------
(* What a tab was told is queued is lost by overlapping writes only.        *)

Safe(o) == queue[o] # NoItem \/ pos[o].rev # 0 \/ o \in overwritten
KeptTabs  == \A t \in Tabs, o \in Orders : tabs[t][o].queued # 0 => Safe(o)
KeptCalls == \A s \in Senders, o \in Orders : \A i \in DOMAIN calls[s] :
               calls[s][i].queue[o] # NoItem => Safe(o)
Kept == KeptTabs /\ KeptCalls

LEMMA EnqueueHolds ==
  ASSUME NEW q \in SoundQueues, NEW o \in Orders, NEW fp \in Fingerprints
  PROVE  EnqueueOrRevive(q, o, fp)[o] # NoItem
<1>1. /\ Fresh(fp, IF fp = Cancel THEN "cancel" ELSE "create") # NoItem
      /\ Fresh(fp, IF fp = Cancel THEN "cancel" ELSE "amend") # NoItem
  BY FreshIsSound, SoundTypes, NoItemIsNone DEF Actions
<1>2. \A y : [q EXCEPT ![o] = y][o] = y
  BY DEF SoundQueues
<1> QED BY <1>1, <1>2 DEF EnqueueOrRevive

LEMMA FailedHolds ==
  ASSUME NEW x \in LiveItem, NEW out \in Outcomes, out # "ok"
  PROVE  ApplyDispatchOutcome(x, out) # NoItem
<1> DEFINE y == [x EXCEPT !.attempts = @ + 1, !.due = FALSE,
                          !.terminal = out = "terminal" \/ x.attempts + 1 >= MaxAttempts]
<1>1. y.action = x.action /\ x.action \in Actions
  BY DEF LiveItem, SoundItem, Item
<1>2. y # NoItem
  BY <1>1 DEF NoItem, Actions
<1> QED BY <1>2 DEF ApplyDispatchOutcome

LEMMA EnqueueKeepsOthers ==
  ASSUME NEW q \in SoundQueues, NEW x \in Orders, NEW fp \in Fingerprints, NEW o \in Orders,
         q[o] # NoItem
  PROVE  EnqueueOrRevive(q, x, fp)[o] # NoItem
<1>1. CASE x = o
  BY <1>1, EnqueueHolds
<1>2. CASE x # o
  <2>1. \A y : [q EXCEPT ![x] = y][o] = q[o]
    BY <1>2 DEF SoundQueues
  <2> QED BY <2>1 DEF EnqueueOrRevive
<1> QED BY <1>1, <1>2

\* A write that takes an item away which was not acknowledged is one of an older
\* snapshot, and is noted as such.
LEMMA SafeStays ==
  ASSUME Sound, Acked, [Next]_vars, NEW o \in Orders, Safe(o) PROVE Safe(o)'
<1>1. CASE pos[o].rev # 0
  BY <1>1, RevStays DEF Safe
<1> SUFFICES ASSUME queue[o] # NoItem \/ o \in overwritten, pos[o].rev = 0 PROVE Safe(o)'
  BY <1>1 DEF Safe
<1>2. ASSUME NEW x \in Orders, BackoffEnds(x) PROVE Safe(o)'
  <2>1. queue \in SoundQueues /\ queue[x] # NoItem /\ queue' = Ripe(queue, x)
    BY <1>2 DEF BackoffEnds, Sound
  <2>2. queue'[o] = NoItem <=> queue[o] = NoItem
    BY <2>1, RipeHolds
  <2> QED BY <1>2, <2>2 DEF BackoffEnds, history, Safe
<1>3. ASSUME NEW s \in Senders, WriteQueue(s) PROVE Safe(o)'
  <2> DEFINE c == Head(calls[s])
             q == EnqueueOrRevive(c.queue, c.order, c.fp)
  <2>1. calls[s] # <<>> /\ calls[s] \in Seq(SoundCall)
    BY <1>3 DEF WriteQueue, Sound
  <2>2. c \in SoundCall
    BY <2>1, HeadTailProperties
  <2>3. c.queue \in SoundQueues /\ c.order \in Orders /\ c.fp \in Fingerprints
    BY <2>2 DEF SoundCall, Call
  <2>4. /\ queue' = IF q = c.queue THEN queue ELSE q
        /\ overwritten' = Overwritten(IF q = c.queue THEN {} ELSE Missing(c.queue))
    BY <1>3 DEF WriteQueue
  <2>5. c.queue[o] # NoItem => q[o] # NoItem
    <3> HIDE DEF c
    <3> QED BY <2>3, EnqueueKeepsOthers
  <2> HIDE DEF c, q
  <2>6. CASE q = c.queue
    BY <2>4, <2>6 DEF Safe, Overwritten
  <2>7. CASE q # c.queue
    <3>1. queue' = q /\ overwritten' = Overwritten(Missing(c.queue))
      BY <2>4, <2>7
    <3> QED BY <2>5, <3>1 DEF Safe, Overwritten, Missing
  <2> QED BY <2>6, <2>7
<1>4. ASSUME NEW w \in Runs, RunMerge(w) PROVE Safe(o)'
  <2>1. runs[w] \in SoundRun /\ runs[w].out[o] # "ok"
    BY DEF Sound, Acked, Untold, UntoldRuns
  <2>2. CASE runs[w].items[o] = NoItem
    <3>1. queue'[o] = runs[w].queue[o]
      BY <1>4, <2>2 DEF RunMerge
    <3>2. overwritten' = Overwritten({x \in Missing(runs[w].queue) : runs[w].items[x] = NoItem})
      BY <1>4 DEF RunMerge
    <3> QED BY <2>2, <3>1, <3>2 DEF Safe, Overwritten, Missing
  <2>3. CASE runs[w].items[o] # NoItem
    <3>1. runs[w].items[o] \in LiveItem /\ runs[w].out[o] \in Outcomes
      BY <2>1, <2>3 DEF SoundRun, Run, LiveQueues
    <3>2. queue'[o] = ApplyDispatchOutcome(runs[w].items[o], runs[w].out[o])
      BY <1>4, <2>3 DEF RunMerge
    <3> QED BY <2>1, <3>1, <3>2, FailedHolds DEF Safe
  <2> QED BY <2>2, <2>3
<1>5. ASSUME NEW w \in Runs,
             RunRead(w) \/ RunSelect(w) \/ RunSettle(w) \/ \E x \in Orders : TimeOut(w, x)
      PROVE  UNCHANGED <<queue, overwritten>>
  BY <1>5 DEF RunRead, RunSelect, RunSettle, TimeOut, history
<1>6. ASSUME NEW q \in requests, Server(q) \/ Refuse(q) PROVE UNCHANGED <<queue, overwritten>>
  BY <1>6, ServerSteps DEF history
<1>7. ASSUME \/ Portal \/ WorkerDies \/ UNCHANGED vars
             \/ \E t \in Tabs, x \in Orders : Tab(t, x)
             \/ \E t \in Tabs : Reload(t)
             \/ \E s \in Senders : ReadQueue(s)
             \/ \E x \in Orders : RetryQueuedOrder(x) \/ Pay(x)
      PROVE  UNCHANGED <<queue, overwritten>>
  BY <1>7 DEF Portal, WorkerDies, Tab, DispatchDetail, DispatchCancel, Reload, ReadQueue,
              RetryQueuedOrder, Pay, vars, history
<1>8. ASSUME UNCHANGED <<queue, overwritten>> PROVE Safe(o)'
  BY <1>8 DEF Safe
<1> QED BY <1>2, <1>3, <1>4, <1>5, <1>6, <1>7, <1>8 DEF Next, Handler, Worker

LEMMA KeptTabsNext ==
  ASSUME Sound, Acked, Kept, [Next]_vars PROVE KeptTabs'
<1> SUFFICES ASSUME NEW t \in Tabs, NEW o \in Orders, tabs'[t][o].queued # 0 PROVE Safe(o)'
  BY DEF KeptTabs
<1>1. ASSUME tabs'[t][o].queued \in {0, tabs[t][o].queued} PROVE Safe(o)
  BY <1>1 DEF Kept, KeptTabs
<1>0. tabs \in [Tabs -> [Orders -> [dispatched : 0 .. MaxRev, queued : 0 .. MaxRev]]]
  BY DEF Sound
<1>2. ASSUME NEW s \in Senders, WriteQueue(s) PROVE Safe(o)' \/ Safe(o)
  <2> DEFINE c == Head(calls[s])
             q == EnqueueOrRevive(c.queue, c.order, c.fp)
  <2>1. calls[s] # <<>> /\ calls[s] \in Seq(SoundCall)
    BY <1>2 DEF WriteQueue, Sound
  <2>2. c \in SoundCall /\ c = calls[s][1] /\ 1 \in DOMAIN calls[s]
    BY <2>1, HeadTailProperties, LenProperties, EmptySeq
  <2>3. c.queue \in SoundQueues /\ c.order \in Orders /\ c.fp \in Fingerprints
    BY <2>2 DEF SoundCall, Call
  <2>4. CASE c.order = o
    <3>1. q[o] # NoItem
      <4> HIDE DEF c
      <4> QED BY <2>3, <2>4, EnqueueHolds
    <3>2. CASE q = c.queue
      <4>1. calls[s][1].queue[o] # NoItem
        BY <2>2, <3>1, <3>2
      <4> QED BY <2>2, <4>1 DEF Kept, KeptCalls
    <3>3. CASE q # c.queue
      BY <1>2, <3>1, <3>3 DEF WriteQueue, Safe
    <3> QED BY <3>2, <3>3
  <2>5. CASE c.order # o
    <3>1. \/ tabs' = tabs
          \/ s \in Tabs /\ tabs' = [tabs EXCEPT ![s][c.order].queued = c.fp]
      BY <1>2 DEF WriteQueue
    <3> HIDE DEF c
    <3>2. tabs'[t][o].queued = tabs[t][o].queued
      BY <1>0, <2>3, <2>5, <3>1
    <3> QED BY <1>1, <3>2
  <2> QED BY <2>4, <2>5
<1>3. ASSUME NEW u \in Tabs, NEW x \in Orders, DispatchDetail(u, x) PROVE Safe(o)
  <2>1. tabs'[t][o].queued = tabs[t][o].queued
    BY <1>0, <1>3 DEF DispatchDetail
  <2> QED BY <1>1, <2>1
<1>4. ASSUME NEW u \in Tabs, Reload(u) PROVE Safe(o)
  <2>1. tabs'[t][o].queued \in {0, tabs[t][o].queued}
    BY <1>0, <1>4 DEF Reload
  <2> QED BY <1>1, <2>1
<1>5. ASSUME WorkerDies PROVE Safe(o)
  <2>1. tabs'[t][o] = [tabs[t][o] EXCEPT !.dispatched = 0] \/ tabs'[t][o] = tabs[t][o]
    BY <1>5 DEF WorkerDies
  <2>2. tabs'[t][o].queued = tabs[t][o].queued
    BY <1>0, <2>1
  <2> QED BY <1>1, <2>2
<1>6. ASSUME NEW w \in Runs, Worker(w) \/ \E x \in Orders : TimeOut(w, x) PROVE UNCHANGED tabs
  BY <1>6 DEF Worker, RunRead, RunSelect, RunSettle, RunMerge, TimeOut
<1>7. ASSUME NEW q \in requests, Server(q) \/ Refuse(q) PROVE UNCHANGED tabs
  BY <1>7, ServerSteps
<1>8. ASSUME \/ Portal \/ UNCHANGED vars
             \/ \E u \in Tabs, x \in Orders : DispatchCancel(u, x)
             \/ \E s \in Senders : ReadQueue(s)
             \/ \E x \in Orders : RetryQueuedOrder(x) \/ Pay(x) \/ BackoffEnds(x)
      PROVE  UNCHANGED tabs
  BY <1>8 DEF Portal, DispatchCancel, ReadQueue, RetryQueuedOrder, Pay, BackoffEnds, vars
<1>9. Safe(o) => Safe(o)'
  BY SafeStays
<1> QED BY <1>1, <1>2, <1>3, <1>4, <1>5, <1>6, <1>7, <1>8, <1>9 DEF Next, Handler, Tab

LEMMA KeptCallsNext ==
  ASSUME Sound, Acked, Kept, [Next]_vars PROVE KeptCalls'
<1> DEFINE Seen(r, o, i) == calls'[r][i].queue[o] # NoItem
<1> SUFFICES ASSUME NEW r \in Senders, NEW o \in Orders, NEW i \in DOMAIN calls'[r], Seen(r, o, i)
             PROVE  Safe(o)'
  BY DEF KeptCalls
<1>0. calls \in [Senders -> Seq(SoundCall)] /\ calls[r] \in Seq(SoundCall)
  BY DEF Sound
<1>1. ASSUME NEW j \in DOMAIN calls[r], calls'[r][i] = calls[r][j] PROVE Safe(o)
  BY <1>1 DEF Kept, KeptCalls
<1>2. ASSUME NEW s \in Senders, NEW x, NEW fp, Send(s, x, fp) PROVE Safe(o)
  <2> DEFINE c == [order |-> x, fp |-> fp, at |-> "sent", queue |-> NoQueue]
  <2>1. CASE r # s
    BY <1>0, <1>1, <1>2, <2>1 DEF Send
  <2>2. CASE r = s
    <3>1. calls'[r] = Append(calls[r], c) /\ c.queue[o] = NoItem
      BY <1>0, <1>2, <2>2 DEF Send, NoQueue
    <3> HIDE DEF c
    <3>2. CASE i \in DOMAIN calls[r]
      <4>1. calls'[r][i] = calls[r][i]
        BY <1>0, <3>1, <3>2, LenProperties
      <4> QED BY <1>1, <3>2, <4>1
    <3>3. CASE i \notin DOMAIN calls[r]
      <4>1. calls'[r][i] = c
        BY <1>0, <3>1, <3>3, LenProperties
      <4> QED BY <3>1, <4>1
    <3> QED BY <3>2, <3>3
  <2> QED BY <2>1, <2>2
<1>3. ASSUME NEW s \in Senders, ReadQueue(s) PROVE Safe(o)
  <2>1. PICK j \in DOMAIN calls[s] :
          calls' = [calls EXCEPT ![s][j].at = "read", ![s][j].queue = queue]
    BY <1>3 DEF ReadQueue
  <2> DEFINE c == [calls[s][j] EXCEPT !.at = "read", !.queue = queue]
             t == [calls[s] EXCEPT ![j] = c]
  <2>2. calls[s][j] \in Call
    BY <1>0, LenProperties, ElementOfSeq, SoundTypes
  <2>3. c.queue = queue
    BY <2>2 DEF Call
  <2>4. calls' = [calls EXCEPT ![s] = t]
    BY <2>1 DEF Sound
  <2> HIDE DEF c
  <2>5. DOMAIN t = DOMAIN calls[s] /\ t[j] = c /\ \A k \in DOMAIN t \ {j} : t[k] = calls[s][k]
    OBVIOUS
  <2> HIDE DEF t
  <2>6. calls'[s] = t /\ \A v \in Senders \ {s} : calls'[v] = calls[v]
    BY <2>4 DEF Sound
  <2>7. CASE r = s /\ i = j
    BY <2>3, <2>5, <2>6, <2>7 DEF Safe
  <2>8. CASE ~(r = s /\ i = j)
    <3>1. i \in DOMAIN calls[r] /\ calls'[r][i] = calls[r][i]
      BY <2>5, <2>6, <2>8
    <3> QED BY <1>1, <3>1
  <2> QED BY <2>7, <2>8
<1>4. ASSUME NEW s \in Senders, WriteQueue(s) PROVE Safe(o)
  <2>1. calls[s] # <<>> /\ calls' = [calls EXCEPT ![s] = Tail(calls[s])]
    BY <1>4 DEF WriteQueue
  <2>2. CASE r = s
    <3>1. i + 1 \in DOMAIN calls[r] /\ calls'[r][i] = calls[r][i + 1]
      BY <1>0, <2>1, <2>2, HeadTailProperties, LenProperties
    <3> QED BY <1>1, <3>1
  <2>3. CASE r # s
    BY <1>0, <1>1, <2>1, <2>3
  <2> QED BY <2>2, <2>3
<1>5. ASSUME WorkerDies PROVE FALSE
  BY <1>5 DEF WorkerDies
<1>6. ASSUME UNCHANGED calls PROVE Safe(o)
  BY <1>1, <1>6
<1>7. ASSUME NEW w \in Runs, Worker(w) \/ \E x \in Orders : TimeOut(w, x) PROVE UNCHANGED calls
  BY <1>7 DEF Worker, RunRead, RunSelect, RunSettle, RunMerge, TimeOut
<1>8. ASSUME NEW q \in requests, Server(q) \/ Refuse(q) PROVE UNCHANGED calls
  BY <1>8, ServerSteps
<1>9. ASSUME \/ Portal \/ UNCHANGED vars \/ \E u \in Tabs : Reload(u)
             \/ \E x \in Orders : Pay(x)
      PROVE  UNCHANGED calls
  BY <1>9 DEF Portal, Reload, Pay, vars
<1>10. ASSUME NEW u \in Tabs, NEW x \in Orders, Tab(u, x) PROVE Safe(o)
  BY <1>2, <1>10 DEF Tab, DispatchDetail, DispatchCancel, Senders
<1>11. ASSUME NEW x \in Orders, RetryQueuedOrder(x) PROVE Safe(o)
  BY <1>2, <1>11 DEF RetryQueuedOrder, Senders
<1>12. ASSUME NEW x \in Orders, BackoffEnds(x) PROVE Safe(o)
  <2>1. /\ i \in DOMAIN calls[r] /\ calls[r][i].queue \in SoundQueues
        /\ calls'[r][i].queue = Ripe(calls[r][i].queue, x)
    BY <1>12, RipeCopies
  <2>2. calls[r][i].queue[o] # NoItem
    BY <1>12, <2>1, RipeHolds DEF BackoffEnds
  <2> QED BY <2>1, <2>2 DEF Kept, KeptCalls
<1>13. Safe(o)
  BY <1>3, <1>4, <1>5, <1>6, <1>7, <1>8, <1>9, <1>10, <1>11, <1>12 DEF Next, Handler
<1> QED BY <1>13, SafeStays

\* An order that a tab was told is queued, and will not send again, is in the queue
\* or has reached the POS, or a handler or a run wrote an older queue back over its
\* item: for any orders, and whatever runs, tabs and deaths of the worker overlap,
\* nothing else takes an item away before the POS has the order.
THEOREM QueuedNotLostHolds == Spec => []QueuedNotLost
<1>1. Init => Sound /\ Acked /\ Kept
  <2> SUFFICES ASSUME Init PROVE Acked /\ Kept
    BY SoundInit
  <2>1. Acked
    BY IdleIsUntold DEF Init, Acked, Untold, UntoldCalls, UntoldRuns, UntoldRequests,
                        NoneRelayed, NoQueue, NoItem, Plain
  <2>2. Kept
    BY DEF Init, Kept, KeptTabs, KeptCalls
  <2> QED BY <2>1, <2>2
<1>2. Sound /\ Acked /\ Kept /\ [Next]_vars => (Sound /\ Acked /\ Kept)'
  BY SoundNext, AckedNext, KeptTabsNext, KeptCallsNext DEF Kept
<1>3. Kept => QueuedNotLost
  BY DEF Kept, KeptTabs, Safe, QueuedNotLost
<1> QED BY <1>1, <1>2, <1>3, PTL DEF Spec

\* The write that takes an item away is one for other orders: neither the handler of
\* a message about the order nor the run that posted it loses it, so that a single
\* order is never lost.
THEOREM LostByOthersOnly ==
  Spec => [][\A o \in Orders : o \in overwritten' \ overwritten => LostToAnother(o)]_vars
<1>1. Sound /\ [Next]_vars
        => [\A o \in Orders : o \in overwritten' \ overwritten => LostToAnother(o)]_vars
  <2> SUFFICES ASSUME Sound, Next, NEW o \in Orders, o \in overwritten' \ overwritten
               PROVE  LostToAnother(o)
    OBVIOUS
  <2>1. ASSUME NEW s \in Senders, WriteQueue(s) PROVE LostToAnother(o)
    <3> DEFINE c == Head(calls[s])
               q == EnqueueOrRevive(c.queue, c.order, c.fp)
    <3>1. calls[s] # <<>> /\ calls[s] \in Seq(SoundCall)
      BY <2>1 DEF WriteQueue, Sound
    <3>2. c.queue \in SoundQueues /\ c.order \in Orders /\ c.fp \in Fingerprints
      BY <3>1, HeadTailProperties DEF SoundCall, Call
    <3>3. q # c.queue /\ o \in Missing(c.queue) /\ queue'[o] = NoItem /\ queue' = q
      BY <2>1 DEF WriteQueue, Overwritten
    <3>4. c.order # o
      <4> HIDE DEF c
      <4> QED BY <3>2, <3>3, EnqueueHolds
    <3> QED BY <2>1, <3>3, <3>4 DEF Missing, LostToAnother
  <2>2. ASSUME NEW w \in Runs, RunMerge(w) PROVE LostToAnother(o)
    <3>1. runs[w].items[o] = NoItem /\ o \in Missing(runs[w].queue)
      BY <2>2 DEF RunMerge, Overwritten
    <3> QED BY <2>2, <3>1 DEF Missing, LostToAnother
  <2>3. ASSUME NEW w \in Runs,
               RunRead(w) \/ RunSelect(w) \/ RunSettle(w) \/ \E x \in Orders : TimeOut(w, x)
        PROVE  UNCHANGED overwritten
    BY <2>3 DEF RunRead, RunSelect, RunSettle, TimeOut, history
  <2>4. ASSUME NEW q \in requests, Server(q) \/ Refuse(q) PROVE UNCHANGED overwritten
    BY <2>4, ServerSteps DEF history
  <2>5. ASSUME \/ Portal \/ WorkerDies
               \/ \E t \in Tabs, x \in Orders : Tab(t, x)
               \/ \E t \in Tabs : Reload(t)
               \/ \E s \in Senders : ReadQueue(s)
               \/ \E x \in Orders : RetryQueuedOrder(x) \/ BackoffEnds(x) \/ Pay(x)
        PROVE  UNCHANGED overwritten
    BY <2>5 DEF Portal, WorkerDies, Tab, DispatchDetail, DispatchCancel, Reload, ReadQueue,
                RetryQueuedOrder, BackoffEnds, Pay, history
  <2> QED BY <2>1, <2>2, <2>3, <2>4, <2>5 DEF Next, Handler, Worker
<1> QED BY <1>1, SoundInit, SoundNext, PTL DEF Spec
=============================================================================
