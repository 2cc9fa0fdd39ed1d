--------------------------- MODULE PrintPipeline ---------------------------
(***************************************************************************)
(* The print pipeline: rows of the print_jobs table, the SQL functions     *)
(* that enqueue, claim, complete, retry and reap them, and the print agent *)
(* of one branch (apps/print-agent), a daemon that is told of new rows by  *)
(* a lossy realtime channel, drains the table as a safety net, and sends   *)
(* each ticket to a LAN printer.                                           *)
(*                                                                         *)
(* Each SQL function is one transaction, hence one action.  An activation  *)
(* of the agent's processJob/drainPending is a "run": it awaits between    *)
(* its remote calls, so runs interleave with each other, with the staff    *)
(* and with crashes of the agent.                                          *)
(***************************************************************************)
EXTENDS Integers, FiniteSets

CONSTANTS
  KitchenJobs,   \* jobs enqueued ON CONFLICT DO NOTHING (kitchen, cancel tickets)
  ReceiptJobs,   \* jobs enqueued ON CONFLICT DO UPDATE (receipts, shift reports)
  Runs,          \* activations of drainPending / processJob alive at once
  NoJob,         \* a run that holds no job
  MaxAttempts,   \* PRINT_MAX_ATTEMPTS
  MaxFaults,     \* bound: crashes, lost calls, disconnections, hangs
  MaxRequests    \* bound: staff reprints and retries

Jobs == KitchenJobs \union ReceiptJobs

ASSUME JobsAssumption ==
  /\ KitchenJobs \intersect ReceiptJobs = {}
  /\ NoJob \notin Jobs
ASSUME RunsAssumption == IsFiniteSet(Runs)
ASSUME BoundsAssumption ==
  /\ MaxAttempts \in Nat \ {0}
  /\ MaxFaults \in Nat
  /\ MaxRequests \in Nat

VARIABLES
  job,        \* the print_jobs rows
  agent,      \* "down", "starting" (before the subscription) or "running"
  link,       \* the realtime channel: "none" (never joined), "on", "lost"
  inbox,      \* realtime events received, whose handler has not run yet
  run,        \* the runs: where each is, the job it holds, send attempts, outcome
  todo,       \* the ids each run still has to process
  copies,     \* history: complete tickets handed to the printer, per job
  opens,      \* history: times the job entered 'pending'
  reaped,     \* history: jobs the janitor took from a run
  faults,     \* bound counter
  requests    \* bound counter

rows  == <<job, opens, reaped>>
vars == <<job, agent, link, inbox, run, todo, copies, opens, reaped, faults, requests>>

JobStatus == {"absent", "pending", "processing", "printed", "failed"}
RunPc     == {"idle", "drain", "next", "fetch", "send", "complete"}

\* claim stands for claimed_at: NULL, within the last 300 s, or older.
JobRow    == [status : JobStatus, claim : {"none", "fresh", "stale"}]
RunRecord == [pc : RunPc, job : Jobs \union {NoJob}, attempt : 0 .. MaxAttempts,
              torn : BOOLEAN, ok : BOOLEAN]
Row(s, c) == [status |-> s, claim |-> c]
Run(pc, j, n, torn, ok) ==
  [pc |-> pc, job |-> j, attempt |-> n, torn |-> torn, ok |-> ok]
At(pc)          == Run(pc, NoJob, 0, FALSE, FALSE)
Fetching(j)     == Run("fetch", j, 0, FALSE, FALSE)
Sending(j, n, torn) == Run("send", j, n, torn, FALSE)
Completing(j, ok)   == Run("complete", j, 0, FALSE, ok)
Idle            == At("idle")

\* Rows, processes, history and bounds stay in their ranges.
TypeOK ==
  /\ job      \in [Jobs -> JobRow]
  /\ agent    \in {"down", "starting", "running"}
  /\ link     \in {"none", "on", "lost"}
  /\ inbox    \subseteq Jobs
  /\ run      \in [Runs -> RunRecord]
  /\ todo     \in [Runs -> SUBSET Jobs]
  /\ copies   \in [Jobs -> Nat]
  /\ opens    \in [Jobs -> Nat]
  /\ reaped   \subseteq Jobs
  /\ faults   \in 0 .. MaxFaults
  /\ requests \in 0 .. MaxRequests

Init ==
  /\ job      = [j \in Jobs |-> Row("absent", "none")]
  /\ agent    = "down"
  /\ link     = "none"
  /\ inbox    = {}
  /\ run      = [r \in Runs |-> Idle]
  /\ todo     = [r \in Runs |-> {}]
  /\ copies   = [j \in Jobs |-> 0]
  /\ opens    = [j \in Jobs |-> 0]
  /\ reaped   = {}
  /\ faults   = 0
  /\ requests = 0

-----------------------------------------------------------------------------
Holds(r, j) == run[r].job = j
Fault       == faults < MaxFaults /\ faults' = faults + 1
Request     == requests < MaxRequests /\ requests' = requests + 1

\* Rows J enter 'pending': the channel reports each of them if it is joined.
Open(J) ==
  /\ opens' = [j \in Jobs |-> IF j \in J THEN opens[j] + 1 ELSE opens[j]]
  /\ inbox' = IF link = "on" THEN inbox \union J ELSE inbox

-----------------------------------------------------------------------------
(* The web application.                                                    *)

EnqueueTicket(j) ==
  /\ j \in KitchenJobs
  /\ job[j].status = "absent"
  /\ job' = [job EXCEPT ![j] = Row("pending", "none")]
  /\ Open({j})
  /\ UNCHANGED <<agent, link, run, todo, copies, reaped, faults, requests>>

\* The first receipt of a payment.
EnqueueReceipt(j) ==
  /\ j \in ReceiptJobs
  /\ job[j].status = "absent"
  /\ job' = [job EXCEPT ![j] = Row("pending", "none")]
  /\ Open({j})
  /\ UNCHANGED <<agent, link, run, todo, copies, reaped, faults, requests>>

\* The receipt of the same payment again: the row is updated.  byService is a
\* webhook's call, which does not print a printed receipt again.
Reprint(j, byService) ==
  /\ j \in ReceiptJobs
  /\ job[j].status # "absent"
  /\ Request
  /\ LET reopened == \/ job[j].status = "failed"
                     \/ job[j].status = "printed" /\ ~byService
     IN  /\ job' = [job EXCEPT ![j] =
                      Row(IF reopened THEN "pending" ELSE @.status, "none")]
         /\ Open(IF reopened THEN {j} ELSE {})
  /\ UNCHANGED <<agent, link, run, todo, copies, reaped, faults>>

RetryJob(j) ==
  /\ job[j].status = "failed"
  /\ Request
  /\ job' = [job EXCEPT ![j] = Row("pending", "none")]
  /\ Open({j})
  /\ UNCHANGED <<agent, link, run, todo, copies, reaped, faults>>

-----------------------------------------------------------------------------
(* The agent process and its realtime channel.                             *)

\* Startup drains before it subscribes.
AgentStart(r) ==
  /\ agent = "down"
  /\ agent' = "starting"
  /\ run' = [run EXCEPT ![r] = At("drain")]
  /\ UNCHANGED <<rows, link, inbox, todo, copies, faults, requests>>

AgentReady ==
  /\ agent = "starting"
  /\ \A r \in Runs : run[r].pc = "idle"
  /\ agent' = "running"
  /\ UNCHANGED <<rows, link, inbox, run, todo, copies, faults, requests>>

AgentCrash ==
  /\ agent # "down"
  /\ Fault
  /\ agent' = "down"
  /\ link' = "none"
  /\ inbox' = {}
  /\ run' = [r \in Runs |-> Idle]
  /\ todo' = [r \in Runs |-> {}]
  /\ UNCHANGED <<rows, copies, requests>>

\* The first SUBSCRIBED does not drain; a later one does.
Subscribed(r) ==
  /\ agent = "running"
  /\ link # "on"
  /\ link' = "on"
  /\ \/ link = "none" /\ run' = run
     \/ /\ link = "lost"
        /\ run[r].pc = "idle"
        /\ run' = [run EXCEPT ![r] = At("drain")]
  /\ UNCHANGED <<rows, agent, inbox, todo, copies, faults, requests>>

Disconnect ==
  /\ link = "on"
  /\ Fault
  /\ link' = "lost"
  /\ inbox' = {}
  /\ UNCHANGED <<rows, agent, run, todo, copies, requests>>

-----------------------------------------------------------------------------
(* Runs of the agent.                                                      *)

OnJobEvent(r, j) ==
  /\ j \in inbox
  /\ run[r].pc = "idle"
  /\ inbox' = inbox \ {j}
  /\ run' = [run EXCEPT ![r] = At("next")]
  /\ todo' = [todo EXCEPT ![r] = {j}]
  /\ UNCHANGED <<rows, agent, link, copies, faults, requests>>

Stuck == {j \in Jobs : job[j].status = "processing" /\ job[j].claim = "stale"}

\* Mutant: the drain is skipped when nothing was revived.
TickDrainsOnlyRevived(r) ==
  /\ agent = "running"
  /\ run[r].pc = "idle"
  /\ job' = [j \in Jobs |-> IF j \in Stuck THEN Row("pending", "none") ELSE job[j]]
  /\ Open(Stuck)
  /\ reaped' = reaped \union Stuck
  /\ run' = IF Stuck = {} THEN run ELSE [run EXCEPT ![r] = At("drain")]
  /\ UNCHANGED <<agent, link, todo, copies, faults, requests>>

\* The five-minute timer: reap, then drain.  When rows were revived
\* reapStuckJobs starts a drain of its own (by another run, if one is free).
Tick(r) ==
  /\ agent = "running"
  /\ run[r].pc = "idle"
  /\ job' = [j \in Jobs |-> IF j \in Stuck THEN Row("pending", "none") ELSE job[j]]
  /\ Open(Stuck)
  /\ reaped' = reaped \union Stuck
  /\ LET free == {s \in Runs \ {r} : run[s].pc = "idle"}
     IN  IF Stuck = {} \/ free = {}
           THEN run' = [run EXCEPT ![r] = At("drain")]
           ELSE \E s \in free : run' = [run EXCEPT ![r] = At("drain"), ![s] = At("drain")]
  /\ UNCHANGED <<agent, link, todo, copies, faults, requests>>

\* The timer when the reaping call fails: it drains all the same.
ReapFails(r) ==
  /\ agent = "running"
  /\ run[r].pc = "idle"
  /\ Fault
  /\ run' = [run EXCEPT ![r] = At("drain")]
  /\ UNCHANGED <<rows, agent, link, inbox, todo, copies, requests>>

\* drainPending reads the ids once and works through that snapshot.
DrainPending(r) ==
  /\ run[r].pc = "drain"
  /\ todo' = [todo EXCEPT ![r] = {j \in Jobs : job[j].status = "pending"}]
  /\ run' = [run EXCEPT ![r] = At("next")]
  /\ UNCHANGED <<rows, agent, link, inbox, copies, faults, requests>>

\* The query fails: the drain is over.
DrainFails(r) ==
  /\ run[r].pc = "drain"
  /\ Fault
  /\ run' = [run EXCEPT ![r] = Idle]
  /\ UNCHANGED <<rows, agent, link, inbox, todo, copies, requests>>

DrainDone(r) ==
  /\ run[r].pc = "next"
  /\ todo[r] = {}
  /\ run' = [run EXCEPT ![r] = Idle]
  /\ UNCHANGED <<rows, agent, link, inbox, todo, copies, faults, requests>>

\* Mutant: the claim does not ask for 'pending'.
ClaimAnyStatus(r, j) ==
  /\ run[r].pc = "next"
  /\ j \in todo[r]
  /\ todo' = [todo EXCEPT ![r] = @ \ {j}]
  /\ job' = [job EXCEPT ![j] = Row("processing", "fresh")]
  /\ run' = [run EXCEPT ![r] = Fetching(j)]
  /\ UNCHANGED <<agent, link, inbox, copies, opens, reaped, faults, requests>>

Claim(r, j) ==
  /\ run[r].pc = "next"
  /\ j \in todo[r]
  /\ todo' = [todo EXCEPT ![r] = @ \ {j}]
  /\ IF job[j].status = "pending"
       THEN /\ job' = [job EXCEPT ![j] = Row("processing", "fresh")]
            /\ run' = [run EXCEPT ![r] = Fetching(j)]
       ELSE UNCHANGED <<job, run>>
  /\ UNCHANGED <<agent, link, inbox, copies, opens, reaped, faults, requests>>

\* The claim commits but its answer is lost: the agent takes it for a refusal.
ClaimAnswerLost(r, j) ==
  /\ run[r].pc = "next"
  /\ j \in todo[r]
  /\ job[j].status = "pending"
  /\ Fault
  /\ todo' = [todo EXCEPT ![r] = @ \ {j}]
  /\ job' = [job EXCEPT ![j] = Row("processing", "fresh")]
  /\ UNCHANGED <<agent, link, inbox, run, copies, opens, reaped, requests>>

\* The row is read again and rendered for a cached LAN printer, or one of
\* these fails and the job completes as failed.
Prepare(r) ==
  /\ run[r].pc = "fetch"
  /\ \/ run' = [run EXCEPT ![r] = Sending(@.job, 1, FALSE)]
     \/ run' = [run EXCEPT ![r] = Completing(@.job, FALSE)]
  /\ UNCHANGED <<rows, agent, link, inbox, todo, copies, faults, requests>>

\* Mutant: an error after the whole ticket was handed over is tried again.
SendWholeRetried(r, ok) ==
  /\ run[r].pc = "send"
  /\ copies' = [copies EXCEPT ![run[r].job] = @ + 1]
  /\ run' = IF ~ok /\ run[r].attempt < MaxAttempts
              THEN [run EXCEPT ![r] = Sending(@.job, @.attempt + 1, @.torn)]
              ELSE [run EXCEPT ![r] = Completing(run[r].job, ok)]
  /\ UNCHANGED <<rows, agent, link, inbox, todo, faults, requests>>

\* An attempt ends with the whole ticket handed over.  The socket may still
\* fail after that, which ends the dispatch with an error.
SendWhole(r, ok) ==
  /\ run[r].pc = "send"
  /\ copies' = [copies EXCEPT ![run[r].job] = @ + 1]
  /\ run' = [run EXCEPT ![r] = Completing(run[r].job, ok)]
  /\ UNCHANGED <<rows, agent, link, inbox, todo, faults, requests>>

\* Mutants: one attempt too many; the error of the last attempt is dropped.
SendFailsOnceMore(r, torn) ==
  /\ run[r].pc = "send"
  /\ run' = IF run[r].attempt <= MaxAttempts
              THEN [run EXCEPT ![r] = Sending(@.job, @.attempt + 1, @.torn \/ torn)]
              ELSE [run EXCEPT ![r] = Completing(@.job, FALSE)]
  /\ UNCHANGED <<rows, agent, link, inbox, todo, copies, faults, requests>>
SendFailsSilently(r, torn) ==
  /\ run[r].pc = "send"
  /\ run' = IF run[r].attempt < MaxAttempts
              THEN [run EXCEPT ![r] = Sending(@.job, @.attempt + 1, @.torn \/ torn)]
              ELSE [run EXCEPT ![r] = Completing(@.job, TRUE)]
  /\ UNCHANGED <<rows, agent, link, inbox, todo, copies, faults, requests>>

\* An attempt fails before the write callback: it is tried again.  The socket
\* may have taken a part of the ticket by then (torn).
SendFails(r, torn) ==
  /\ run[r].pc = "send"
  /\ run' = IF run[r].attempt < MaxAttempts
              THEN [run EXCEPT ![r] = Sending(@.job, @.attempt + 1, @.torn \/ torn)]
              ELSE [run EXCEPT ![r] = Completing(@.job, FALSE)]
  /\ UNCHANGED <<rows, agent, link, inbox, todo, copies, faults, requests>>

\* complete_print_job does not look at the row it updates.
Complete(r) ==
  /\ run[r].pc = "complete"
  /\ job' = [job EXCEPT ![run[r].job] =
               Row(IF run[r].ok THEN "printed" ELSE "failed", @.claim)]
  /\ run' = [run EXCEPT ![r] = At("next")]
  /\ UNCHANGED <<agent, link, inbox, todo, copies, opens, reaped, faults, requests>>

\* The call fails and the agent only logs it.
CompleteLost(r) ==
  /\ run[r].pc = "complete"
  /\ Fault
  /\ run' = [run EXCEPT ![r] = At("next")]
  /\ UNCHANGED <<rows, agent, link, inbox, todo, copies, requests>>

\* Five minutes pass.  That a run holds the job for so long is a fault (a
\* remote call that hangs): sending takes seconds.
Age(j) ==
  /\ job[j].status = "processing"
  /\ job[j].claim = "fresh"
  /\ \/ (\A r \in Runs : ~Holds(r, j)) /\ UNCHANGED faults
     \/ (\E r \in Runs : Holds(r, j)) /\ Fault
  /\ job' = [job EXCEPT ![j] = Row("processing", "stale")]
  /\ UNCHANGED <<agent, link, inbox, run, todo, copies, opens, reaped, requests>>

-----------------------------------------------------------------------------
Enqueue ==
  \E j \in Jobs : \/ EnqueueTicket(j)
                  \/ EnqueueReceipt(j)
                  \/ \E byService \in BOOLEAN : Reprint(j, byService)
                  \/ RetryJob(j)

RunStep(r) ==
  \/ DrainPending(r)
  \/ DrainDone(r)
  \/ \E j \in Jobs : Claim(r, j)
  \/ Prepare(r)
  \/ \E ok \in BOOLEAN : SendWhole(r, ok)
  \/ \E torn \in BOOLEAN : SendFails(r, torn)
  \/ Complete(r)

Next ==
  \/ Enqueue
  \/ \E r \in Runs : AgentStart(r)
  \/ AgentReady
  \/ AgentCrash
  \/ \E r \in Runs : Subscribed(r)
  \/ Disconnect
  \/ \E r \in Runs, j \in Jobs : OnJobEvent(r, j)
  \/ \E r \in Runs : Tick(r)
  \/ \E r \in Runs : RunStep(r)
  \/ \E r \in Runs, j \in Jobs : ClaimAnswerLost(r, j)
  \/ \E r \in Runs : CompleteLost(r) \/ DrainFails(r) \/ ReapFails(r)
  \/ \E j \in Jobs : Age(j)

Spec == Init /\ [][Next]_vars

(* The service manager restarts the agent, its timer fires, its awaited    *)
(* calls return or fail, and time passes.  Nobody has to enqueue, retry or *)
(* fail.                                                                   *)
Fairness ==
  /\ WF_vars(\E r \in Runs : AgentStart(r))
  /\ WF_vars(AgentReady)
  /\ WF_vars(\E r \in Runs : Subscribed(r))
  /\ WF_vars(\E r \in Runs : Tick(r))
  /\ \A r \in Runs : WF_vars(RunStep(r))
  /\ \A j \in Jobs : WF_vars(Age(j))

FairSpec == Spec /\ Fairness

-----------------------------------------------------------------------------
(* Properties.                                                             *)

\* A row says 'printed' only if a whole ticket was handed to the printer,
\* whatever stale runs, reaps, reprints and crashes came in between.
PrintedMeansHandedOver ==
  \A j \in Jobs : job[j].status = "printed" => copies[j] > 0

\* Overlapping drains and realtime handlers never dispatch one job twice:
\* only a job the janitor took back can be held by two runs.
ExclusiveUntilReaped ==
  \A j \in Jobs \ reaped : \A r, s \in Runs :
    Holds(r, j) /\ Holds(s, j) => r = s

\* A whole ticket comes out at most once for every time the job was made
\* pending: resending inside a dispatch never repeats a whole ticket.
NoExtraCopies ==
  \A j \in Jobs : copies[j] <= opens[j]

\* The claim of a kitchen ticket that is being processed is always dated, so
\* that the janitor can see that it is stuck.
KitchenClaimDated ==
  \A j \in KitchenJobs : job[j].status = "processing" => job[j].claim # "none"

\* A kitchen ticket that waits is printed or reported as failed, although the
\* agent may crash, the channel lose events and calls get lost.
KitchenTicketSettles ==
  \A j \in KitchenJobs :
    job[j].status = "pending" ~> job[j].status \in {"printed", "failed"}

-----------------------------------------------------------------------------
(* What the repository says and the code does not keep: TLC refutes these     *)
(* formulas on small instances, as README.md tells under "Known divergences". *)

\* What lan.ts says of a resend: once bytes reached the printer the dispatch
\* does not send again, so a half-sent ticket is never duplicated.
HalfSentNeverResent ==
  \A r \in Runs : run[r].pc = "send" => ~run[r].torn

\* The janitor's promise: no job stays in 'processing'.
NoJobStaysProcessing ==
  \A j \in Jobs : job[j].status = "processing" ~> job[j].status # "processing"

=============================================================================
