------------------------ MODULE PrintPipelineProofs ------------------------
(***************************************************************************)
(* The safety invariants of PrintPipeline, for every set of jobs and runs  *)
(* and every bound.                                                        *)
(***************************************************************************)
EXTENDS PrintPipeline, FiniteSetTheorems, TLAPS

-----------------------------------------------------------------------------
(* The records of rows and of runs: what they are made of.                 *)

Claims == {"none", "fresh", "stale"}

\* A row with a legal status and claim is a print_jobs row.
LEMMA RowType ==
  ASSUME NEW s \in JobStatus, NEW c \in Claims
  PROVE  Row(s, c) \in JobRow
  BY DEF Row, JobRow, Claims

\* The columns of a typed print_jobs row.
LEMMA RowFields ==
  ASSUME TypeOK, NEW j \in Jobs
  PROVE  job[j].status \in JobStatus /\ job[j].claim \in Claims
  BY DEF TypeOK, JobRow, Claims

\* The records of agent runs are typed: waiting at a place with no job,
LEMMA AtType ==
  ASSUME NEW pc \in RunPc
  PROVE  At(pc) \in RunRecord
  BY BoundsAssumption DEF At, Run, RunRecord

\* fetching a claimed job,
LEMMA FetchingType ==
  ASSUME NEW j \in Jobs
  PROVE  Fetching(j) \in RunRecord
  BY BoundsAssumption DEF Fetching, Run, RunRecord, RunPc

\* sending it,
LEMMA SendingType ==
  ASSUME NEW j \in Jobs \union {NoJob}, NEW n \in 0 .. MaxAttempts, NEW torn \in BOOLEAN
  PROVE  Sending(j, n, torn) \in RunRecord
  BY BoundsAssumption DEF Sending, Run, RunRecord, RunPc

\* and completing it.
LEMMA CompletingType ==
  ASSUME NEW j \in Jobs \union {NoJob}, NEW ok \in BOOLEAN
  PROVE  Completing(j, ok) \in RunRecord
  BY BoundsAssumption DEF Completing, Run, RunRecord, RunPc

\* The fields of a typed run.
LEMMA RunFields ==
  ASSUME TypeOK, NEW r \in Runs
  PROVE  /\ run[r].pc \in RunPc
         /\ run[r].job \in Jobs \union {NoJob}
         /\ run[r].attempt \in 0 .. MaxAttempts
         /\ run[r].torn \in BOOLEAN
         /\ run[r].ok \in BOOLEAN
  BY DEF TypeOK, RunRecord

\* A run that holds no job, and one that does.
LEMMA AtFields ==
  ASSUME NEW pc
  PROVE  At(pc).pc = pc /\ At(pc).job = NoJob /\ At(pc).ok = FALSE
  BY DEF At, Run

\* A run that fetches a job holds that job and reports nothing yet.
LEMMA FetchingFields ==
  ASSUME NEW j
  PROVE  Fetching(j).pc = "fetch" /\ Fetching(j).job = j /\ Fetching(j).ok = FALSE
  BY DEF Fetching, Run

\* What a row was made of.
LEMMA RowParts ==
  ASSUME NEW s, NEW c
  PROVE  Row(s, c).status = s /\ Row(s, c).claim = c
  BY DEF Row

-----------------------------------------------------------------------------
(* Types.                                                                  *)

\* Every row, run and counter stays in its range.
THEOREM TypeCorrect == Spec => []TypeOK
<1>1. Init => TypeOK
  <2> SUFFICES ASSUME Init PROVE TypeOK
    OBVIOUS
  <2>1. Idle \in RunRecord /\ Row("absent", "none") \in JobRow
    BY AtType, RowType DEF Idle, RunPc, JobStatus, Claims
  <2> QED
    BY <2>1, BoundsAssumption DEF Init, TypeOK
<1>2. TypeOK /\ [Next]_vars => TypeOK'
  <2> SUFFICES ASSUME TypeOK, Next \/ UNCHANGED vars PROVE TypeOK'
    OBVIOUS
  <2>0. /\ Row("pending", "none") \in JobRow
        /\ Row("processing", "fresh") \in JobRow
        /\ Row("processing", "stale") \in JobRow
        /\ At("drain") \in RunRecord
        /\ At("next") \in RunRecord
        /\ Idle \in RunRecord
    BY AtType, RowType DEF Idle, RunPc, JobStatus, Claims
  <2> USE DEF TypeOK, rows
  <2>1. ASSUME NEW j \in Jobs, EnqueueTicket(j) \/ EnqueueReceipt(j) PROVE TypeOK'
    BY <2>0, <2>1 DEF EnqueueTicket, EnqueueReceipt, Open
  <2>2. ASSUME NEW j \in Jobs, NEW byService \in BOOLEAN, Reprint(j, byService)
        PROVE  TypeOK'
    <3> DEFINE reopened == \/ job[j].status = "failed"
                           \/ job[j].status = "printed" /\ ~byService
    <3>1. Row(IF reopened THEN "pending" ELSE job[j].status, "none") \in JobRow
      BY RowType, RowFields DEF JobStatus, Claims
    <3> QED
      BY <2>2, <3>1, BoundsAssumption DEF Reprint, Open, Request
  <2>3. ASSUME NEW j \in Jobs, RetryJob(j) PROVE TypeOK'
    BY <2>0, <2>3, BoundsAssumption DEF RetryJob, Open, Request
  <2>4. ASSUME NEW r \in Runs, AgentStart(r) PROVE TypeOK'
    BY <2>0, <2>4 DEF AgentStart
  <2>5. CASE AgentReady
    BY <2>5 DEF AgentReady
  <2>6. CASE AgentCrash
    BY <2>0, <2>6, BoundsAssumption DEF AgentCrash, Fault
  <2>7. ASSUME NEW r \in Runs, Subscribed(r) PROVE TypeOK'
    BY <2>0, <2>7 DEF Subscribed
  <2>8. CASE Disconnect
    BY <2>8, BoundsAssumption DEF Disconnect, Fault
  <2>9. ASSUME NEW r \in Runs, NEW j \in Jobs, OnJobEvent(r, j) PROVE TypeOK'
    BY <2>0, <2>9 DEF OnJobEvent
  <2>10. ASSUME NEW r \in Runs, Tick(r) PROVE TypeOK'
    BY <2>0, <2>10 DEF Tick, Stuck, Open
  <2>11. ASSUME NEW r \in Runs,
                DrainPending(r) \/ DrainDone(r) \/ DrainFails(r) \/ ReapFails(r)
         PROVE  TypeOK'
    BY <2>0, <2>11, BoundsAssumption DEF DrainPending, DrainDone, DrainFails, ReapFails, Fault
  <2>12. ASSUME NEW r \in Runs, NEW j \in Jobs, Claim(r, j) \/ ClaimAnswerLost(r, j)
         PROVE  TypeOK'
    BY <2>0, <2>12, FetchingType, BoundsAssumption DEF Claim, ClaimAnswerLost, Fault
  <2>13. ASSUME NEW r \in Runs, Prepare(r) PROVE TypeOK'
    <3>1. /\ Sending(run[r].job, 1, FALSE) \in RunRecord
          /\ Completing(run[r].job, FALSE) \in RunRecord
      <4>1. 1 \in 0 .. MaxAttempts
        BY BoundsAssumption
      <4> QED
        BY <4>1, RunFields, SendingType, CompletingType
    <3> QED
      BY <2>13, <3>1 DEF Prepare
  <2>14. ASSUME NEW r \in Runs, NEW ok \in BOOLEAN, SendWhole(r, ok) PROVE TypeOK'
    <3>1. Completing(run[r].job, ok) \in RunRecord
      BY RunFields, CompletingType
    <3>2. copies' \in [Jobs -> Nat]
      <4> DEFINE j == run[r].job
      <4>1. copies' = [copies EXCEPT ![j] = copies[j] + 1]
        BY <2>14 DEF SendWhole
      <4>2. j \in Jobs => copies[j] + 1 \in Nat
        OBVIOUS
      <4> HIDE DEF j
      <4> QED
        BY <4>1, <4>2
    <3> QED
      BY <2>14, <3>1, <3>2 DEF SendWhole
  <2>15. ASSUME NEW r \in Runs, NEW torn \in BOOLEAN, SendFails(r, torn) PROVE TypeOK'
    <3>1. Completing(run[r].job, FALSE) \in RunRecord
      BY RunFields, CompletingType
    <3>2. ASSUME run[r].attempt < MaxAttempts
          PROVE  Sending(run[r].job, run[r].attempt + 1, run[r].torn \/ torn) \in RunRecord
      <4>1. run[r].attempt + 1 \in 0 .. MaxAttempts
        BY <3>2, RunFields, BoundsAssumption
      <4>2. (run[r].torn \/ torn) \in BOOLEAN
        BY RunFields
      <4> QED
        BY <4>1, <4>2, RunFields, SendingType
    <3> QED
      BY <2>15, <3>1, <3>2 DEF SendFails
  <2>16. ASSUME NEW r \in Runs, Complete(r) \/ CompleteLost(r) PROVE TypeOK'
    <3> DEFINE j == run[r].job
               q == Row(IF run[r].ok THEN "printed" ELSE "failed", job[j].claim)
    <3>1. j \in Jobs => q \in JobRow
      BY RowFields, RowType DEF JobStatus
    <3> HIDE DEF q
    <3>2. CASE Complete(r)
      <4>1. job' = [job EXCEPT ![j] = q]
        BY <3>2 DEF Complete, q
      <4>2. job' \in [Jobs -> JobRow]
        BY <3>1, <4>1
      <4> QED
        BY <2>0, <3>2, <4>2 DEF Complete
    <3>3. CASE CompleteLost(r)
      BY <2>0, <3>3, BoundsAssumption DEF CompleteLost, Fault
    <3> QED
      BY <2>16, <3>2, <3>3
  <2>17. ASSUME NEW j \in Jobs, Age(j) PROVE TypeOK'
    BY <2>0, <2>17, BoundsAssumption DEF Age, Fault
  <2>18. CASE UNCHANGED vars
    BY <2>18 DEF vars
  <2> QED
    BY <2>1, <2>2, <2>3, <2>4, <2>5, <2>6, <2>7, <2>8, <2>9, <2>10, <2>11, <2>12, <2>13,
       <2>14, <2>15, <2>16, <2>17, <2>18 DEF Next, Enqueue, RunStep
<1>3. QED
  BY <1>1, <1>2, PTL DEF Spec

-----------------------------------------------------------------------------
(* Exclusion.  A job that the janitor left alone is 'processing' as long   *)
(* as a run holds it, so that no other run can claim it.                   *)

HeldIsProcessing ==
  \A j \in Jobs \ reaped : \A r \in Runs : Holds(r, j) => job[j].status = "processing"

ExclusionInv == HeldIsProcessing /\ ExclusiveUntilReaped

\* It takes a new holder, or a held job that leaves 'processing', to break it.
LEMMA ExclusionStep ==
  ASSUME ExclusionInv,
         reaped \subseteq reaped',
         \A r \in Runs : run'[r].job \in {run[r].job, NoJob},
         \A j \in Jobs \ reaped', r \in Runs :
           run'[r].job = j /\ job[j].status = "processing" => job'[j].status = "processing"
  PROVE  ExclusionInv'
<1>1. \A j \in Jobs \ reaped', r \in Runs :
        run'[r].job = j => j \in Jobs \ reaped /\ run[r].job = j
  BY JobsAssumption
<1>2. HeldIsProcessing'
  BY <1>1 DEF ExclusionInv, HeldIsProcessing, Holds
<1>3. ExclusiveUntilReaped'
  BY <1>1 DEF ExclusionInv, ExclusiveUntilReaped, Holds
<1> QED
  BY <1>2, <1>3 DEF ExclusionInv

\* No two runs hold a job that the janitor left alone.
THEOREM Exclusion == Spec => []ExclusiveUntilReaped
<1>1. Init => ExclusionInv
  <2>1. Idle.job = NoJob
    BY AtFields DEF Idle
  <2> QED
    BY <2>1, JobsAssumption
    DEF Init, ExclusionInv, HeldIsProcessing, ExclusiveUntilReaped, Holds
<1>2. TypeOK /\ ExclusionInv /\ [Next]_vars => ExclusionInv'
  <2> SUFFICES ASSUME TypeOK, ExclusionInv, Next \/ UNCHANGED vars PROVE ExclusionInv'
    OBVIOUS
  <2> USE DEF rows
  <2>0. /\ run \in [Runs -> RunRecord] /\ job \in [Jobs -> JobRow] /\ reaped \subseteq Jobs
        /\ Idle.job = NoJob /\ At("drain").job = NoJob /\ At("next").job = NoJob
    BY AtFields DEF TypeOK, Idle
  <2>1. ASSUME NEW j \in Jobs, EnqueueTicket(j) \/ EnqueueReceipt(j) \/ RetryJob(j)
        PROVE  ExclusionInv'
    BY <2>0, <2>1, ExclusionStep DEF EnqueueTicket, EnqueueReceipt, RetryJob
  <2>2. ASSUME NEW j \in Jobs, NEW byService \in BOOLEAN, Reprint(j, byService)
        PROVE  ExclusionInv'
    <3>1. job[j].status = "processing" => job'[j].status = "processing"
      BY <2>0, <2>2, RowParts DEF Reprint
    <3>2. \A k \in Jobs \ {j} : job'[k] = job[k]
      BY <2>0, <2>2 DEF Reprint
    <3> QED
      BY <2>2, <3>1, <3>2, ExclusionStep DEF Reprint
  <2>3. ASSUME NEW r \in Runs,
               \/ AgentStart(r) \/ Subscribed(r) \/ DrainPending(r) \/ DrainDone(r)
               \/ CompleteLost(r) \/ DrainFails(r) \/ ReapFails(r)
        PROVE  ExclusionInv'
    <3>1. \A s \in Runs : run'[s].job \in {run[s].job, NoJob}
      BY <2>0, <2>3
      DEF AgentStart, Subscribed, DrainPending, DrainDone, CompleteLost, DrainFails,
          ReapFails
    <3> QED
      BY <2>3, <3>1, ExclusionStep
      DEF AgentStart, Subscribed, DrainPending, DrainDone, CompleteLost, DrainFails, ReapFails
  <2>4. CASE AgentReady \/ AgentCrash \/ Disconnect
    BY <2>0, <2>4, ExclusionStep DEF AgentReady, AgentCrash, Disconnect
  <2>5. ASSUME NEW r \in Runs, NEW j \in Jobs, OnJobEvent(r, j) PROVE ExclusionInv'
    BY <2>0, <2>5, ExclusionStep DEF OnJobEvent
  <2>6. ASSUME NEW r \in Runs, Tick(r) PROVE ExclusionInv'
    <3>1. \A j \in Jobs \ reaped' : job'[j] = job[j]
      BY <2>0, <2>6 DEF Tick
    <3>2. \A s \in Runs : run'[s].job \in {run[s].job, NoJob}
      BY <2>0, <2>6 DEF Tick
    <3>3. reaped \subseteq reaped'
      BY <2>6 DEF Tick
    <3> QED
      BY <3>1, <3>2, <3>3, ExclusionStep
  <2>7. ASSUME NEW r \in Runs, NEW j \in Jobs, Claim(r, j) PROVE ExclusionInv'
    <3>1. CASE job[j].status = "pending"
      <4>1. j \notin reaped => \A s \in Runs : run[s].job # j
        BY <3>1 DEF ExclusionInv, HeldIsProcessing, Holds
      <4>2. job'[j].status = "processing" /\ \A k \in Jobs \ {j} : job'[k] = job[k]
        BY <2>0, <2>7, <3>1, RowParts DEF Claim
      <4>3. run'[r].job = j /\ \A s \in Runs \ {r} : run'[s] = run[s]
        <5>1. Fetching(j).job = j
          BY FetchingFields
        <5> QED
          BY <2>0, <2>7, <3>1, <5>1 DEF Claim
      <4>4. reaped' = reaped
        BY <2>7 DEF Claim
      <4> QED
        BY <4>1, <4>2, <4>3, <4>4
        DEF ExclusionInv, HeldIsProcessing, ExclusiveUntilReaped, Holds
    <3>2. CASE job[j].status # "pending"
      BY <2>0, <2>7, <3>2, ExclusionStep DEF Claim
    <3> QED
      BY <3>1, <3>2
  <2>8. ASSUME NEW r \in Runs, NEW j \in Jobs, ClaimAnswerLost(r, j) PROVE ExclusionInv'
    BY <2>0, <2>8, RowParts, ExclusionStep DEF ClaimAnswerLost
  <2>9. ASSUME NEW r \in Runs, Prepare(r) PROVE ExclusionInv'
    <3>1. /\ Sending(run[r].job, 1, FALSE).job = run[r].job
          /\ Completing(run[r].job, FALSE).job = run[r].job
      BY DEF Sending, Completing, Run
    <3> QED
      BY <2>0, <2>9, <3>1, ExclusionStep DEF Prepare
  <2>10. ASSUME NEW r \in Runs, NEW ok \in BOOLEAN, SendWhole(r, ok) PROVE ExclusionInv'
    <3>1. Completing(run[r].job, ok).job = run[r].job
      BY DEF Sending, Completing, Run
    <3> QED
      BY <2>0, <2>10, <3>1, ExclusionStep DEF SendWhole
  <2>11. ASSUME NEW r \in Runs, NEW torn \in BOOLEAN, SendFails(r, torn)
         PROVE  ExclusionInv'
    <3>1. /\ Sending(run[r].job, run[r].attempt + 1, run[r].torn \/ torn).job = run[r].job
          /\ Completing(run[r].job, FALSE).job = run[r].job
      BY DEF Sending, Completing, Run
    <3> QED
      BY <2>0, <2>11, <3>1, ExclusionStep DEF SendFails
  <2>12. ASSUME NEW r \in Runs, Complete(r) PROVE ExclusionInv'
    <3> DEFINE j == run[r].job
    <3>1. run'[r].job = NoJob /\ \A s \in Runs \ {r} : run'[s] = run[s]
      BY <2>0, <2>12 DEF Complete
    <3>2. \A k \in Jobs \ {j} : job'[k] = job[k]
      BY <2>0, <2>12 DEF Complete
    <3>3. reaped' = reaped
      BY <2>12 DEF Complete
    <3>4. j \in Jobs \ reaped => \A s \in Runs \ {r} : run[s].job # j
      BY DEF ExclusionInv, ExclusiveUntilReaped, Holds
    <3> QED
      BY <3>1, <3>2, <3>3, <3>4, JobsAssumption, ExclusionStep
  <2>13. ASSUME NEW j \in Jobs, Age(j) PROVE ExclusionInv'
    BY <2>0, <2>13, RowParts, ExclusionStep DEF Age
  <2>14. CASE UNCHANGED vars
    BY <2>14, ExclusionStep DEF vars
  <2> QED
    BY <2>1, <2>2, <2>3, <2>4, <2>5, <2>6, <2>7, <2>8, <2>9, <2>10, <2>11, <2>12, <2>13, <2>14
    DEF Next, Enqueue, RunStep
<1>3. ExclusionInv => ExclusiveUntilReaped
  BY DEF ExclusionInv
<1>4. QED
  BY <1>1, <1>2, <1>3, TypeCorrect, PTL DEF Spec

-----------------------------------------------------------------------------
(* Printed means handed over: a run only claims success for a job of which *)
(* the printer got a copy.                                                 *)

SuccessIsReal == \A r \in Runs : run[r].ok /\ run[r].job \in Jobs => copies[run[r].job] > 0

HandedOverInv == SuccessIsReal /\ PrintedMeansHandedOver

\* It takes a run that newly reports success, or a row that newly says 'printed',
\* to break it.
LEMMA HandedOverStep ==
  ASSUME HandedOverInv,
         copies \in [Jobs -> Nat], copies' \in [Jobs -> Nat],
         \A j \in Jobs : copies'[j] >= copies[j],
         \A r \in Runs : run'[r].ok => run'[r].ok = run[r].ok /\ run'[r].job = run[r].job,
         \A j \in Jobs : job'[j].status = "printed" => job[j].status = "printed"
  PROVE  HandedOverInv'
<1>1. SuccessIsReal'
  <2> SUFFICES ASSUME NEW r \in Runs, run'[r].ok, run'[r].job \in Jobs
               PROVE  copies'[run'[r].job] > 0
    BY DEF SuccessIsReal
  <2>1. copies[run[r].job] > 0 /\ run'[r].job = run[r].job
    BY DEF HandedOverInv, SuccessIsReal
  <2> QED
    BY <2>1
<1>2. PrintedMeansHandedOver'
  BY DEF HandedOverInv, PrintedMeansHandedOver
<1> QED
  BY <1>1, <1>2 DEF HandedOverInv

\* No row says 'printed' of a ticket that the printer never got whole.
THEOREM HandedOver == Spec => []PrintedMeansHandedOver
<1>1. Init => HandedOverInv
  <2>1. Idle.ok = FALSE /\ Row("absent", "none").status # "printed"
    <3>1. Idle.ok = FALSE
      BY AtFields DEF Idle
    <3> QED
      BY <3>1, RowParts
  <2> QED
    BY <2>1 DEF Init, HandedOverInv, SuccessIsReal, PrintedMeansHandedOver
<1>2. TypeOK /\ TypeOK' /\ HandedOverInv /\ [Next]_vars => HandedOverInv'
  <2> SUFFICES ASSUME TypeOK, TypeOK', HandedOverInv, Next \/ UNCHANGED vars
               PROVE  HandedOverInv'
    OBVIOUS
  <2> USE DEF rows
  <2>0. /\ run \in [Runs -> RunRecord] /\ job \in [Jobs -> JobRow]
        /\ copies \in [Jobs -> Nat] /\ copies' \in [Jobs -> Nat]
        /\ Idle.ok = FALSE /\ At("drain").ok = FALSE /\ At("next").ok = FALSE
        /\ Row("pending", "none").status = "pending"
        /\ Row("processing", "fresh").status = "processing"
        /\ Row("processing", "stale").status = "processing"
    <3>1. Idle.ok = FALSE /\ At("drain").ok = FALSE /\ At("next").ok = FALSE
      BY AtFields DEF Idle
    <3> QED
      BY <3>1, RowParts DEF TypeOK
  <2>1. ASSUME NEW j \in Jobs, EnqueueTicket(j) \/ EnqueueReceipt(j) \/ RetryJob(j)
        PROVE  HandedOverInv'
    BY <2>0, <2>1, HandedOverStep DEF EnqueueTicket, EnqueueReceipt, RetryJob
  <2>2. ASSUME NEW j \in Jobs, NEW byService \in BOOLEAN, Reprint(j, byService)
        PROVE  HandedOverInv'
    <3>1. job'[j].status = "printed" => job[j].status = "printed"
      BY <2>0, <2>2, RowParts DEF Reprint
    <3>2. \A k \in Jobs \ {j} : job'[k] = job[k]
      BY <2>0, <2>2 DEF Reprint
    <3>3. copies' = copies /\ run' = run
      BY <2>2 DEF Reprint
    <3> QED
      BY <2>0, <3>1, <3>2, <3>3, HandedOverStep
  <2>3. ASSUME NEW r \in Runs,
               \/ AgentStart(r) \/ Subscribed(r) \/ DrainPending(r) \/ DrainDone(r)
               \/ CompleteLost(r) \/ DrainFails(r) \/ ReapFails(r)
        PROVE  HandedOverInv'
    <3>1. \A s \in Runs : run'[s] = run[s] \/ run'[s].ok = FALSE
      BY <2>0, <2>3
      DEF AgentStart, Subscribed, DrainPending, DrainDone, CompleteLost, DrainFails,
          ReapFails
    <3>2. copies' = copies /\ job' = job
      BY <2>3
      DEF AgentStart, Subscribed, DrainPending, DrainDone, CompleteLost, DrainFails,
          ReapFails
    <3> QED
      BY <2>0, <3>1, <3>2, HandedOverStep
  <2>4. CASE AgentReady \/ AgentCrash \/ Disconnect
    BY <2>0, <2>4, HandedOverStep DEF AgentReady, AgentCrash, Disconnect
  <2>5. ASSUME NEW r \in Runs, NEW j \in Jobs, OnJobEvent(r, j) PROVE HandedOverInv'
    BY <2>0, <2>5, HandedOverStep DEF OnJobEvent
  <2>6. ASSUME NEW r \in Runs, Tick(r) PROVE HandedOverInv'
    <3>1. \A j \in Jobs : job'[j] = job[j] \/ job'[j].status = "pending"
      BY <2>0, <2>6 DEF Tick
    <3>2. \A s \in Runs : run'[s] = run[s] \/ run'[s].ok = FALSE
      BY <2>0, <2>6 DEF Tick
    <3>3. copies' = copies
      BY <2>6 DEF Tick
    <3> QED
      BY <2>0, <3>1, <3>2, <3>3, HandedOverStep
  <2>7. ASSUME NEW r \in Runs, NEW j \in Jobs, Claim(r, j) \/ ClaimAnswerLost(r, j)
        PROVE  HandedOverInv'
    <3>1. Fetching(j).ok = FALSE
      BY FetchingFields
    <3>2. \A s \in Runs : run'[s] = run[s] \/ run'[s].ok = FALSE
      BY <2>0, <2>7, <3>1 DEF Claim, ClaimAnswerLost
    <3>3. \A k \in Jobs : job'[k] = job[k] \/ job'[k].status = "processing"
      BY <2>0, <2>7 DEF Claim, ClaimAnswerLost
    <3>4. copies' = copies
      BY <2>7 DEF Claim, ClaimAnswerLost
    <3> QED
      BY <2>0, <3>2, <3>3, <3>4, HandedOverStep
  <2>8. ASSUME NEW r \in Runs, Prepare(r) PROVE HandedOverInv'
    <3>1. Sending(run[r].job, 1, FALSE).ok = FALSE /\ Completing(run[r].job, FALSE).ok = FALSE
      BY DEF Sending, Completing, Run
    <3>2. \A s \in Runs : run'[s] = run[s] \/ run'[s].ok = FALSE
      BY <2>0, <2>8, <3>1 DEF Prepare
    <3>3. copies' = copies /\ job' = job
      BY <2>8 DEF Prepare
    <3> QED
      BY <2>0, <3>2, <3>3, HandedOverStep
  <2>9. ASSUME NEW r \in Runs, NEW ok \in BOOLEAN, SendWhole(r, ok) PROVE HandedOverInv'
    <3> DEFINE j == run[r].job
    <3>1. Completing(j, ok).ok = ok /\ Completing(j, ok).job = j
      BY DEF Completing, Run
    <3>2. run'[r].job = j /\ \A s \in Runs \ {r} : run'[s] = run[s]
      BY <2>0, <2>9, <3>1 DEF SendWhole
    <3>3. copies' = [copies EXCEPT ![j] = copies[j] + 1] /\ job' = job
      BY <2>9 DEF SendWhole
    <3>4. \A k \in Jobs : copies'[k] >= copies[k] /\ (k = j => copies'[k] > 0)
      BY <2>0, <3>3
    <3>5. SuccessIsReal'
      BY <2>0, <3>2, <3>4 DEF HandedOverInv, SuccessIsReal
    <3>6. PrintedMeansHandedOver'
      BY <2>0, <3>3, <3>4 DEF HandedOverInv, PrintedMeansHandedOver
    <3> QED
      BY <3>5, <3>6 DEF HandedOverInv
  <2>10. ASSUME NEW r \in Runs, NEW torn \in BOOLEAN, SendFails(r, torn)
         PROVE  HandedOverInv'
    <3>1. /\ Sending(run[r].job, run[r].attempt + 1, run[r].torn \/ torn).ok = FALSE
          /\ Completing(run[r].job, FALSE).ok = FALSE
      BY DEF Sending, Completing, Run
    <3>2. \A s \in Runs : run'[s] = run[s] \/ run'[s].ok = FALSE
      BY <2>0, <2>10, <3>1 DEF SendFails
    <3>3. copies' = copies /\ job' = job
      BY <2>10 DEF SendFails
    <3> QED
      BY <2>0, <3>2, <3>3, HandedOverStep
  <2>11. ASSUME NEW r \in Runs, Complete(r) PROVE HandedOverInv'
    <3> DEFINE j == run[r].job
    <3>1. \A s \in Runs : run'[s] = run[s] \/ run'[s].ok = FALSE
      BY <2>0, <2>11 DEF Complete
    <3>2. copies' = copies /\ \A k \in Jobs \ {j} : job'[k] = job[k]
      BY <2>0, <2>11 DEF Complete
    <3>3. j \in Jobs /\ job'[j].status = "printed" => run[r].ok
      <4>1. j \in Jobs => job'[j] = Row(IF run[r].ok THEN "printed" ELSE "failed", job[j].claim)
        BY <2>0, <2>11 DEF Complete
      <4> QED
        BY <4>1, RowParts
    <3>4. SuccessIsReal'
      BY <3>1, <3>2 DEF HandedOverInv, SuccessIsReal
    <3>5. PrintedMeansHandedOver'
      BY <3>2, <3>3 DEF HandedOverInv, SuccessIsReal, PrintedMeansHandedOver
    <3> QED
      BY <3>4, <3>5 DEF HandedOverInv
  <2>12. ASSUME NEW j \in Jobs, Age(j) PROVE HandedOverInv'
    BY <2>0, <2>12, HandedOverStep DEF Age
  <2>13. CASE UNCHANGED vars
    BY <2>0, <2>13, HandedOverStep DEF vars
  <2> QED
    BY <2>1, <2>2, <2>3, <2>4, <2>5, <2>6, <2>7, <2>8, <2>9, <2>10, <2>11, <2>12, <2>13
    DEF Next, Enqueue, RunStep
<1>3. HandedOverInv => PrintedMeansHandedOver
  BY DEF HandedOverInv
<1>4. QED
  BY <1>1, <1>2, <1>3, TypeCorrect, PTL DEF Spec

-----------------------------------------------------------------------------
(* Dated claims.                                                           *)

\* The janitor can date every kitchen ticket that is being processed: only
\* receipts, which are never kitchen tickets, lose claimed_at while processing.
THEOREM ClaimsDated == Spec => []KitchenClaimDated
<1>1. Init => KitchenClaimDated
  BY RowParts DEF Init, KitchenClaimDated, Jobs
<1>2. TypeOK /\ KitchenClaimDated /\ [Next]_vars => KitchenClaimDated'
  <2> SUFFICES ASSUME TypeOK, KitchenClaimDated, Next \/ UNCHANGED vars
               PROVE  KitchenClaimDated'
    OBVIOUS
  <2> USE DEF rows
  <2>0. /\ job \in [Jobs -> JobRow]
        /\ KitchenJobs \subseteq Jobs /\ \A j \in ReceiptJobs : j \notin KitchenJobs
        /\ Row("pending", "none").status = "pending"
        /\ Row("processing", "fresh").claim = "fresh"
        /\ Row("processing", "stale").claim = "stale"
    BY RowParts, JobsAssumption DEF TypeOK, Jobs
  <2>1. ASSUME NEW j \in Jobs, EnqueueTicket(j) \/ EnqueueReceipt(j) \/ RetryJob(j)
        PROVE  KitchenClaimDated'
    BY <2>0, <2>1 DEF EnqueueTicket, EnqueueReceipt, RetryJob, KitchenClaimDated
  <2>2. ASSUME NEW j \in Jobs, NEW byService \in BOOLEAN, Reprint(j, byService)
        PROVE  KitchenClaimDated'
    <3>1. \A k \in KitchenJobs : job'[k] = job[k]
      BY <2>0, <2>2 DEF Reprint
    <3> QED
      BY <3>1 DEF KitchenClaimDated
  <2>3. ASSUME NEW r \in Runs, Tick(r) PROVE KitchenClaimDated'
    BY <2>0, <2>3 DEF Tick, KitchenClaimDated
  <2>4. ASSUME NEW r \in Runs, NEW j \in Jobs, Claim(r, j) \/ ClaimAnswerLost(r, j)
        PROVE  KitchenClaimDated'
    BY <2>0, <2>4 DEF Claim, ClaimAnswerLost, KitchenClaimDated
  <2>5. ASSUME NEW r \in Runs, Complete(r) PROVE KitchenClaimDated'
    <3> DEFINE q == Row(IF run[r].ok THEN "printed" ELSE "failed", job[run[r].job].claim)
    <3>1. q.status # "processing"
      BY RowParts
    <3>2. \A k \in KitchenJobs : job'[k] = job[k] \/ job'[k] = q
      BY <2>0, <2>5 DEF Complete
    <3> QED
      BY <3>1, <3>2 DEF KitchenClaimDated
  <2>6. ASSUME NEW j \in Jobs, Age(j) PROVE KitchenClaimDated'
    BY <2>0, <2>6 DEF Age, KitchenClaimDated
  <2>7. CASE job' = job
    BY <2>7 DEF KitchenClaimDated
  <2> QED
    BY <2>1, <2>2, <2>3, <2>4, <2>5, <2>6, <2>7
    DEF Next, Enqueue, RunStep, vars, AgentStart, AgentReady, AgentCrash, Subscribed,
        Disconnect, OnJobEvent, DrainPending, DrainDone, Prepare, SendWhole, SendFails,
        CompleteLost, DrainFails, ReapFails
<1>3. QED
  BY <1>1, <1>2, TypeCorrect, PTL DEF Spec

-----------------------------------------------------------------------------
(* No extra copies: what a job may still print is covered by the times it  *)
(* was opened.                                                             *)

Busy(j)  == {r \in Runs : run[r].job = j /\ run[r].pc \in {"fetch", "send"}}
Waits(j) == IF job[j].status = "pending" THEN 1 ELSE 0

CopiesInv == \A j \in Jobs : copies[j] + Cardinality(Busy(j)) + Waits(j) <= opens[j]

\* Finitely many runs can still print a job, as there are finitely many runs.
LEMMA BusyFinite ==
  ASSUME NEW j
  PROVE  IsFiniteSet(Busy(j)) /\ Cardinality(Busy(j)) \in Nat
<1>1. Busy(j) \in SUBSET Runs
  BY DEF Busy
<1> QED
  BY <1>1, RunsAssumption, FS_Subset, FS_CardinalityType

\* A step that opens what it makes wait, makes no run busy and hands nothing over
\* keeps the account.
NoneNewlyBusy ==
  \A s \in Runs : \/ run'[s] = run[s]
                  \/ run'[s].pc \notin {"fetch", "send"}
                  \/ run[s].pc \in {"fetch", "send"} /\ run'[s].job = run[s].job
OpensCounted ==
  \A j \in Jobs : opens'[j] >= opens[j] /\ (Waits(j)' > Waits(j) => opens'[j] > opens[j])

\* Such a step preserves the account of the copies.
LEMMA CopiesStep ==
  ASSUME CopiesInv, TypeOK, TypeOK',
         copies' = copies, NoneNewlyBusy, OpensCounted
  PROVE  CopiesInv'
<1> SUFFICES ASSUME NEW j \in Jobs
             PROVE  copies'[j] + Cardinality(Busy(j)') + Waits(j)' <= opens'[j]
  BY DEF CopiesInv
<1>1. Busy(j)' \in SUBSET Busy(j)
  BY DEF Busy, NoneNewlyBusy
<1>2. /\ Cardinality(Busy(j)) \in Nat
      /\ Cardinality(Busy(j)') \in Nat
      /\ Cardinality(Busy(j)') <= Cardinality(Busy(j))
  BY <1>1, BusyFinite, FS_Subset, FS_CardinalityType
<1>3. copies[j] + Cardinality(Busy(j)) + Waits(j) <= opens[j]
  BY DEF CopiesInv
<1>4. /\ copies[j] \in Nat /\ opens[j] \in Nat /\ opens'[j] \in Nat
      /\ Waits(j) \in {0, 1} /\ Waits(j)' \in {0, 1}
  BY DEF TypeOK, Waits
<1>5. opens'[j] >= opens[j] /\ (Waits(j)' > Waits(j) => opens'[j] > opens[j])
  BY DEF OpensCounted
<1> QED
  BY <1>2, <1>3, <1>4, <1>5

\* No job is handed over more often than it was made pending.
THEOREM Copies == Spec => []NoExtraCopies
<1>1. Init => CopiesInv
  <2> SUFFICES ASSUME Init, NEW j \in Jobs
               PROVE  copies[j] + Cardinality(Busy(j)) + Waits(j) <= opens[j]
    BY DEF CopiesInv
  <2>1. Idle.pc = "idle"
    BY AtFields DEF Idle
  <2>2. Busy(j) = {}
    BY <2>1 DEF Init, Busy
  <2>3. Waits(j) = 0
    BY RowParts DEF Init, Waits
  <2> QED
    BY <2>2, <2>3, FS_EmptySet DEF Init
<1>2. TypeOK /\ TypeOK' /\ CopiesInv /\ [Next]_vars => CopiesInv'
  <2> SUFFICES ASSUME TypeOK, TypeOK', CopiesInv, Next \/ UNCHANGED vars
               PROVE  CopiesInv'
    OBVIOUS
  <2> USE DEF rows
  <2>0. /\ run \in [Runs -> RunRecord] /\ job \in [Jobs -> JobRow]
        /\ copies \in [Jobs -> Nat] /\ opens \in [Jobs -> Nat]
        /\ Row("pending", "none").status = "pending"
        /\ Row("processing", "fresh").status = "processing"
        /\ Row("processing", "stale").status = "processing"
    BY RowParts DEF TypeOK
  <2>00. Idle.pc = "idle" /\ At("drain").pc = "drain" /\ At("next").pc = "next"
    BY AtFields DEF Idle
  <2>1. ASSUME NEW j \in Jobs, EnqueueTicket(j) \/ EnqueueReceipt(j) \/ RetryJob(j)
        PROVE  CopiesInv'
    <3>1. OpensCounted
      BY <2>0, <2>1 DEF OpensCounted, EnqueueTicket, EnqueueReceipt, RetryJob, Open, Waits
    <3>2. copies' = copies /\ run' = run
      BY <2>1 DEF EnqueueTicket, EnqueueReceipt, RetryJob
    <3> QED
      BY <3>1, <3>2, CopiesStep DEF NoneNewlyBusy
  <2>2. ASSUME NEW j \in Jobs, NEW byService \in BOOLEAN, Reprint(j, byService)
        PROVE  CopiesInv'
    <3> DEFINE reopened == \/ job[j].status = "failed"
                           \/ job[j].status = "printed" /\ ~byService
    <3>1. \A k \in Jobs \ {j} : job'[k] = job[k]
      BY <2>0, <2>2 DEF Reprint
    <3>2. job'[j].status = IF reopened THEN "pending" ELSE job[j].status
      BY <2>0, <2>2, RowParts DEF Reprint
    <3>3. \A k \in Jobs : opens'[k] = IF reopened /\ k = j THEN opens[k] + 1 ELSE opens[k]
      BY <2>0, <2>2 DEF Reprint, Open
    <3>4. OpensCounted
      BY <2>0, <3>1, <3>2, <3>3 DEF OpensCounted, Waits
    <3>5. copies' = copies /\ run' = run
      BY <2>2 DEF Reprint
    <3> QED
      BY <3>4, <3>5, CopiesStep DEF NoneNewlyBusy
  <2>3. ASSUME NEW r \in Runs,
               \/ AgentStart(r) \/ Subscribed(r) \/ DrainPending(r) \/ DrainDone(r)
               \/ CompleteLost(r) \/ DrainFails(r) \/ ReapFails(r)
        PROVE  CopiesInv'
    <3>1. NoneNewlyBusy
      <4>1. \A s \in Runs : run'[s] = run[s] \/ run'[s].pc \notin {"fetch", "send"}
        BY <2>0, <2>00, <2>3
        DEF AgentStart, Subscribed, DrainPending, DrainDone, CompleteLost, DrainFails, ReapFails
      <4> QED
        BY <4>1 DEF NoneNewlyBusy
    <3>2. copies' = copies /\ job' = job /\ opens' = opens
      BY <2>3
      DEF AgentStart, Subscribed, DrainPending, DrainDone, CompleteLost, DrainFails,
          ReapFails
    <3>3. OpensCounted
      BY <2>0, <3>2 DEF OpensCounted, Waits
    <3> QED
      BY <3>1, <3>2, <3>3, CopiesStep
  <2>4. CASE AgentReady \/ AgentCrash \/ Disconnect \/ UNCHANGED vars
    <3>1. NoneNewlyBusy
      <4>1. \A s \in Runs : run'[s] = run[s] \/ run'[s].pc \notin {"fetch", "send"}
        BY <2>0, <2>00, <2>4 DEF AgentReady, AgentCrash, Disconnect, vars
      <4> QED
        BY <4>1 DEF NoneNewlyBusy
    <3>2. copies' = copies /\ job' = job /\ opens' = opens
      BY <2>4 DEF AgentReady, AgentCrash, Disconnect, vars
    <3>3. OpensCounted
      BY <2>0, <3>2 DEF OpensCounted, Waits
    <3> QED
      BY <3>1, <3>2, <3>3, CopiesStep
  <2>5. ASSUME NEW r \in Runs, NEW j \in Jobs, OnJobEvent(r, j) PROVE CopiesInv'
    <3>1. NoneNewlyBusy
      <4>1. \A s \in Runs : run'[s] = run[s] \/ run'[s].pc \notin {"fetch", "send"}
        BY <2>0, <2>00, <2>5 DEF OnJobEvent
      <4> QED
        BY <4>1 DEF NoneNewlyBusy
    <3>2. copies' = copies /\ job' = job /\ opens' = opens
      BY <2>5 DEF OnJobEvent
    <3>3. OpensCounted
      BY <2>0, <3>2 DEF OpensCounted, Waits
    <3> QED
      BY <3>1, <3>2, <3>3, CopiesStep
  <2>6. ASSUME NEW r \in Runs, Tick(r) PROVE CopiesInv'
    <3>1. NoneNewlyBusy
      <4>1. \A s \in Runs : run'[s] = run[s] \/ run'[s].pc \notin {"fetch", "send"}
        BY <2>0, <2>00, <2>6 DEF Tick
      <4> QED
        BY <4>1 DEF NoneNewlyBusy
    <3>2. OpensCounted
      BY <2>0, <2>6 DEF OpensCounted, Tick, Open, Waits
    <3> QED
      BY <2>6, <3>1, <3>2, CopiesStep DEF Tick
  <2>7. ASSUME NEW r \in Runs, NEW j \in Jobs, Claim(r, j) PROVE CopiesInv'
    <3>1. CASE job[j].status = "pending"
      <4> SUFFICES ASSUME NEW k \in Jobs
                   PROVE  copies'[k] + Cardinality(Busy(k)') + Waits(k)' <= opens'[k]
        BY DEF CopiesInv
      <4>1. Fetching(j).pc = "fetch" /\ Fetching(j).job = j
        BY FetchingFields
      <4>2. run' = [run EXCEPT ![r] = Fetching(j)] /\ copies' = copies /\ opens' = opens
        BY <2>7, <3>1 DEF Claim
      <4>3. copies[k] + Cardinality(Busy(k)) + Waits(k) <= opens[k]
        BY DEF CopiesInv
      <4>4. CASE k = j
        <5>1. Busy(k)' = Busy(k) \union {r}
          BY <2>0, <4>1, <4>2, <4>4 DEF Busy
        <5>2. Cardinality(Busy(k)') <= Cardinality(Busy(k)) + 1 /\ Cardinality(Busy(k)') \in Nat
          BY <5>1, BusyFinite, FS_AddElement, FS_CardinalityType
        <5>3. Waits(k) = 1 /\ Waits(k)' = 0
          BY <2>0, <2>7, <3>1, <4>4 DEF Claim, Waits
        <5> QED
          BY <2>0, <4>2, <4>3, <5>2, <5>3, BusyFinite
      <4>5. CASE k # j
        <5>1. Busy(k)' \in SUBSET Busy(k)
          BY <2>0, <4>1, <4>2, <4>5 DEF Busy
        <5>2. Cardinality(Busy(k)') <= Cardinality(Busy(k)) /\ Cardinality(Busy(k)') \in Nat
          BY <5>1, BusyFinite, FS_Subset, FS_CardinalityType
        <5>3. Waits(k) = Waits(k)' /\ Waits(k) \in {0, 1}
          BY <2>0, <2>7, <3>1, <4>5 DEF Claim, Waits
        <5> QED
          BY <2>0, <4>2, <4>3, <5>2, <5>3, BusyFinite
      <4> QED
        BY <4>4, <4>5
    <3>2. CASE job[j].status # "pending"
      <4>1. copies' = copies /\ job' = job /\ opens' = opens /\ run' = run
        BY <2>7, <3>2 DEF Claim
      <4>2. OpensCounted
        BY <2>0, <4>1 DEF OpensCounted, Waits
      <4> QED
        BY <4>1, <4>2, CopiesStep DEF NoneNewlyBusy
    <3> QED
      BY <3>1, <3>2
  <2>8. ASSUME NEW r \in Runs, NEW j \in Jobs, ClaimAnswerLost(r, j) PROVE CopiesInv'
    <3>1. OpensCounted
      BY <2>0, <2>8 DEF OpensCounted, ClaimAnswerLost, Waits
    <3>2. copies' = copies /\ run' = run
      BY <2>8 DEF ClaimAnswerLost
    <3> QED
      BY <3>1, <3>2, CopiesStep DEF NoneNewlyBusy
  <2>9. ASSUME NEW r \in Runs, Prepare(r) PROVE CopiesInv'
    <3>1. /\ Sending(run[r].job, 1, FALSE).job = run[r].job
          /\ Completing(run[r].job, FALSE).pc = "complete"
      BY DEF Sending, Completing, Run
    <3>2. NoneNewlyBusy
      <4>1. \A s \in Runs : \/ run'[s] = run[s]
                            \/ run'[s].pc \notin {"fetch", "send"}
                            \/ run[s].pc \in {"fetch", "send"} /\ run'[s].job = run[s].job
        BY <2>0, <2>9, <3>1 DEF Prepare
      <4> QED
        BY <4>1 DEF NoneNewlyBusy
    <3>3. copies' = copies /\ job' = job /\ opens' = opens
      BY <2>9 DEF Prepare
    <3>4. OpensCounted
      BY <2>0, <3>3 DEF OpensCounted, Waits
    <3> QED
      BY <3>2, <3>3, <3>4, CopiesStep
  <2>10. ASSUME NEW r \in Runs, NEW ok \in BOOLEAN, SendWhole(r, ok) PROVE CopiesInv'
    <3> SUFFICES ASSUME NEW k \in Jobs
                 PROVE  copies'[k] + Cardinality(Busy(k)') + Waits(k)' <= opens'[k]
      BY DEF CopiesInv
    <3> DEFINE j == run[r].job
    <3>1. Completing(j, ok).pc = "complete"
      BY DEF Completing, Run
    <3>2. /\ run' = [run EXCEPT ![r] = Completing(j, ok)]
          /\ copies' = [copies EXCEPT ![j] = copies[j] + 1]
          /\ opens' = opens /\ job' = job
          /\ run[r].pc = "send"
      BY <2>10 DEF SendWhole
    <3>3. copies[k] + Cardinality(Busy(k)) + Waits(k) <= opens[k]
      BY DEF CopiesInv
    <3>4. Busy(k)' = Busy(k) \ {r} /\ (r \in Busy(k) <=> k = j)
      BY <2>0, <3>1, <3>2 DEF Busy
    <3>5. Cardinality(Busy(k)') = IF k = j THEN Cardinality(Busy(k)) - 1
                                           ELSE Cardinality(Busy(k))
      BY <3>4, BusyFinite, FS_RemoveElement
    <3>6. copies'[k] = IF k = j THEN copies[k] + 1 ELSE copies[k]
      BY <2>0, <3>2
    <3>7. Waits(k)' = Waits(k) /\ Waits(k) \in {0, 1}
      BY <3>2 DEF Waits
    <3> HIDE DEF j
    <3> QED
      BY <2>0, <3>2, <3>3, <3>5, <3>6, <3>7, BusyFinite
  <2>11. ASSUME NEW r \in Runs, NEW torn \in BOOLEAN, SendFails(r, torn) PROVE CopiesInv'
    <3>1. /\ Sending(run[r].job, run[r].attempt + 1, run[r].torn \/ torn).job = run[r].job
          /\ Completing(run[r].job, FALSE).pc = "complete"
      BY DEF Sending, Completing, Run
    <3>2. NoneNewlyBusy
      <4>1. \A s \in Runs : \/ run'[s] = run[s]
                            \/ run'[s].pc \notin {"fetch", "send"}
                            \/ run[s].pc \in {"fetch", "send"} /\ run'[s].job = run[s].job
        BY <2>0, <2>11, <3>1 DEF SendFails
      <4> QED
        BY <4>1 DEF NoneNewlyBusy
    <3>3. copies' = copies /\ job' = job /\ opens' = opens
      BY <2>11 DEF SendFails
    <3>4. OpensCounted
      BY <2>0, <3>3 DEF OpensCounted, Waits
    <3> QED
      BY <3>2, <3>3, <3>4, CopiesStep
  <2>12. ASSUME NEW r \in Runs, Complete(r) PROVE CopiesInv'
    <3> DEFINE q == Row(IF run[r].ok THEN "printed" ELSE "failed", job[run[r].job].claim)
    <3>1. q.status # "pending"
      BY RowParts
    <3>2. \A k \in Jobs : job'[k] = job[k] \/ job'[k] = q
      BY <2>0, <2>12 DEF Complete
    <3>3. NoneNewlyBusy
      <4>1. \A s \in Runs : run'[s] = run[s] \/ run'[s].pc \notin {"fetch", "send"}
        BY <2>0, <2>00, <2>12 DEF Complete
      <4> QED
        BY <4>1 DEF NoneNewlyBusy
    <3>4. copies' = copies /\ opens' = opens
      BY <2>12 DEF Complete
    <3> HIDE DEF q
    <3>5. OpensCounted
      BY <2>0, <3>1, <3>2, <3>4 DEF OpensCounted, Waits
    <3> QED
      BY <3>3, <3>4, <3>5, CopiesStep
  <2>13. ASSUME NEW j \in Jobs, Age(j) PROVE CopiesInv'
    <3>1. OpensCounted
      BY <2>0, <2>13 DEF OpensCounted, Age, Waits
    <3>2. copies' = copies /\ run' = run
      BY <2>13 DEF Age
    <3> QED
      BY <3>1, <3>2, CopiesStep DEF NoneNewlyBusy
  <2> QED
    BY <2>1, <2>2, <2>3, <2>4, <2>5, <2>6, <2>7, <2>8, <2>9, <2>10, <2>11, <2>12, <2>13
    DEF Next, Enqueue, RunStep
<1>3. TypeOK /\ CopiesInv => NoExtraCopies
  <2> SUFFICES ASSUME TypeOK, CopiesInv, NEW j \in Jobs PROVE copies[j] <= opens[j]
    BY DEF NoExtraCopies
  <2>1. copies[j] + Cardinality(Busy(j)) + Waits(j) <= opens[j]
    BY DEF CopiesInv
  <2>2. copies[j] \in Nat /\ opens[j] \in Nat /\ Waits(j) \in {0, 1}
    BY DEF TypeOK, Waits
  <2> QED
    BY <2>1, <2>2, BusyFinite
<1>4. QED
  BY <1>1, <1>2, <1>3, TypeCorrect, PTL DEF Spec

=============================================================================
