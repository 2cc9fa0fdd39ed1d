------------------------- MODULE InvoiceQueueProofs -------------------------
(***************************************************************************)
(* InvoiceQueue for every number of workers, rows, faults and desk         *)
(* actions: at most one legal invoice per row, at most one issued row per  *)
(* order, and no legal invoice that nobody looks after.                    *)
(***************************************************************************)
EXTENDS InvoiceQueue, TLAPS

-----------------------------------------------------------------------------
(* The inductive invariant.                                                *)

\* Rows the provider has not heard of since they were last a draft.
Unsent == {"absent", "draft", "not_required"}

Sending(w) == worker[w].pc \in {"submit", "record"}

\* Nothing legal exists for a row that may be prepared.
UnsentUnmade == \A i \in Invoices : row[i] \in Unsent => made[i] = 0

\* A worker talks to the provider about a row it has locked; before the call
\* and after a refusal nothing was made.
SendingIsSent ==
  \A w \in Workers :
    /\ Sending(w) => row[worker[w].job] \notin Unsent
    /\ worker[w].pc = "submit" => made[worker[w].job] = 0
    /\ worker[w].pc = "record" /\ worker[w].ans = "rejected" =>
         made[worker[w].job] = 0

\* No two workers talk to the provider about the same row.
OneSender ==
  \A w, v \in Workers :
    (Sending(w) /\ Sending(v) /\ worker[w].job = worker[v].job) => w = v

\* An open order has no rows yet.
OpenHasNoRows == order = "open" => \A i \in Invoices : row[i] = "absent"

IInv ==
  /\ TypeOK
  /\ UnsentUnmade
  /\ SendingIsSent
  /\ OneSender
  /\ OpenHasNoRows
  /\ OneLegalInvoice

-----------------------------------------------------------------------------
(* Typing.                                                                 *)

WorkerRecord ==
  [pc : {"idle", "look", "prepare", "submit", "record", "recheck", "finish"},
   job : {None} \cup Invoices,
   ans : {"none"} \cup Answers \cup Verdicts]

\* The workers as TypeOK speaks of them.
WorkersTyped ==
  /\ worker \in [Workers -> WorkerRecord]
  /\ \A w \in Workers :
       /\ worker[w].pc # "idle" => worker[w].job \in Invoices
       /\ worker[w].pc = "record" => worker[w].ans \in Answers
       /\ worker[w].pc = "finish" => worker[w].ans \in Verdicts

JobRecord == [status : JobStatus, due : BOOLEAN, leased : BOOLEAN]

\* What a typed worker that is not idle is made of.
LEMMA WorkerFields ==
  ASSUME TypeOK, NEW w \in Workers
  PROVE  /\ worker[w].pc \in {"idle", "look", "prepare", "submit", "record",
                              "recheck", "finish"}
         /\ worker[w].job \in {None} \cup Invoices
         /\ worker[w].ans \in {"none"} \cup Answers \cup Verdicts
         /\ worker[w].pc # "idle" => worker[w].job \in Invoices
  BY DEF TypeOK

\* Goto moves one worker and keeps its job.
LEMMA GotoFields ==
  ASSUME TypeOK, NEW w \in Workers, NEW pc, NEW ans, Goto(w, pc, ans)
  PROVE  /\ worker'[w] = [pc |-> pc, job |-> worker[w].job, ans |-> ans]
         /\ \A v \in Workers : v # w => worker'[v] = worker[v]
         /\ DOMAIN worker' = Workers
  BY DEF TypeOK, Goto

\* The first row exists.
LEMMA FirstRow == 1 \in Invoices
  BY InvoiceBounds DEF Invoices

\* The workers stay typed when one busy worker moves on,
LEMMA GotoType ==
  ASSUME TypeOK, NEW w \in Workers, worker[w].pc # "idle",
         NEW pc \in {"look", "prepare", "submit", "record", "recheck",
                     "finish"},
         NEW ans \in {"none"} \cup Answers \cup Verdicts,
         pc = "record" => ans \in Answers, pc = "finish" => ans \in Verdicts,
         Goto(w, pc, ans)
  PROVE  WorkersTyped'
  BY DEF TypeOK, Goto, WorkerRecord, WorkersTyped

\* and when one becomes idle.
LEMMA IdleType ==
  ASSUME TypeOK, NEW w \in Workers,
         worker' = [worker EXCEPT ![w] = Idle]
  PROVE  WorkersTyped'
  BY DEF TypeOK, WorkerRecord, WorkersTyped, Idle, Answers, Verdicts

\* The status an answer asks for, and the verdict on it.
LEMMA StatusForType ==
  ASSUME NEW ans \in Answers
  PROVE  /\ StatusFor(ans) \in {"draft", "signing", "submitted", "issued"}
         /\ StatusFor(ans) = "draft" => ans = "rejected"
  BY DEF StatusFor, Answers

\* The fault counter stays within its bound.
LEMMA FaultType ==
  ASSUME TypeOK, Fault
  PROVE  faults' \in 0 .. MaxFaults
  BY InvoiceBounds DEF TypeOK, Fault

LEMMA ActsType ==
  ASSUME TypeOK, Acts
  PROVE  desk' \in 0 .. MaxDesk
  BY InvoiceBounds DEF TypeOK, Acts

\* Recording an issued invoice, or another answer, keeps rows and jobs typed.
LEMMA RecordIssuedType ==
  ASSUME TypeOK, NEW i \in Invoices, RecordIssued(i)
  PROVE  /\ row' \in [Invoices -> RowStatus]
         /\ job' \in [Invoices -> JobRecord]
<1>1. row' \in [Invoices -> RowStatus]
  BY DEF TypeOK, RecordIssued, RowStatus
<1>2. job' \in [Invoices -> JobRecord]
  <2>1. job \in [Invoices -> JobRecord]
    BY DEF TypeOK, JobRecord
  <2>2. CASE job[i] = NoJob
    BY <2>1, <2>2 DEF RecordIssued
  <2>3. CASE job[i] # NoJob
    <3>1. job' = [job EXCEPT ![i].status = "completed", ![i].leased = FALSE]
      BY <2>3 DEF RecordIssued
    <3>2. "completed" \in JobStatus /\ FALSE \in BOOLEAN
      BY DEF JobStatus
    <3> QED
      BY <2>1, <3>1, <3>2 DEF JobRecord
  <2> QED
    BY <2>2, <2>3
<1> QED
  BY <1>1, <1>2

LEMMA WrittenType ==
  ASSUME TypeOK, NEW i \in Invoices,
         NEW to \in {"draft", "submitted", "issued"}, Written(i, to)
  PROVE  /\ row' \in [Invoices -> RowStatus]
         /\ job' \in [Invoices -> JobRecord]
<1>1. CASE to = "issued"
  BY <1>1, RecordIssuedType DEF Written
<1>2. CASE to # "issued"
  <2>1. Transition(i, to)
    BY <1>2 DEF Written
  <2> QED
    BY <1>2, <2>1 DEF TypeOK, Transition, RowStatus, JobRecord
<1> QED
  BY <1>1, <1>2

\* Every step keeps every variable in its type.
LEMMA TypeStep ==
  ASSUME TypeOK, Next
  PROVE  TypeOK'
<1> USE DEF JobRecord, JobStatus, RowStatus
<1>1. CASE AskBeforePaying
  BY <1>1, FirstRow DEF AskBeforePaying, TypeOK
<1>2. CASE SyncAgain
  BY <1>2 DEF SyncAgain, TypeOK
<1>3. CASE Requeue
  <2>1. job' \in [Invoices -> JobRecord]
    BY <1>3 DEF Requeue, RequeuedJob, TypeOK
  <2>2. desk' \in 0 .. MaxDesk
    BY <1>3, ActsType DEF Requeue
  <2> QED
    BY <1>3, <2>1, <2>2 DEF Requeue, TypeOK
<1>4. CASE Refund
  <2>1. /\ row' \in [Invoices -> RowStatus]
        /\ cancelling' \in SUBSET Invoices
    BY <1>4 DEF Refund, Cancel, Latest, TypeOK
  <2>2. desk' \in 0 .. MaxDesk
    BY <1>4, ActsType DEF Refund
  <2> QED
    BY <1>4, <2>1, <2>2 DEF Refund, TypeOK
<1>5. ASSUME NEW total \in {"zero", "positive"}, Pay(total)
      PROVE  TypeOK'
  BY <1>5, FirstRow DEF Pay, NewIssueJob, NoJob, TypeOK
<1>6. ASSUME NEW i \in Invoices, BecomeDue(i)
      PROVE  TypeOK'
  BY <1>6 DEF BecomeDue, TypeOK
<1>7. ASSUME NEW i \in Invoices, LeaseExpires(i)
      PROVE  TypeOK'
  BY <1>7 DEF LeaseExpires, TypeOK
<1>8. ASSUME NEW i \in Invoices, ReconcileByHand(i)
      PROVE  TypeOK'
  <2>1. row' \in [Invoices -> RowStatus] /\ job' \in [Invoices -> JobRecord]
    BY <1>8, RecordIssuedType DEF ReconcileByHand
  <2>2. desk' \in 0 .. MaxDesk
    BY <1>8, ActsType DEF ReconcileByHand
  <2> QED
    BY <1>8, <2>1, <2>2 DEF ReconcileByHand, TypeOK
<1>9. ASSUME NEW i \in Invoices, FinanceCancel(i)
      PROVE  TypeOK'
  <2>1. desk' \in 0 .. MaxDesk
    BY <1>9, ActsType DEF FinanceCancel
  <2> QED
    BY <1>9, <2>1 DEF FinanceCancel, Cancel, TypeOK
<1>10. ASSUME NEW i \in Invoices, ReserveReplacement(i)
       PROVE  TypeOK'
  <2>1. desk' \in 0 .. MaxDesk
    BY <1>10, ActsType DEF ReserveReplacement
  <2> QED
    BY <1>10, <2>1 DEF ReserveReplacement, RequeuedJob, TypeOK
<1>11. ASSUME NEW i \in Invoices, ProviderCancel(i)
       PROVE  TypeOK'
  <2>1. faults' \in 0 .. MaxFaults
    BY <1>11, FaultType DEF ProviderCancel, TypeOK
  <2> QED
    BY <1>11, <2>1 DEF ProviderCancel, TypeOK
<1>12. ASSUME NEW w \in Workers, ClaimStep(w)
       PROVE  TypeOK'
  <2>1. PICK S \in {Invoices} \cup {{i} : i \in Invoices} :
          Claim(w, S) \/ ClaimNothing(w, S)
    BY <1>12 DEF ClaimStep
  <2>2. Swept(S) \in [Invoices -> JobRecord]
    BY DEF Swept, TypeOK
  <2>3. CASE Claim(w, S)
    <3>1. PICK i \in S :
            /\ job' = [Swept(S) EXCEPT ![i].status = "processing",
                                       ![i].leased = TRUE]
            /\ worker' = [worker EXCEPT ![w] = [pc |-> "look", job |-> i,
                                                ans |-> "none"]]
      BY <2>3 DEF Claim
    <3>2. i \in Invoices
      BY <2>1
    <3>3. job' \in [Invoices -> JobRecord]
      BY <2>2, <3>1, <3>2
    <3>4. WorkersTyped'
      BY <3>1, <3>2 DEF WorkersTyped, WorkerRecord, TypeOK
    <3> QED
      BY <2>3, <3>3, <3>4 DEF Claim, TypeOK, WorkersTyped, WorkerRecord
  <2>4. CASE ClaimNothing(w, S)
    BY <2>2, <2>4 DEF ClaimNothing, TypeOK
  <2> QED
    BY <2>1, <2>3, <2>4
<1>13. ASSUME NEW w \in Workers, Look(w)
       PROVE  TypeOK'
  <2>1. WorkersTyped'
    BY <1>13, GotoType DEF Look, Verdicts
  <2>2. faults' \in 0 .. MaxFaults
    BY <1>13, FaultType DEF Look, TypeOK
  <2> QED
    BY <1>13, <2>1, <2>2 DEF Look, TypeOK, WorkersTyped, WorkerRecord
<1>14. ASSUME NEW w \in Workers, Prepare(w)
       PROVE  TypeOK'
  <2>1. WorkersTyped'
    BY <1>14, GotoType DEF Prepare
  <2>2. faults' \in 0 .. MaxFaults
    BY <1>14, FaultType DEF Prepare, TypeOK
  <2>3. row' \in [Invoices -> RowStatus]
    BY <1>14 DEF Prepare, TypeOK
  <2> QED
    BY <1>14, <2>1, <2>2, <2>3 DEF Prepare, TypeOK, WorkersTyped, WorkerRecord
<1>15. ASSUME NEW w \in Workers, Submit(w)
       PROVE  TypeOK'
  <2>1. WorkersTyped'
    BY <1>15, GotoType DEF Submit, Answers
  <2>2. worker[w].job \in Invoices
    BY <1>15 DEF Submit, TypeOK
  <2>3. /\ made' \in [Invoices -> Nat]
        /\ legal' \in [Invoices -> {"none", "valid", "cancelled", "replaced"}]
    BY <1>15, <2>2 DEF Submit, ProviderMakes, TypeOK
  <2> QED
    BY <1>15, <2>1, <2>3 DEF Submit, TypeOK, WorkersTyped, WorkerRecord
<1>16. ASSUME NEW w \in Workers, Record(w)
       PROVE  TypeOK'
  <2> DEFINE i  == worker[w].job
             to == StatusFor(worker[w].ans)
  <2>1. /\ i \in Invoices
        /\ to \in {"draft", "signing", "submitted", "issued"}
    BY <1>16, StatusForType DEF Record, TypeOK
  <2>2. \/ row' = row /\ job' = job
        \/ to # "signing" /\ Written(i, to)
    BY <1>16 DEF Record
  <2>3. /\ row' \in [Invoices -> RowStatus]
        /\ job' \in [Invoices -> JobRecord]
    <3>1. CASE row' = row /\ job' = job
      BY <3>1 DEF TypeOK
    <3>2. CASE to # "signing" /\ Written(i, to)
      BY <2>1, <3>2, WrittenType
    <3> QED
      BY <2>2, <3>1, <3>2
  <2>4. WorkersTyped'
    <3>1. \/ Goto(w, "finish", "reconcile_required")
          \/ Goto(w, "finish", VerdictOn(to))
          \/ Goto(w, "recheck", "none")
          \/ worker' = [worker EXCEPT ![w] = Idle]
      BY <1>16 DEF Record
    <3>2. worker[w].pc # "idle"
      BY <1>16 DEF Record
    <3>3. VerdictOn(to) \in Verdicts /\ "reconcile_required" \in Verdicts
      BY DEF VerdictOn, Verdicts
    <3>4. CASE Goto(w, "finish", "reconcile_required")
      BY <3>2, <3>3, <3>4, GotoType
    <3>5. CASE Goto(w, "finish", VerdictOn(to))
      BY <3>2, <3>3, <3>5, GotoType
    <3>6. CASE Goto(w, "recheck", "none")
      BY <3>2, <3>6, GotoType
    <3>7. CASE worker' = [worker EXCEPT ![w] = Idle]
      BY <3>7, IdleType
    <3> QED
      BY <3>1, <3>4, <3>5, <3>6, <3>7
  <2>5. faults' \in 0 .. MaxFaults
    BY <1>16, FaultType DEF Record, TypeOK
  <2> QED
    BY <1>16, <2>3, <2>4, <2>5 DEF Record, TypeOK, WorkersTyped, WorkerRecord
<1>17. ASSUME NEW w \in Workers, Recheck(w)
       PROVE  TypeOK'
  <2>1. WorkersTyped'
    BY <1>17, GotoType, IdleType DEF Recheck, Verdicts
  <2>2. faults' \in 0 .. MaxFaults
    BY <1>17, FaultType DEF Recheck, TypeOK
  <2> QED
    BY <1>17, <2>1, <2>2 DEF Recheck, TypeOK, WorkersTyped, WorkerRecord
<1>18. ASSUME NEW w \in Workers, FinishJob(w)
       PROVE  TypeOK'
  <2>1. WorkersTyped'
    BY <1>18, IdleType DEF FinishJob
  <2>2. faults' \in 0 .. MaxFaults
    BY <1>18, FaultType DEF FinishJob, TypeOK
  <2>3. worker[w].ans \in JobStatus
    BY <1>18 DEF FinishJob, TypeOK, Verdicts
  <2>4. job' \in [Invoices -> JobRecord]
    <3>1. CASE UNCHANGED job
      BY <3>1 DEF TypeOK
    <3>2. CASE job' = [job EXCEPT ![worker[w].job].status = worker[w].ans,
                                  ![worker[w].job].leased = FALSE]
      <4>1. job \in [Invoices -> JobRecord] /\ FALSE \in BOOLEAN
        BY DEF TypeOK
      <4>2. [job EXCEPT ![worker[w].job].status = worker[w].ans]
              \in [Invoices -> JobRecord]
        BY <2>3, <4>1
      <4> QED
        BY <2>3, <3>2, <4>1, <4>2
    <3> QED
      BY <1>18, <3>1, <3>2 DEF FinishJob
  <2> QED
    BY <1>18, <2>1, <2>2, <2>4 DEF FinishJob, TypeOK, WorkersTyped, WorkerRecord
<1>19. ASSUME NEW w \in Workers, Throw(w)
       PROVE  TypeOK'
  <2>1. WorkersTyped'
    BY <1>19, GotoType DEF Throw, Verdicts
  <2>2. faults' \in 0 .. MaxFaults
    BY <1>19, FaultType DEF Throw
  <2> QED
    BY <1>19, <2>1, <2>2 DEF Throw, TypeOK, WorkersTyped, WorkerRecord
<1>20. ASSUME NEW w \in Workers, Killed(w)
       PROVE  TypeOK'
  <2>1. WorkersTyped'
    BY <1>20, IdleType DEF Killed
  <2>2. faults' \in 0 .. MaxFaults
    BY <1>20, FaultType DEF Killed
  <2> QED
    BY <1>20, <2>1, <2>2 DEF Killed, TypeOK, WorkersTyped, WorkerRecord
<1> QED
  BY <1>1, <1>2, <1>3, <1>4, <1>5, <1>6, <1>7, <1>8, <1>9, <1>10, <1>11,
     <1>12, <1>13, <1>14, <1>15, <1>16, <1>17, <1>18, <1>19, <1>20
     DEF Next, WorkerStep

\* The initial state is typed.
LEMMA TypeInit ==
  ASSUME Init
  PROVE  TypeOK
  BY InvoiceBounds DEF Init, TypeOK, RowStatus, JobStatus, NoJob, Idle

\* Every reachable state is typed, for every value of the constants.
THEOREM TypeCorrect == Spec => []TypeOK
<1>1. Init => TypeOK
  BY TypeInit
<1>2. TypeOK /\ [Next]_vars => TypeOK'
  <2> SUFFICES ASSUME TypeOK, [Next]_vars PROVE TypeOK'
    OBVIOUS
  <2>1. CASE Next
    BY <2>1, TypeStep
  <2>2. CASE UNCHANGED vars
    BY <2>2 DEF vars, TypeOK
  <2> QED
    BY <2>1, <2>2
<1> QED
  BY <1>1, <1>2, PTL DEF Spec

-----------------------------------------------------------------------------
(* One legal invoice per row.                                              *)

\* The part of the invariant beside the types.
Inner == UnsentUnmade /\ SendingIsSent /\ OneSender /\ OpenHasNoRows
         /\ OneLegalInvoice

\* A step that leaves rows, the provider and the senders alone keeps it.
LEMMA QuietStep ==
  ASSUME IInv, UNCHANGED <<order, row, made, worker>>
  PROVE  Inner'
  BY DEF IInv, Inner, UnsentUnmade, SendingIsSent, OneSender, OpenHasNoRows,
         OneLegalInvoice, Sending

\* A worker that goes where it does not talk to the provider keeps it.
LEMMA LeaveStep ==
  ASSUME IInv, NEW w \in Workers, UNCHANGED <<order, row, made>>,
         \A v \in Workers : v # w => worker'[v] = worker[v],
         worker'[w].pc \notin {"submit", "record"}
  PROVE  Inner'
  BY DEF IInv, Inner, UnsentUnmade, SendingIsSent, OneSender, OpenHasNoRows,
         OneLegalInvoice, Sending

\* So do rows that move without becoming unsent, or from unsent to unsent,
\* while no order is open.
LEMMA RowStep ==
  ASSUME IInv, order' # "open", UNCHANGED <<made, worker>>,
         \A i \in Invoices : row'[i] \in Unsent => row[i] \in Unsent
  PROVE  Inner'
<1>1. SendingIsSent'
  BY DEF IInv, SendingIsSent, Sending, TypeOK
<1> QED
  BY <1>1 DEF IInv, Inner, UnsentUnmade, OneSender, OpenHasNoRows,
              OneLegalInvoice, Sending

\* A row is paid for once, drafted only when nothing was made for it.
LEMMA DraftStep ==
  ASSUME IInv, order' # "open", NEW n \in Invoices, row[n] \in Unsent,
         NEW s \in RowStatus, row' = [row EXCEPT ![n] = s],
         UNCHANGED <<made, worker>>
  PROVE  Inner'
  BY RowStep DEF IInv, TypeOK

\* Recording an issued invoice leaves no row unsent that was sent.
LEMMA RecordIssuedRows ==
  ASSUME TypeOK, NEW i \in Invoices, RecordIssued(i)
  PROVE  \A k \in Invoices : row'[k] \in Unsent => row[k] \in Unsent
  BY DEF TypeOK, RecordIssued, Unsent

\* Every step keeps the rest of the invariant.
LEMMA InnerStep ==
  ASSUME IInv, Next
  PROVE  Inner'
<1>1. CASE AskBeforePaying
  BY <1>1, QuietStep DEF AskBeforePaying
<1>2. CASE SyncAgain
  <2>1. PICK n \in Invoices : NextRow(n) /\ row' = [row EXCEPT ![n] = "draft"]
    BY <1>2 DEF SyncAgain
  <2> QED
    BY <1>2, <2>1, DraftStep DEF SyncAgain, NextRow, Unsent, RowStatus
<1>3. CASE Requeue
  BY <1>3, QuietStep DEF Requeue
<1>4. CASE Refund
  BY <1>4, RowStep DEF Refund, Cancel, Latest, IInv, TypeOK, Unsent
<1>5. ASSUME NEW total \in {"zero", "positive"}, Pay(total)
      PROVE  Inner'
  <2>1. row[1] = "absent"
    BY <1>5, FirstRow DEF Pay, IInv, OpenHasNoRows
  <2> QED
    BY <1>5, <2>1, FirstRow, DraftStep DEF Pay, Unsent, RowStatus
<1>6. ASSUME NEW i \in Invoices,
             BecomeDue(i) \/ LeaseExpires(i) \/ ProviderCancel(i)
      PROVE  Inner'
  BY <1>6, QuietStep DEF BecomeDue, LeaseExpires, ProviderCancel
<1>7. ASSUME NEW i \in Invoices, ReconcileByHand(i)
      PROVE  Inner'
  <2>1. order' # "open"
    BY <1>7 DEF ReconcileByHand, RecordIssued, Reconcilable, IInv,
                OpenHasNoRows
  <2> QED
    BY <1>7, <2>1, RecordIssuedRows, RowStep DEF ReconcileByHand, IInv
<1>8. ASSUME NEW i \in Invoices, FinanceCancel(i)
      PROVE  Inner'
  <2>1. order' # "open"
    BY <1>8 DEF FinanceCancel, IInv, OpenHasNoRows
  <2> QED
    BY <1>8, <2>1, RowStep DEF FinanceCancel, Cancel, IInv, TypeOK, Unsent
<1>9. ASSUME NEW i \in Invoices, ReserveReplacement(i)
      PROVE  Inner'
  <2>1. order' # "open"
    BY <1>9 DEF ReserveReplacement, Replaceable, IInv, OpenHasNoRows
  <2>2. PICK n \in Invoices : NextRow(n) /\ row' = [row EXCEPT ![n] = "draft"]
    BY <1>9 DEF ReserveReplacement
  <2> QED
    BY <1>9, <2>1, <2>2, DraftStep
       DEF ReserveReplacement, NextRow, Unsent, RowStatus
<1>10. ASSUME NEW w \in Workers, ClaimStep(w)
       PROVE  Inner'
  <2>1. PICK S \in {Invoices} \cup {{i} : i \in Invoices} :
          Claim(w, S) \/ ClaimNothing(w, S)
    BY <1>10 DEF ClaimStep
  <2>2. CASE Claim(w, S)
    BY <2>2, LeaveStep DEF Claim, IInv, TypeOK
  <2>3. CASE ClaimNothing(w, S)
    BY <2>3, QuietStep DEF ClaimNothing
  <2> QED
    BY <2>1, <2>2, <2>3
<1>11. ASSUME NEW w \in Workers,
              Look(w) \/ Recheck(w) \/ FinishJob(w) \/ Throw(w) \/ Killed(w)
       PROVE  Inner'
  <2>1. UNCHANGED <<order, row, made>>
    BY <1>11 DEF Look, Recheck, FinishJob, Throw, Killed
  <2>2. /\ \A v \in Workers : v # w => worker'[v] = worker[v]
        /\ worker'[w].pc \notin {"submit", "record"}
    BY <1>11 DEF Look, Recheck, FinishJob, Throw, Killed, Goto, Idle, IInv,
                 TypeOK
  <2> QED
    BY <2>1, <2>2, LeaveStep
<1>12. ASSUME NEW w \in Workers, Prepare(w)
       PROVE  Inner'
  <2> DEFINE i == worker[w].job
  <2>1. i \in Invoices /\ TypeOK
    BY <1>12 DEF Prepare, IInv, TypeOK
  <2>2. /\ DOMAIN worker' = Workers
        /\ worker'[w].job = i
        /\ \A v \in Workers : v # w => worker'[v] = worker[v]
        /\ worker'[w].pc \in {"submit", "recheck"}
        /\ worker'[w].pc = "submit" =>
             row[i] = "draft" /\ row' = [row EXCEPT ![i] = "signing"]
    BY <1>12, <2>1 DEF Prepare, Preparable, Goto, TypeOK
  <2>3. CASE UNCHANGED row
    <3>1. worker'[w].pc # "submit"
      BY <2>1, <2>2, <2>3 DEF TypeOK
    <3> QED
      BY <1>12, <2>2, <2>3, <3>1, LeaveStep DEF Prepare
  <2>4. CASE row' # row
    <3>1. row[i] = "draft" /\ row' = [row EXCEPT ![i] = "signing"]
      BY <1>12, <2>4 DEF Prepare, Preparable
    <3>2. made[i] = 0 /\ \A v \in Workers : Sending(v) => worker[v].job # i
      BY <2>1, <3>1 DEF IInv, UnsentUnmade, SendingIsSent, Unsent
    <3>3. worker'[w].pc \in {"submit", "recheck"}
      BY <2>2
    <3>4. OpenHasNoRows' /\ OneLegalInvoice' /\ UnsentUnmade'
      BY <1>12, <2>1, <3>1
         DEF Prepare, IInv, OpenHasNoRows, OneLegalInvoice, UnsentUnmade,
             Unsent, TypeOK
    <3>5. OneSender'
      BY <2>2, <3>2 DEF IInv, OneSender, Sending
    <3>6. SendingIsSent'
      BY <1>12, <2>1, <2>2, <3>1, <3>2, <3>3
         DEF Prepare, IInv, SendingIsSent, Sending, Unsent, TypeOK
    <3> QED
      BY <3>4, <3>5, <3>6 DEF Inner
  <2> QED
    BY <2>3, <2>4
<1>13. ASSUME NEW w \in Workers, Submit(w)
       PROVE  Inner'
  <2> DEFINE i == worker[w].job
  <2>1. /\ i \in Invoices /\ TypeOK
        /\ row[i] \notin Unsent
        /\ made[i] = 0
        /\ \A v \in Workers : Sending(v) /\ worker[v].job = i => v = w
    BY <1>13 DEF Submit, IInv, TypeOK, SendingIsSent, Sending, OneSender
  <2>2. PICK a \in Answers :
          /\ Goto(w, "record", a)
          /\ \/ made' = made
             \/ a # "rejected" /\ made' = [made EXCEPT ![i] = @ + 1]
    BY <1>13 DEF Submit, ProviderMakes, Answers
  <2>3. /\ worker'[w] = [pc |-> "record", job |-> i, ans |-> a]
        /\ \A v \in Workers : v # w => worker'[v] = worker[v]
    BY <2>1, <2>2, GotoFields
  <2>4. /\ made'[i] \in {0, 1}
        /\ a = "rejected" => made'[i] = 0
        /\ \A k \in Invoices : k # i => made'[k] = made[k]
    BY <2>1, <2>2 DEF TypeOK
  <2>5. UNCHANGED <<order, row>>
    BY <1>13 DEF Submit
  <2>6. UnsentUnmade' /\ OneLegalInvoice' /\ OpenHasNoRows'
    BY <2>1, <2>4, <2>5 DEF IInv, UnsentUnmade, OneLegalInvoice, OpenHasNoRows
  <2>7. OneSender'
    BY <2>1, <2>3 DEF IInv, OneSender, Sending
  <2>8. SendingIsSent'
    <3> SUFFICES ASSUME NEW v \in Workers
                 PROVE  /\ Sending(v)' => row'[worker'[v].job] \notin Unsent
                        /\ worker'[v].pc = "submit" => made'[worker'[v].job] = 0
                        /\ worker'[v].pc = "record" /\ worker'[v].ans = "rejected"
                             => made'[worker'[v].job] = 0
      BY DEF SendingIsSent
    <3>1. CASE v = w
      BY <2>1, <2>3, <2>4, <2>5, <3>1 DEF Sending
    <3>2. CASE v # w
      <4>1. Sending(v) => worker[v].job # i /\ worker[v].job \in Invoices
        BY <2>1, <3>2 DEF Sending, TypeOK
      <4> QED
        BY <2>3, <2>4, <2>5, <3>2, <4>1 DEF IInv, SendingIsSent, Sending
    <3> QED
      BY <3>1, <3>2
  <2> QED
    BY <2>6, <2>7, <2>8 DEF Inner
<1>14. ASSUME NEW w \in Workers, Record(w)
       PROVE  Inner'
  <2> DEFINE i  == worker[w].job
             to == StatusFor(worker[w].ans)
  <2>1. /\ i \in Invoices /\ TypeOK
        /\ row[i] \notin Unsent
        /\ \A v \in Workers : Sending(v) /\ worker[v].job = i => v = w
        /\ worker[w].ans = "rejected" => made[i] = 0
        /\ worker[w].ans \in Answers
    BY <1>14 DEF Record, IInv, TypeOK, SendingIsSent, Sending, OneSender
  <2>2. /\ \A v \in Workers : v # w => worker'[v] = worker[v]
        /\ worker'[w].pc \notin {"submit", "record"}
    BY <1>14, <2>1 DEF Record, Goto, Idle, TypeOK
  <2>3. UNCHANGED <<order, made>>
    BY <1>14 DEF Record
  <2>4. CASE UNCHANGED row
    BY <2>2, <2>3, <2>4, LeaveStep
  <2>5. CASE row' # row
    <3>1. Written(i, to) /\ to \in {"draft", "submitted", "issued"}
      BY <1>14, <2>1, <2>5, StatusForType DEF Record
    <3>2. /\ \A k \in Invoices \ {i} : row'[k] \in Unsent => row[k] \in Unsent
          /\ row'[i] \in Unsent => made[i] = 0
      <4>1. CASE to = "issued"
        BY <2>1, <3>1, <4>1, RecordIssuedRows DEF Written
      <4>2. CASE to # "issued"
        <5>1. row' = [row EXCEPT ![i] = to]
          BY <3>1, <4>2 DEF Written, Transition
        <5>2. row'[i] \in Unsent => worker[w].ans = "rejected"
          BY <2>1, <3>1, <4>2, <5>1, StatusForType DEF TypeOK, Unsent
        <5> QED
          BY <2>1, <5>1, <5>2 DEF TypeOK
      <4> QED
        BY <4>1, <4>2
    <3>3. order # "open"
      BY <2>1 DEF IInv, OpenHasNoRows, Unsent
    <3>4. UnsentUnmade' /\ OneLegalInvoice' /\ OpenHasNoRows'
      BY <2>3, <3>2, <3>3 DEF IInv, UnsentUnmade, OneLegalInvoice,
                              OpenHasNoRows
    <3>5. OneSender'
      BY <2>2 DEF IInv, OneSender, Sending
    <3>6. SendingIsSent'
      <4> SUFFICES ASSUME NEW v \in Workers
                   PROVE  /\ Sending(v)' => row'[worker'[v].job] \notin Unsent
                          /\ worker'[v].pc = "submit" =>
                               made'[worker'[v].job] = 0
                          /\ worker'[v].pc = "record"
                             /\ worker'[v].ans = "rejected" =>
                               made'[worker'[v].job] = 0
        BY DEF SendingIsSent
      <4>1. CASE v = w
        BY <2>2, <4>1 DEF Sending
      <4>2. CASE v # w
        <5>1. Sending(v) => worker[v].job \in Invoices \ {i}
          BY <2>1, <4>2 DEF Sending, TypeOK
        <5> QED
          BY <2>2, <2>3, <3>2, <4>2, <5>1 DEF IInv, SendingIsSent, Sending
      <4> QED
        BY <4>1, <4>2
    <3> QED
      BY <3>4, <3>5, <3>6 DEF Inner
  <2> QED
    BY <2>4, <2>5
<1> QED
  BY <1>1, <1>2, <1>3, <1>4, <1>5, <1>6, <1>7, <1>8, <1>9, <1>10, <1>11,
     <1>12, <1>13, <1>14 DEF Next, WorkerStep

\* At most one legal invoice is created for a row, for every value of the
\* constants: the rows alone prevent the second one.
THEOREM OneLegalInvoiceHolds == Spec => []OneLegalInvoice
<1>1. Init => IInv
  BY TypeInit DEF Init, IInv, UnsentUnmade, SendingIsSent, OneSender,
                  OpenHasNoRows, OneLegalInvoice, Sending, Idle
<1>2. IInv /\ [Next]_vars => IInv'
  <2> SUFFICES ASSUME IInv, [Next]_vars PROVE IInv'
    OBVIOUS
  <2>1. CASE Next
    BY <2>1, TypeStep, InnerStep DEF IInv, Inner
  <2>2. CASE UNCHANGED vars
    BY <2>2, QuietStep DEF vars, IInv, Inner, TypeOK
  <2> QED
    BY <2>1, <2>2
<1>3. IInv => OneLegalInvoice
  BY DEF IInv
<1> QED
  BY <1>1, <1>2, <1>3, PTL DEF Spec
-----------------------------------------------------------------------------
(* One issued invoice, and no legal one forgotten.                         *)

\* Beside an active row of the order stands at most the replacement reserved
\* for it, and that only while the original is issued and it is not.
OnePath ==
  \A i, k \in Invoices :
    (i # k /\ Active(i) /\ Active(k)) =>
      \/ replacedFor[k] = i /\ row[i] = "issued" /\ row[k] # "issued"
      \/ replacedFor[i] = k /\ row[k] = "issued" /\ row[i] # "issued"

NotItself == \A i \in Invoices : replacedFor[i] # i

LegalIsMade == \A i \in Invoices : made[i] = 0 => legal[i] = "none"

IssuedIsLegal ==
  \A i \in Invoices : row[i] = "issued" => legal[i] \in {"valid", "replaced"}

Answered(w, i) ==
  worker[w].pc = "record" /\ worker[w].ans = "issued" /\ worker[w].job = i

\* A worker that writes "issued" down was told of an invoice.
AnswerIsLegal ==
  \A w \in Workers : \A i \in Invoices : Answered(w, i) => legal[i] # "none"

\* Only what was cancelled here is cancelled at the provider, and such a row
\* never comes back.
CancelledRows ==
  \A i \in Invoices :
    (i \in cancelling \/ legal[i] = "cancelled") => row[i] = "cancelled"

\* The invoice a replacement was made for is no longer valid.
OriginalGone ==
  \A i, k \in Invoices :
    (replacedFor[i] = k /\ legal[i] # "none") => legal[k] = "replaced"

Watched(i) == job[i].status \in {"processing", "blocked", "reconcile_required"}
Noticed(i) == i \in cancelling \cup notice
Pending(i) == row[i] \in {"signing", "submitted"}
Unrecorded(i) == legal[i] = "valid" /\ row[i] # "issued"
Calls(w, i) == worker[w].pc = "submit" /\ worker[w].job = i

\* The job of a row that is with the provider, or about to be, is in hand.
InHand ==
  \A i \in Invoices :
    Pending(i) \/ (\E w \in Workers : Calls(w, i)) => Watched(i)

Law == LegalIsMade /\ IssuedIsLegal /\ AnswerIsLegal /\ CancelledRows
       /\ OriginalGone

RowsSound == IInv /\ OnePath /\ NotItself /\ Law /\ InHand /\ NothingForgotten

\* Nothing is legal for a row the provider has not heard of, and nobody talks
\* to the provider about it.
LEMMA UnsentIsQuiet ==
  ASSUME IInv, LegalIsMade, NEW i \in Invoices, row[i] \in Unsent
  PROVE  /\ made[i] = 0
         /\ legal[i] = "none"
         /\ \A w \in Workers : ~Calls(w, i) /\ ~Answered(w, i)
  BY DEF IInv, LegalIsMade, UnsentUnmade, SendingIsSent, Sending, Calls,
         Answered

\* Nor is anything before the call.
LEMMA CallerIsFirst ==
  ASSUME IInv, LegalIsMade, NEW w \in Workers, NEW i \in Invoices, Calls(w, i)
  PROVE  /\ made[i] = 0
         /\ legal[i] = "none"
         /\ row[i] \notin Unsent
  BY DEF IInv, LegalIsMade, SendingIsSent, Sending, Calls

-----------------------------------------------------------------------------
(* The rows of the order.                                                  *)

Paths == OnePath /\ NotItself

\* Rows that leave the active ones, or stay there short of being issued, keep
\* the paths.
LEMMA PathsShrink ==
  ASSUME Paths, UNCHANGED replacedFor,
         \A i \in Invoices :
           Active(i)' => Active(i) /\ (row'[i] = "issued" <=> row[i] = "issued")
  PROVE  Paths'
  BY DEF Paths, OnePath, NotItself

\* So does a first row.
LEMMA PathsBegin ==
  ASSUME IInv, Paths, UNCHANGED replacedFor, \A i \in Invoices : ~Active(i),
         NEW n \in Invoices, NEW s, row' = [row EXCEPT ![n] = s]
  PROVE  Paths'
<1>1. \A i \in Invoices : i # n => row'[i] = row[i]
  BY DEF IInv, TypeOK
<1>2. \A i \in Invoices : i # n => ~Active(i)'
  BY <1>1 DEF Active
<1>3. \A i, k \in Invoices : i # k => ~(Active(i)' /\ Active(k)')
  BY <1>2
<1> QED
  BY <1>3 DEF Paths, OnePath, NotItself

\* So does a replacement recorded as issued: its original leaves.
LEMMA PathsEnd ==
  ASSUME IInv, Paths, UNCHANGED replacedFor, NEW i \in Invoices,
         RecordIssued(i)
  PROVE  Paths'
<1>1. \A k \in Invoices :
        k # i => IF k = replacedFor[i] THEN row'[k] = "replaced"
                                       ELSE row'[k] = row[k]
  BY DEF RecordIssued
<1>2. Active(i) /\ row[i] # "issued"
  BY DEF RecordIssued, Reconcilable, Active
<1>3. \A k \in Invoices : k # i => ~Active(k)'
  <2> SUFFICES ASSUME NEW k \in Invoices, k # i, Active(k)'
               PROVE  FALSE
    OBVIOUS
  <2>1. k # replacedFor[i] /\ row'[k] = row[k]
    BY <1>1 DEF Active
  <2>2. Active(k)
    BY <2>1 DEF Active
  <2> QED
    BY <1>2, <2>1, <2>2 DEF Paths, OnePath
<1>4. \A j, k \in Invoices : j # k => ~(Active(j)' /\ Active(k)')
  BY <1>3
<1> QED
  BY <1>4 DEF Paths, OnePath, NotItself

\* So does a replacement that is reserved.
LEMMA PathsFork ==
  ASSUME IInv, Paths, NEW i \in Invoices, ReserveReplacement(i)
  PROVE  Paths'
<1>1. PICK n \in Invoices :
        /\ NextRow(n)
        /\ row' = [row EXCEPT ![n] = "draft"]
        /\ replacedFor' = [replacedFor EXCEPT ![n] = i]
  BY DEF ReserveReplacement
<1>2. /\ n # i
      /\ row[i] = "issued" /\ row'[i] = "issued" /\ row'[n] = "draft"
      /\ replacedFor'[n] = i
      /\ \A k \in Invoices :
           k # n => row'[k] = row[k] /\ replacedFor'[k] = replacedFor[k]
  BY <1>1 DEF ReserveReplacement, Replaceable, NextRow, IInv, TypeOK
<1>3. \A k \in Invoices : k # i => ~Active(k)
  BY <1>2 DEF ReserveReplacement, Replaceable, Paths, OnePath, Active
<1>4. \A k \in Invoices : Active(k)' => k \in {i, n}
  BY <1>2, <1>3 DEF Active
<1>5. OnePath'
  BY <1>2, <1>4 DEF OnePath
<1>6. NotItself'
  BY <1>2 DEF Paths, NotItself
<1> QED
  BY <1>5, <1>6 DEF Paths

\* Every step keeps the paths.
LEMMA PathsStep ==
  ASSUME IInv, Paths, Next
  PROVE  Paths'
<1>1. CASE UNCHANGED <<row, replacedFor>>
  BY <1>1, PathsShrink DEF Active
<1>2. CASE SyncAgain
  BY <1>2, PathsBegin DEF SyncAgain
<1>3. ASSUME NEW total \in {"zero", "positive"}, Pay(total)
      PROVE  Paths'
  BY <1>3, FirstRow, PathsBegin DEF Pay, IInv, OpenHasNoRows, Active
<1>4. CASE Refund \/ \E i \in Invoices : FinanceCancel(i)
  <2>1. UNCHANGED replacedFor
    BY <1>4 DEF Refund, FinanceCancel
  <2>2. UNCHANGED row \/ \E i \in Invoices : row' = [row EXCEPT ![i] = "cancelled"]
    BY <1>4 DEF Refund, FinanceCancel, Cancel
  <2> QED
    BY <2>1, <2>2, PathsShrink DEF IInv, TypeOK, Active
<1>5. ASSUME NEW i \in Invoices, ReconcileByHand(i)
      PROVE  Paths'
  BY <1>5, PathsEnd DEF ReconcileByHand
<1>6. ASSUME NEW i \in Invoices, ReserveReplacement(i)
      PROVE  Paths'
  BY <1>6, PathsFork
<1>7. ASSUME NEW w \in Workers, Prepare(w)
      PROVE  Paths'
  <2>1. /\ worker[w].job \in Invoices
        /\ UNCHANGED replacedFor
        /\ \/ UNCHANGED row
           \/ /\ row[worker[w].job] = "draft"
              /\ row' = [row EXCEPT ![worker[w].job] = "signing"]
    BY <1>7 DEF Prepare, Preparable, IInv, TypeOK
  <2> QED
    BY <2>1, PathsShrink DEF IInv, TypeOK, Active
<1>8. ASSUME NEW w \in Workers, Record(w)
      PROVE  Paths'
  <2> DEFINE i  == worker[w].job
             to == StatusFor(worker[w].ans)
  <2>1. /\ i \in Invoices
        /\ to \in {"draft", "signing", "submitted", "issued"}
        /\ UNCHANGED replacedFor
        /\ UNCHANGED row \/ (to # "signing" /\ Written(i, to))
    BY <1>8, StatusForType DEF Record, IInv, TypeOK
  <2>2. CASE UNCHANGED row
    BY <2>1, <2>2, PathsShrink DEF Active
  <2>3. CASE to = "issued" /\ Written(i, to)
    BY <2>1, <2>3, PathsEnd DEF Written
  <2>4. CASE to # "issued" /\ to # "signing" /\ Written(i, to)
    <3>1. row[i] = "signing" /\ row' = [row EXCEPT ![i] = to]
      BY <2>4 DEF Written, Transition, Transitions
    <3>2. to \in {"draft", "submitted"}
      BY <2>1, <2>4
    <3> HIDE DEF i, to
    <3> QED
      BY <2>1, <3>1, <3>2, PathsShrink DEF IInv, TypeOK, Active
  <2> QED
    BY <2>1, <2>2, <2>3, <2>4
<1>9. CASE \E w \in Workers :
             \/ ClaimStep(w) \/ Look(w) \/ Submit(w) \/ Recheck(w)
             \/ FinishJob(w) \/ Throw(w) \/ Killed(w)
  BY <1>9, <1>1 DEF ClaimStep, Claim, ClaimNothing, Look, Submit, Recheck,
                    FinishJob, Throw, Killed
<1>10. CASE \/ AskBeforePaying \/ Requeue
            \/ \E i \in Invoices :
                 BecomeDue(i) \/ LeaseExpires(i) \/ ProviderCancel(i)
  BY <1>10, <1>1 DEF AskBeforePaying, Requeue, BecomeDue, LeaseExpires,
                     ProviderCancel
<1> QED
  BY <1>2, <1>3, <1>4, <1>5, <1>6, <1>7, <1>8, <1>9, <1>10
     DEF Next, WorkerStep
-----------------------------------------------------------------------------
(* Rows and what the provider holds.                                       *)

\* Steps that neither create nor cancel an invoice at the provider, record
\* one as issued only when it exists there, and leave cancelled rows alone.
Agrees ==
  /\ UNCHANGED <<replacedFor, made, legal>>
  /\ \A i \in Invoices :
       /\ row'[i] = "issued" =>
            \/ row[i] = "issued"
            \/ row[i] # "cancelled" /\ legal[i] # "none"
       /\ row[i] = "cancelled" => row'[i] = "cancelled"
       /\ i \in cancelling' => i \in cancelling \/ row'[i] = "cancelled"
  /\ \A w \in Workers : \A i \in Invoices : Answered(w, i)' => Answered(w, i)

LEMMA LawAgrees ==
  ASSUME IInv, Law, Agrees
  PROVE  Law'
<1>1. LegalIsMade' /\ OriginalGone'
  BY DEF Law, LegalIsMade, OriginalGone, Agrees
<1>2. IssuedIsLegal'
  BY DEF Law, IssuedIsLegal, CancelledRows, Agrees, IInv, TypeOK
<1>3. AnswerIsLegal'
  BY DEF Law, AnswerIsLegal, Agrees
<1>4. CancelledRows'
  BY DEF Law, CancelledRows, Agrees
<1> QED
  BY <1>1, <1>2, <1>3, <1>4 DEF Law

\* The worker that moves on is no longer at its answer.
LEMMA GotoAnswers ==
  ASSUME TypeOK, NEW w \in Workers, NEW pc, NEW ans, pc # "record",
         \/ Goto(w, pc, ans)
         \/ worker' = [worker EXCEPT ![w] = Idle]
  PROVE  \A v \in Workers : \A i \in Invoices : Answered(v, i)' => Answered(v, i)
  BY DEF TypeOK, Goto, Idle, Answered

\* Steps in which rows and what the provider holds stay as they are.
LEMMA AgreesQuiet ==
  ASSUME UNCHANGED <<row, replacedFor, made, legal, cancelling>>,
         \A w \in Workers : \A i \in Invoices : Answered(w, i)' => Answered(w, i)
  PROVE  Agrees
  BY DEF Agrees

\* Rows that start, and rows cancelled here.
LEMMA AgreesStart ==
  ASSUME IInv, UNCHANGED <<replacedFor, made, legal, cancelling, worker>>,
         NEW n \in Invoices, NEW s, s # "issued", row[n] # "cancelled",
         row' = [row EXCEPT ![n] = s]
  PROVE  Agrees
  BY DEF Agrees, IInv, TypeOK, Answered

LEMMA AgreesCancel ==
  ASSUME IInv, UNCHANGED <<replacedFor, made, legal, worker>>,
         NEW i \in Invoices, Cancel(i)
  PROVE  Agrees
  BY DEF Agrees, IInv, TypeOK, Cancel, Answered

\* An invoice that exists is recorded; the original's row was issued.
LEMMA AgreesRecord ==
  ASSUME IInv, UNCHANGED <<replacedFor, made, legal, cancelling>>,
         NEW i \in Invoices, RecordIssued(i), legal[i] # "none",
         \A w \in Workers : \A k \in Invoices : Answered(w, k)' => Answered(w, k)
  PROVE  Agrees
<1>1. \A k \in Invoices :
        /\ row'[k] = "issued" => k = i \/ row[k] = "issued"
        /\ row[k] = "cancelled" => k # i /\ k # replacedFor[i]
        /\ k # i /\ k # replacedFor[i] => row'[k] = row[k]
  <2>1. \A k \in Invoices : k = replacedFor[i] => row[k] = "issued"
    BY DEF RecordIssued, Reconcilable, Invoices, None
  <2>2. /\ row[i] \in {"signing", "submitted"}
        /\ \A k \in Invoices :
             row'[k] = IF k = i THEN "issued"
                       ELSE IF k = replacedFor[i] THEN "replaced" ELSE row[k]
    BY DEF RecordIssued, Reconcilable
  <2> QED
    BY <2>1, <2>2
<1>2. row[i] # "cancelled"
  BY DEF RecordIssued, Reconcilable
<1> QED
  BY <1>1, <1>2 DEF Agrees

\* The answer of the provider: a first invoice for the row, whose original,
\* if any, stops being valid.
LEMMA LawSubmit ==
  ASSUME IInv, Law, NotItself, NEW w \in Workers, Submit(w)
  PROVE  Law'
<1> DEFINE i == worker[w].job
<1>1. /\ i \in Invoices /\ TypeOK
      /\ Calls(w, i)
      /\ UNCHANGED <<row, replacedFor, cancelling>>
  BY DEF Submit, IInv, TypeOK, Calls
<1>2. made[i] = 0 /\ legal[i] = "none" /\ row[i] # "issued"
  BY <1>1, CallerIsFirst DEF Law, IssuedIsLegal
<1>3. replacedFor[i] # i
  BY <1>1 DEF NotItself
<1>4. PICK a \in Answers :
        /\ Goto(w, "record", a)
        /\ \/ ProviderMakes(i)
           \/ a # "issued" /\ UNCHANGED <<made, legal>>
  BY DEF Submit, Answers
<1>5. /\ worker'[w] = [pc |-> "record", job |-> i, ans |-> a]
      /\ \A v \in Workers : v # w => worker'[v] = worker[v]
  BY <1>1, <1>4, GotoFields
<1>6. CASE UNCHANGED <<made, legal>> /\ a # "issued"
  <2>1. \A v \in Workers : \A k \in Invoices : Answered(v, k)' => Answered(v, k)
    BY <1>5, <1>6 DEF Answered
  <2> QED
    BY <1>1, <1>6, <2>1, AgreesQuiet, LawAgrees
<1>7. CASE ProviderMakes(i)
  <2> HIDE DEF i
  <2>1. /\ made'[i] # 0
        /\ legal'[i] = "valid"
        /\ \A k \in Invoices : k # i /\ k = replacedFor[i] =>
             legal[k] = "valid" /\ legal'[k] = "replaced" /\ made'[k] = made[k]
        /\ \A k \in Invoices : k # i /\ k # replacedFor[i] =>
             legal'[k] = legal[k] /\ made'[k] = made[k]
    BY <1>1, <1>2, <1>7 DEF ProviderMakes, TypeOK, None, Invoices
  <2>2. LegalIsMade'
    BY <2>1 DEF Law, LegalIsMade
  <2>3. IssuedIsLegal'
    BY <1>1, <2>1 DEF Law, IssuedIsLegal
  <2>4. AnswerIsLegal'
    <3> SUFFICES ASSUME NEW v \in Workers, NEW k \in Invoices, Answered(v, k)'
                 PROVE  legal'[k] # "none"
      BY DEF AnswerIsLegal
    <3>1. CASE v = w
      BY <1>5, <2>1, <3>1 DEF Answered
    <3>2. CASE v # w
      <4>1. legal[k] # "none"
        BY <1>5, <3>2 DEF Answered, Law, AnswerIsLegal
      <4> QED
        BY <2>1, <4>1
    <3> QED
      BY <3>1, <3>2
  <2>5. CancelledRows'
    BY <1>1, <2>1 DEF Law, CancelledRows
  <2>6. OriginalGone'
    <3> SUFFICES ASSUME NEW j \in Invoices, NEW k \in Invoices,
                        replacedFor'[j] = k, legal'[j] # "none"
                 PROVE  legal'[k] = "replaced"
      BY DEF OriginalGone
    <3>1. CASE j = i
      BY <1>1, <1>3, <2>1, <3>1
    <3>2. CASE j # i
      <4>1. legal[j] # "none"
        BY <2>1, <3>2
      <4>2. legal[k] = "replaced"
        BY <1>1, <4>1 DEF Law, OriginalGone
      <4> QED
        BY <1>2, <2>1, <4>2
    <3> QED
      BY <3>1, <3>2
  <2> QED
    BY <2>2, <2>3, <2>4, <2>5, <2>6 DEF Law
<1> QED
  BY <1>4, <1>6, <1>7

\* The provider cancels an invoice whose row was cancelled before.
LEMMA LawProviderCancel ==
  ASSUME IInv, Law, NEW i \in Invoices, ProviderCancel(i)
  PROVE  Law'
<1>1. /\ row[i] = "cancelled" /\ row[i] # "issued"
      /\ UNCHANGED <<row, replacedFor, made, worker>>
      /\ cancelling' \in SUBSET cancelling
  BY DEF ProviderCancel, Law, CancelledRows
<1>2. /\ \A k \in Invoices : k # i => legal'[k] = legal[k]
      /\ \/ legal'[i] = legal[i]
         \/ legal[i] = "valid" /\ legal'[i] = "cancelled"
  BY DEF ProviderCancel, IInv, TypeOK
<1>3. LegalIsMade' /\ IssuedIsLegal' /\ CancelledRows'
  BY <1>1, <1>2 DEF Law, LegalIsMade, IssuedIsLegal, CancelledRows
<1>4. AnswerIsLegal' /\ OriginalGone'
  BY <1>1, <1>2 DEF Law, AnswerIsLegal, OriginalGone, Answered
<1> QED
  BY <1>3, <1>4 DEF Law

\* A reserved replacement has nothing at the provider yet.
LEMMA LawReserve ==
  ASSUME IInv, Law, NEW i \in Invoices, ReserveReplacement(i)
  PROVE  Law'
<1>1. PICK n \in Invoices :
        /\ NextRow(n)
        /\ row' = [row EXCEPT ![n] = "draft"]
        /\ replacedFor' = [replacedFor EXCEPT ![n] = i]
  BY DEF ReserveReplacement
<1>2. /\ row[n] = "absent" /\ legal[n] = "none"
      /\ row'[n] = "draft"
      /\ \A k \in Invoices :
           k # n => row'[k] = row[k] /\ replacedFor'[k] = replacedFor[k]
      /\ UNCHANGED <<made, legal, worker, cancelling>>
  BY <1>1, UnsentIsQuiet
     DEF ReserveReplacement, NextRow, Unsent, Law, IInv, TypeOK
<1>3. LegalIsMade' /\ IssuedIsLegal' /\ CancelledRows'
  BY <1>2 DEF Law, LegalIsMade, IssuedIsLegal, CancelledRows
<1>4. AnswerIsLegal' /\ OriginalGone'
  BY <1>2 DEF Law, AnswerIsLegal, OriginalGone, Answered
<1> QED
  BY <1>3, <1>4 DEF Law

\* Every step keeps rows and provider in agreement.
LEMMA LawStep ==
  ASSUME IInv, Law, NotItself, Next
  PROVE  Law'
<1>1. CASE \/ AskBeforePaying \/ Requeue
           \/ \E i \in Invoices : BecomeDue(i) \/ LeaseExpires(i)
  <2>1. UNCHANGED <<row, replacedFor, made, legal, worker, cancelling>>
    BY <1>1 DEF AskBeforePaying, Requeue, BecomeDue, LeaseExpires
  <2> QED
    BY <2>1, AgreesQuiet, LawAgrees DEF Answered
<1>2. CASE SyncAgain
  BY <1>2, AgreesStart, LawAgrees DEF SyncAgain, NextRow
<1>3. ASSUME NEW total \in {"zero", "positive"}, Pay(total)
      PROVE  Law'
  BY <1>3, FirstRow, AgreesStart, LawAgrees DEF Pay, IInv, OpenHasNoRows
<1>4. CASE Refund
  <2>1. \/ UNCHANGED <<row, cancelling>>
        \/ \E i \in Invoices : Cancel(i)
    BY <1>4 DEF Refund
  <2>2. UNCHANGED <<replacedFor, made, legal, worker>>
    BY <1>4 DEF Refund
  <2>3. CASE UNCHANGED <<row, cancelling>>
    BY <2>2, <2>3, AgreesQuiet, LawAgrees DEF Answered
  <2>4. CASE \E i \in Invoices : Cancel(i)
    BY <2>2, <2>4, AgreesCancel, LawAgrees
  <2> QED
    BY <2>1, <2>3, <2>4
<1>5. ASSUME NEW i \in Invoices, FinanceCancel(i)
      PROVE  Law'
  BY <1>5, AgreesCancel, LawAgrees DEF FinanceCancel
<1>6. ASSUME NEW i \in Invoices, ReconcileByHand(i)
      PROVE  Law'
  <2>1. Agrees
    BY <1>6, AgreesRecord DEF ReconcileByHand, Answered
  <2> QED
    BY <2>1, LawAgrees
<1>7. ASSUME NEW i \in Invoices, ReserveReplacement(i)
      PROVE  Law'
  BY <1>7, LawReserve
<1>8. ASSUME NEW i \in Invoices, ProviderCancel(i)
      PROVE  Law'
  BY <1>8, LawProviderCancel
<1>9. ASSUME NEW w \in Workers, ClaimStep(w)
      PROVE  Law'
  <2>1. /\ UNCHANGED <<row, replacedFor, made, legal, cancelling>>
        /\ \/ worker' = worker
           \/ \E i : worker' = [worker EXCEPT ![w] = [pc |-> "look", job |-> i,
                                                      ans |-> "none"]]
    BY <1>9 DEF ClaimStep, Claim, ClaimNothing
  <2>2. \A v \in Workers : \A i \in Invoices : Answered(v, i)' => Answered(v, i)
    BY <2>1 DEF IInv, TypeOK, Answered
  <2> QED
    BY <2>1, <2>2, AgreesQuiet, LawAgrees
<1>10. ASSUME NEW w \in Workers,
              Look(w) \/ Recheck(w) \/ FinishJob(w) \/ Throw(w) \/ Killed(w)
       PROVE  Law'
  <2>1. /\ UNCHANGED <<row, replacedFor, made, legal, cancelling>>
        /\ \/ \E pc, ans : pc # "record" /\ Goto(w, pc, ans)
           \/ worker' = [worker EXCEPT ![w] = Idle]
    BY <1>10 DEF Look, Recheck, FinishJob, Throw, Killed
  <2>2. \A v \in Workers : \A i \in Invoices : Answered(v, i)' => Answered(v, i)
    BY <2>1, GotoAnswers DEF IInv
  <2> QED
    BY <2>1, <2>2, AgreesQuiet, LawAgrees
<1>11. ASSUME NEW w \in Workers, Prepare(w)
       PROVE  Law'
  <2>1. /\ worker[w].job \in Invoices
        /\ UNCHANGED <<replacedFor, made, legal, cancelling>>
        /\ \/ UNCHANGED row
           \/ /\ row[worker[w].job] = "draft"
              /\ row' = [row EXCEPT ![worker[w].job] = "signing"]
        /\ \E pc, ans : pc # "record" /\ Goto(w, pc, ans)
    BY <1>11 DEF Prepare, Preparable, IInv, TypeOK
  <2>2. \A v \in Workers : \A i \in Invoices : Answered(v, i)' => Answered(v, i)
    BY <2>1, GotoAnswers DEF IInv
  <2>3. Agrees
    BY <2>1, <2>2 DEF Agrees, IInv, TypeOK
  <2> QED
    BY <2>3, LawAgrees
<1>12. ASSUME NEW w \in Workers, Submit(w)
       PROVE  Law'
  BY <1>12, LawSubmit
<1>13. ASSUME NEW w \in Workers, Record(w)
       PROVE  Law'
  <2> DEFINE i  == worker[w].job
             to == StatusFor(worker[w].ans)
  <2>1. /\ i \in Invoices
        /\ worker[w].ans \in Answers
        /\ to \in {"draft", "signing", "submitted", "issued"}
        /\ UNCHANGED <<replacedFor, made, legal, cancelling>>
        /\ UNCHANGED row \/ (to # "signing" /\ Written(i, to))
    BY <1>13, StatusForType DEF Record, IInv, TypeOK
  <2>2. \A v \in Workers : \A k \in Invoices : Answered(v, k)' => Answered(v, k)
    <3>1. \/ \E pc, ans : pc # "record" /\ Goto(w, pc, ans)
          \/ worker' = [worker EXCEPT ![w] = Idle]
      BY <1>13 DEF Record
    <3> QED
      BY <3>1, GotoAnswers DEF IInv
  <2>3. CASE UNCHANGED row
    BY <2>1, <2>2, <2>3, AgreesQuiet, LawAgrees
  <2>4. CASE to = "issued" /\ Written(i, to)
    <3>1. worker[w].ans = "issued"
      BY <2>1, <2>4 DEF StatusFor, Answers
    <3>2. Answered(w, i)
      BY <1>13, <3>1 DEF Record, Answered
    <3>3. legal[i] # "none"
      BY <2>1, <3>2 DEF Law, AnswerIsLegal
    <3> HIDE DEF i, to
    <3> QED
      BY <2>1, <2>2, <2>4, <3>3, AgreesRecord, LawAgrees DEF Written
  <2>5. CASE to # "issued" /\ to # "signing" /\ Written(i, to)
    <3>1. row[i] = "signing" /\ row' = [row EXCEPT ![i] = to]
      BY <2>5 DEF Written, Transition, Transitions
    <3> HIDE DEF i, to
    <3>2. Agrees
      BY <2>1, <2>2, <2>5, <3>1 DEF Agrees, IInv, TypeOK
    <3> QED
      BY <3>2, LawAgrees
  <2> QED
    BY <2>1, <2>3, <2>4, <2>5
<1> QED
  BY <1>1, <1>2, <1>3, <1>4, <1>5, <1>6, <1>7, <1>8, <1>9, <1>10, <1>11,
     <1>12, <1>13 DEF Next, WorkerStep
-----------------------------------------------------------------------------
(* Whose list an invoice is on.                                            *)

\* Nothing about the row needs a person or a worker any more.
Released(i) ==
  /\ ~Pending(i)' /\ ~Unrecorded(i)'
  /\ \A w \in Workers : ~Calls(w, i)'

\* A step lets a job out of hand, or a warning go, only for a row that is
\* released, and takes new work on only with its job in hand.
Keeps(i) ==
  /\ Watched(i) => Watched(i)' \/ Released(i)
  /\ Noticed(i) => Noticed(i)' \/ ~Unrecorded(i)'
  /\ Pending(i)' => Pending(i) \/ Watched(i)'
  /\ \A w \in Workers : Calls(w, i)' => Calls(w, i) \/ Watched(i)'
  /\ Unrecorded(i)' => Unrecorded(i) \/ Noticed(i)' \/ Watched(i)'

LEMMA HandKept ==
  ASSUME InHand, NothingForgotten, \A i \in Invoices : Keeps(i)
  PROVE  InHand' /\ NothingForgotten'
<1>1. \A i \in Invoices : Unrecorded(i) => Watched(i) \/ Noticed(i)
  BY DEF NothingForgotten, Unrecorded, Watched, Noticed
<1>2. \A i \in Invoices : Unrecorded(i)' => Watched(i)' \/ Noticed(i)'
  BY <1>1 DEF Keeps, Released
<1>3. NothingForgotten'
  BY <1>2 DEF NothingForgotten, Unrecorded, Watched, Noticed
<1>4. InHand'
  BY DEF InHand, Keeps, Released
<1> QED
  BY <1>3, <1>4

\* Steps that leave the rows, the provider and the warnings as they are, call
\* nobody, and let go only of jobs with a released row.
LEMMA KeepsQuiet ==
  ASSUME UNCHANGED <<row, legal, cancelling, notice>>, NEW i \in Invoices,
         \A w \in Workers : Calls(w, i)' => Calls(w, i),
         Watched(i) => Watched(i)' \/ Released(i)
  PROVE  Keeps(i)
  BY DEF Keeps, Noticed, Pending, Unrecorded

\* A row that nothing is known of, and still unsent afterwards, keeps
\* whatever becomes of its job.
LEMMA KeepsUnsent ==
  ASSUME RowsSound, NEW i \in Invoices, row[i] \in Unsent, row'[i] \in Unsent,
         legal'[i] = legal[i],
         \A w \in Workers : Calls(w, i)' => Calls(w, i)
  PROVE  Keeps(i)
<1>1. legal[i] = "none" /\ \A w \in Workers : ~Calls(w, i)
  BY UnsentIsQuiet DEF RowsSound, Law
<1> QED
  BY <1>1 DEF Keeps, Released, Pending, Unrecorded, Unsent

\* A row of which neither the status, the job nor the invoice changes.
LEMMA KeepsAside ==
  ASSUME NEW i \in Invoices, row'[i] = row[i], job'[i] = job[i],
         legal'[i] = legal[i], UNCHANGED notice,
         i \in cancelling => i \in cancelling',
         \A w \in Workers : Calls(w, i)' => Calls(w, i)
  PROVE  Keeps(i)
  BY DEF Keeps, Watched, Noticed, Pending, Unrecorded

\* Recording an issued invoice releases its row, which nobody calls about,
\* and the row of its original, which is not valid any more.
LEMMA KeepsRecord ==
  ASSUME RowsSound, UNCHANGED <<replacedFor, legal, cancelling, notice>>,
         NEW i \in Invoices, RecordIssued(i), legal[i] # "none",
         \A w \in Workers : \A k \in Invoices : Calls(w, k)' => Calls(w, k),
         NEW k \in Invoices
  PROVE  Keeps(k)
<1> USE DEF RowsSound
<1>1. \A w \in Workers : ~Calls(w, i)'
  BY CallerIsFirst DEF Law
<1>2. CASE k = i
  <2>1. row'[i] = "issued"
    BY DEF RecordIssued
  <2> QED
    BY <1>1, <1>2, <2>1
       DEF Keeps, Released, Noticed, Pending, Unrecorded
<1>3. CASE k # i
  <2>1. job'[k] = job[k]
    BY <1>3 DEF RecordIssued, IInv, TypeOK
  <2>2. CASE k = replacedFor[i]
    <3>1. row'[k] = "replaced" /\ legal'[k] = "replaced"
      BY <1>3, <2>2 DEF RecordIssued, Law, OriginalGone
    <3> QED
      BY <2>1, <3>1
         DEF Keeps, Watched, Noticed, Pending, Unrecorded
  <2>3. CASE k # replacedFor[i]
    <3>1. row'[k] = row[k]
      BY <1>3, <2>3 DEF RecordIssued
    <3> QED
      BY <2>1, <3>1, KeepsAside
  <2> QED
    BY <2>2, <2>3
<1> QED
  BY <1>2, <1>3

\* Cancelling a row: the provider is called if it was issued.
LEMMA KeepsCancel ==
  ASSUME RowsSound, UNCHANGED <<job, legal, worker, notice>>,
         NEW i \in Invoices, Cancel(i), NEW k \in Invoices
  PROVE  Keeps(k)
<1>1. CASE k # i
  BY <1>1, KeepsAside DEF Cancel, RowsSound, IInv, TypeOK, Calls
<1>2. CASE k = i
  <2>1. /\ row'[i] = "cancelled"
        /\ row[i] = "issued" => i \in cancelling'
        /\ i \in cancelling => i \in cancelling'
    BY DEF Cancel, RowsSound, IInv, TypeOK
  <2> QED
    BY <1>2, <2>1
       DEF Keeps, Watched, Noticed, Pending, Unrecorded, Calls
<1> QED
  BY <1>1, <1>2

\* The worker that moves on elsewhere calls nobody.
LEMMA GotoCalls ==
  ASSUME TypeOK, NEW w \in Workers, NEW pc, NEW ans, pc # "submit",
         \/ Goto(w, pc, ans)
         \/ worker' = [worker EXCEPT ![w] = Idle]
  PROVE  \A v \in Workers : \A i \in Invoices : Calls(v, i)' => Calls(v, i)
<1>1. /\ worker'[w].pc # "submit"
      /\ \A v \in Workers : v # w => worker'[v] = worker[v]
  BY DEF TypeOK, Goto, Idle
<1> QED
  BY <1>1 DEF Calls

\* The sweep moves jobs that are in hand to the attention list, and touches
\* no other.
LEMMA SweptWatch ==
  ASSUME TypeOK, NEW S \in SUBSET Invoices, NEW i \in Invoices
  PROVE  /\ DOMAIN Swept(S) = Invoices
         /\ Watched(i) => Swept(S)[i].status
                            \in {"processing", "blocked", "reconcile_required"}
<1>1. Swept(S)[i] \in {job[i], [job[i] EXCEPT !.status = "reconcile_required"]}
  BY DEF Swept
<1>2. job[i] \in [status : JobStatus, due : BOOLEAN, leased : BOOLEAN]
  BY DEF TypeOK
<1>3. [job[i] EXCEPT !.status = "reconcile_required"].status
        = "reconcile_required"
  BY <1>2
<1> QED
  BY <1>1, <1>3 DEF Swept, Watched
\* Every step keeps what is in hand and what was noticed.
LEMMA HandStep ==
  ASSUME RowsSound, Next
  PROVE  InHand' /\ NothingForgotten'
<1> SUFFICES \A i \in Invoices : Keeps(i)
  BY HandKept DEF RowsSound
<1> USE DEF RowsSound
<1>1. CASE AskBeforePaying
  <2>1. \A i \in Invoices : Watched(i) => Watched(i)'
    BY <1>1 DEF AskBeforePaying, NoJob, Watched, IInv, TypeOK
  <2> QED
    BY <1>1, <2>1, KeepsQuiet DEF AskBeforePaying, Calls
<1>2. CASE SyncAgain
  <2>1. PICK n \in Invoices : row[n] = "absent" /\ row' = [row EXCEPT ![n] = "draft"]
    BY <1>2 DEF SyncAgain, NextRow
  <2>2. Keeps(n)
    BY <1>2, <2>1, KeepsUnsent DEF SyncAgain, Unsent, Calls, IInv, TypeOK
  <2>3. \A i \in Invoices : i # n => Keeps(i)
    BY <1>2, <2>1, KeepsAside DEF SyncAgain, Calls, IInv, TypeOK
  <2> QED
    BY <2>2, <2>3
<1>3. CASE Requeue
  <2>1. UNCHANGED <<row, legal, worker, cancelling, notice>>
    BY <1>3 DEF Requeue
  <2>2. \A i \in Invoices :
          job'[i] = job[i] \/ row[i] = "draft"
    BY <1>3 DEF Requeue, Requeueable
  <2> SUFFICES ASSUME NEW i \in Invoices
               PROVE  Keeps(i)
    OBVIOUS
  <2>3. CASE job'[i] = job[i]
    BY <2>1, <2>3, KeepsAside DEF Calls
  <2>4. CASE row[i] = "draft"
    BY <2>1, <2>4, KeepsUnsent DEF Calls, Unsent
  <2> QED
    BY <2>2, <2>3, <2>4
<1>4. CASE Refund
  <2>1. \/ UNCHANGED <<row, cancelling>>
        \/ \E i \in Invoices : Cancel(i)
    BY <1>4 DEF Refund
  <2>2. UNCHANGED <<job, legal, worker, notice>>
    BY <1>4 DEF Refund
  <2>3. CASE UNCHANGED <<row, cancelling>>
    BY <2>2, <2>3, KeepsAside DEF Calls
  <2>4. CASE \E i \in Invoices : Cancel(i)
    BY <2>2, <2>4, KeepsCancel
  <2> QED
    BY <2>1, <2>3, <2>4
<1>5. ASSUME NEW total \in {"zero", "positive"}, Pay(total)
      PROVE  \A i \in Invoices : Keeps(i)
  <2>1. /\ row[1] = "absent" /\ row'[1] \in Unsent
        /\ UNCHANGED <<legal, worker, cancelling, notice>>
        /\ \A i \in Invoices : i # 1 => row'[i] = row[i] /\ job'[i] = job[i]
    BY <1>5, FirstRow DEF Pay, IInv, TypeOK, OpenHasNoRows, Unsent
  <2>2. Keeps(1)
    BY <2>1, FirstRow, KeepsUnsent DEF Unsent, Calls
  <2>3. \A i \in Invoices : i # 1 => Keeps(i)
    BY <2>1, KeepsAside DEF Calls
  <2> QED
    BY <2>2, <2>3
<1>6. ASSUME NEW i \in Invoices, BecomeDue(i) \/ LeaseExpires(i)
      PROVE  \A k \in Invoices : Keeps(k)
  <2>1. /\ job[i] \in JobRecord
        /\ \A k \in Invoices : k # i => job'[k] = job[k]
        /\ \/ job'[i] = [job[i] EXCEPT !.due = TRUE]
           \/ job'[i] = [job[i] EXCEPT !.leased = FALSE]
    BY <1>6 DEF BecomeDue, LeaseExpires, IInv, TypeOK, JobRecord
  <2>2. job'[i].status = job[i].status
    BY <2>1 DEF JobRecord
  <2>3. \A k \in Invoices : Watched(k) => Watched(k)'
    BY <2>1, <2>2 DEF Watched
  <2> QED
    BY <1>6, <2>3, KeepsQuiet DEF BecomeDue, LeaseExpires, Calls
<1>7. ASSUME NEW i \in Invoices, ReconcileByHand(i)
      PROVE  \A k \in Invoices : Keeps(k)
  BY <1>7, KeepsRecord DEF ReconcileByHand, Calls
<1>8. ASSUME NEW i \in Invoices, FinanceCancel(i)
      PROVE  \A k \in Invoices : Keeps(k)
  BY <1>8, KeepsCancel DEF FinanceCancel
<1>9. ASSUME NEW i \in Invoices, ReserveReplacement(i)
      PROVE  \A k \in Invoices : Keeps(k)
  <2>1. PICK n \in Invoices :
          /\ row[n] = "absent"
          /\ row' = [row EXCEPT ![n] = "draft"]
          /\ job' = [job EXCEPT ![n] = RequeuedJob]
    BY <1>9 DEF ReserveReplacement, NextRow
  <2>2. UNCHANGED <<legal, worker, cancelling, notice>>
    BY <1>9 DEF ReserveReplacement
  <2>3. Keeps(n)
    BY <2>1, <2>2, KeepsUnsent DEF Unsent, Calls, IInv, TypeOK
  <2>4. \A k \in Invoices : k # n => Keeps(k)
    BY <2>1, <2>2, KeepsAside DEF Calls, IInv, TypeOK
  <2> QED
    BY <2>3, <2>4
<1>10. ASSUME NEW i \in Invoices, ProviderCancel(i)
       PROVE  \A k \in Invoices : Keeps(k)
  <2>1. /\ UNCHANGED <<row, job, worker>>
        /\ cancelling' = cancelling \ {i}
        /\ \A k \in Invoices : k # i => legal'[k] = legal[k]
        /\ \/ legal'[i] # "valid" /\ UNCHANGED notice
           \/ legal'[i] = legal[i] /\ notice' = notice \cup {i}
    BY <1>10 DEF ProviderCancel, IInv, TypeOK
  <2> SUFFICES ASSUME NEW k \in Invoices
               PROVE  Keeps(k)
    OBVIOUS
  <2> QED
    BY <2>1 DEF Keeps, Watched, Noticed, Pending, Unrecorded, Calls
<1>11. ASSUME NEW w \in Workers, ClaimStep(w)
       PROVE  \A i \in Invoices : Keeps(i)
  <2>1. UNCHANGED <<row, legal, cancelling, notice>>
    BY <1>11 DEF ClaimStep, Claim, ClaimNothing
  <2>2. PICK S \in {Invoices} \cup {{i} : i \in Invoices} :
          Claim(w, S) \/ ClaimNothing(w, S)
    BY <1>11 DEF ClaimStep
  <2>3. S \in SUBSET Invoices
    BY <2>2
  <2>4. \A v \in Workers : \A i \in Invoices : Calls(v, i)' => Calls(v, i)
    <3>1. \/ worker' = worker
          \/ \E i : worker' = [worker EXCEPT ![w] = [pc |-> "look", job |-> i,
                                                     ans |-> "none"]]
      BY <2>2 DEF Claim, ClaimNothing
    <3>2. \A v \in Workers : worker'[v] = worker[v] \/ worker'[v].pc = "look"
      BY <3>1 DEF IInv, TypeOK
    <3> QED
      BY <3>2 DEF Calls
  <2>5. \A i \in Invoices : Watched(i) => Watched(i)'
    <3>1. CASE ClaimNothing(w, S)
      BY <2>3, <3>1, SweptWatch DEF ClaimNothing, Watched, IInv
    <3>2. CASE Claim(w, S)
      <4>1. PICK c \in S : job' = [Swept(S) EXCEPT ![c].status = "processing",
                                                   ![c].leased = TRUE]
        BY <3>2 DEF Claim
      <4>a. c \in Invoices /\ DOMAIN Swept(S) = Invoices
        BY <2>3, SweptWatch DEF IInv
      <4>b. Swept(S)[c] \in JobRecord
        BY <4>a DEF Swept, IInv, TypeOK, JobRecord, JobStatus
      <4>2. /\ \A i \in Invoices : i # c => job'[i] = Swept(S)[i]
            /\ Swept(S)[c] \in JobRecord
            /\ job'[c] = [Swept(S)[c] EXCEPT !.status = "processing",
                                             !.leased = TRUE]
        BY <4>1, <4>a, <4>b
      <4>3. job'[c].status = "processing"
        BY <4>2 DEF JobRecord
      <4> QED
        BY <2>3, <4>2, <4>3, SweptWatch DEF Watched, IInv
    <3> QED
      BY <2>2, <3>1, <3>2
  <2> QED
    BY <2>1, <2>4, <2>5, KeepsQuiet
<1>12. ASSUME NEW w \in Workers,
              Look(w) \/ Recheck(w) \/ Throw(w) \/ Killed(w)
       PROVE  \A i \in Invoices : Keeps(i)
  <2>1. /\ UNCHANGED <<row, job, legal, cancelling, notice>>
        /\ \/ \E pc, ans : pc # "submit" /\ Goto(w, pc, ans)
           \/ worker' = [worker EXCEPT ![w] = Idle]
    BY <1>12 DEF Look, Recheck, Throw, Killed
  <2>2. \A v \in Workers : \A i \in Invoices : Calls(v, i)' => Calls(v, i)
    BY <2>1, GotoCalls DEF IInv
  <2> QED
    BY <2>1, <2>2, KeepsAside
<1>13. ASSUME NEW w \in Workers, FinishJob(w)
       PROVE  \A i \in Invoices : Keeps(i)
  <2>0. PICK j \in Invoices, v \in Verdicts :
          j = worker[w].job /\ v = worker[w].ans
    BY <1>13 DEF FinishJob, IInv, TypeOK
  <2>1. /\ UNCHANGED <<row, legal, cancelling, notice>>
        /\ \A u \in Workers : \A i \in Invoices : Calls(u, i)' => Calls(u, i)
    BY <1>13, GotoCalls DEF FinishJob, IInv
  <2>3. /\ \A i \in Invoices : i # j => job'[i] = job[i]
        /\ job'[j] = job[j] \/ (job'[j].status = v /\ Finishable(j, v))
    BY <1>13, <2>0 DEF FinishJob, IInv, TypeOK
  <2>4. Watched(j) => Watched(j)' \/ Released(j)
    <3>1. CASE v # "completed" \/ job'[j] = job[j]
      BY <2>3, <3>1 DEF Watched, Verdicts
    <3>2. CASE v = "completed" /\ row[j] = "issued"
      <4>1. \A u \in Workers : ~Calls(u, j)
        BY <3>2, CallerIsFirst DEF Law, IssuedIsLegal
      <4> QED
        BY <2>1, <3>2, <4>1 DEF Released, Pending, Unrecorded
    <3> QED
      BY <2>3, <3>1, <3>2 DEF Finishable
  <2>5. Keeps(j)
    BY <2>1, <2>4, KeepsQuiet
  <2>6. \A i \in Invoices : i # j => Keeps(i)
    BY <2>1, <2>3, KeepsAside
  <2> QED
    BY <2>5, <2>6
<1>14. ASSUME NEW w \in Workers, Prepare(w)
       PROVE  \A i \in Invoices : Keeps(i)
  <2>0. PICK j \in Invoices : j = worker[w].job
    BY <1>14 DEF Prepare, IInv, TypeOK
  <2>1. UNCHANGED <<job, legal, cancelling, notice>>
    BY <1>14 DEF Prepare, IInv, TypeOK
  <2>2. CASE Preparable(j) /\ row' = [row EXCEPT ![j] = "signing"]
    <3>1. /\ job[j].status = "processing" /\ row[j] = "draft"
          /\ \A i \in Invoices : i # j => row'[i] = row[i]
          /\ row'[j] = "signing"
      BY <2>1, <2>2 DEF Preparable, IInv, TypeOK
    <3>2. \A v \in Workers : \A i \in Invoices : i # j =>
            (Calls(v, i)' => Calls(v, i))
      BY <1>14, <2>0 DEF Prepare, Goto, Calls, IInv, TypeOK
    <3>3. Keeps(j)
      <4>1. Watched(j)' /\ legal[j] = "none"
        BY <2>1, <3>1, UnsentIsQuiet DEF Watched, Law, Unsent
      <4> QED
        BY <2>1, <4>1 DEF Keeps, Noticed, Unrecorded
    <3> QED
      BY <2>1, <3>1, <3>2, <3>3, KeepsAside
  <2>3. CASE UNCHANGED row /\ Goto(w, "recheck", "none")
    <3>1. \A v \in Workers : \A i \in Invoices : Calls(v, i)' => Calls(v, i)
      BY <2>3, GotoCalls DEF IInv
    <3> QED
      BY <2>1, <2>3, <3>1, KeepsAside
  <2> QED
    BY <1>14, <2>0, <2>2, <2>3 DEF Prepare
<1>15. ASSUME NEW w \in Workers, Submit(w)
       PROVE  \A i \in Invoices : Keeps(i)
  <2> DEFINE j == worker[w].job
  <2>1. /\ j \in Invoices /\ Calls(w, j)
        /\ UNCHANGED <<row, job, cancelling, notice>>
    BY <1>15 DEF Submit, Calls, IInv, TypeOK
  <2>2. \A v \in Workers : \A i \in Invoices : Calls(v, i)' => Calls(v, i)
    <3>1. \E a : Goto(w, "record", a)
      BY <1>15 DEF Submit
    <3> QED
      BY <3>1, GotoCalls DEF IInv
  <2>3. Watched(j)
    BY <2>1 DEF InHand
  <2>4. \A i \in Invoices : i # j =>
          legal'[i] = legal[i] \/ legal'[i] = "replaced"
    BY <1>15 DEF Submit, ProviderMakes
  <2> HIDE DEF j
  <2> SUFFICES ASSUME NEW i \in Invoices
               PROVE  Keeps(i)
    OBVIOUS
  <2>5. Watched(i)' <=> Watched(i)
    BY <2>1 DEF Watched
  <2> QED
    BY <2>1, <2>2, <2>3, <2>4, <2>5 DEF Keeps, Noticed, Pending, Unrecorded
<1>16. ASSUME NEW w \in Workers, Record(w)
       PROVE  \A k \in Invoices : Keeps(k)
  <2>0. PICK i \in Invoices, to \in {"draft", "signing", "submitted", "issued"} :
          i = worker[w].job /\ to = StatusFor(worker[w].ans)
    BY <1>16, StatusForType DEF Record, IInv, TypeOK
  <2>1. /\ worker[w].ans \in Answers
        /\ UNCHANGED <<replacedFor, legal, cancelling, notice>>
        /\ UNCHANGED <<row, job>> \/ (to # "signing" /\ Written(i, to))
    BY <1>16, <2>0 DEF Record, IInv, TypeOK
  <2>2. \A v \in Workers : \A k \in Invoices : Calls(v, k)' => Calls(v, k)
    <3>1. \/ \E pc, ans : pc # "submit" /\ Goto(w, pc, ans)
          \/ worker' = [worker EXCEPT ![w] = Idle]
      BY <1>16 DEF Record
    <3> QED
      BY <3>1, GotoCalls DEF IInv
  <2>3. CASE UNCHANGED <<row, job>>
    BY <2>1, <2>2, <2>3, KeepsAside
  <2>4. CASE to = "issued" /\ Written(i, to)
    <3>1. worker[w].ans = "issued"
      BY <2>0, <2>1, <2>4 DEF StatusFor, Answers
    <3>2. Answered(w, i)
      BY <1>16, <2>0, <3>1 DEF Record, Answered
    <3>3. legal[i] # "none"
      BY <2>1, <3>2 DEF Law, AnswerIsLegal
    <3>4. RecordIssued(i)
      BY <2>4 DEF Written
    <3> QED
      BY <2>1, <2>2, <3>3, <3>4, KeepsRecord
  <2>5. CASE to # "issued" /\ to # "signing" /\ Written(i, to)
    <3>1. /\ row[i] = "signing" /\ row' = [row EXCEPT ![i] = to]
          /\ UNCHANGED job
      BY <2>5 DEF Written, Transition, Transitions
    <3>2. \A k \in Invoices : k # i => Keeps(k)
      BY <2>1, <2>2, <3>1, KeepsAside DEF IInv, TypeOK
    <3>3. Keeps(i)
      BY <2>1, <2>2, <2>5, <3>1
         DEF Keeps, Watched, Noticed, Pending, Unrecorded
    <3> QED
      BY <3>2, <3>3
  <2> QED
    BY <2>1, <2>3, <2>4, <2>5
<1> QED
  BY <1>1, <1>2, <1>3, <1>4, <1>5, <1>6, <1>7, <1>8, <1>9, <1>10, <1>11,
     <1>12, <1>13, <1>14, <1>15, <1>16 DEF Next, WorkerStep

-----------------------------------------------------------------------------
(* The invariant holds, and what follows from it.                          *)

LEMMA RowsInit ==
  ASSUME Init
  PROVE  RowsSound
<1>1. IInv
  BY TypeInit DEF Init, IInv, UnsentUnmade, SendingIsSent, OneSender,
                  OpenHasNoRows, OneLegalInvoice, Sending, Idle
<1>2. OnePath /\ NotItself
  BY DEF Init, OnePath, NotItself, Active, None, Invoices
<1>3. Law
  BY DEF Init, Law, LegalIsMade, IssuedIsLegal, AnswerIsLegal, CancelledRows,
         OriginalGone, Answered, Idle
<1>4. InHand /\ NothingForgotten
  BY DEF Init, InHand, NothingForgotten, Pending, Calls, Idle
<1> QED
  BY <1>1, <1>2, <1>3, <1>4 DEF RowsSound

LEMMA RowsStep ==
  ASSUME RowsSound, [Next]_vars
  PROVE  RowsSound'
<1>1. CASE Next
  <2>1. IInv'
    BY <1>1, TypeStep, InnerStep DEF RowsSound, IInv, Inner
  <2> QED
    BY <1>1, <2>1, PathsStep, LawStep, HandStep DEF RowsSound, Paths
<1>2. CASE UNCHANGED vars
  BY <1>2 DEF vars, RowsSound, IInv, TypeOK, UnsentUnmade, SendingIsSent,
              OneSender, OpenHasNoRows, OneLegalInvoice, Sending, OnePath,
              NotItself, Active, Law, LegalIsMade, IssuedIsLegal,
              AnswerIsLegal, CancelledRows, OriginalGone, Answered, InHand,
              Pending, Calls, Watched, NothingForgotten
<1> QED
  BY <1>1, <1>2

\* At most one invoice of the order is recorded as issued, and the provider
\* created it: replacing, cancelling, recording late answers and drafting
\* anew never leave two.
THEOREM OneIssuedHolds == Spec => []OneIssued
<1>1. RowsSound => OneIssued
  BY DEF RowsSound, OnePath, Active, Law, IssuedIsLegal, OneIssued
<1> QED
  BY RowsInit, RowsStep, <1>1, PTL DEF Spec

\* An invoice that exists at the tax authority and is not recorded as issued
\* is in a worker's hands, on the attention list, or being cancelled, whatever
\* answers are lost and whichever workers die.
THEOREM NothingForgottenHolds == Spec => []NothingForgotten
<1>1. RowsSound => NothingForgotten
  BY DEF RowsSound
<1> QED
  BY RowsInit, RowsStep, <1>1, PTL DEF Spec
=============================================================================
