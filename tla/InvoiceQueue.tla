---------------------------- MODULE InvoiceQueue ----------------------------
(***************************************************************************)
(* Electronic tax invoices (HDDT) of one order: the rows of tax_invoices,  *)
(* the jobs of tax_invoice_issue_jobs, the workers that submit them to the *)
(* provider (cron route and after() calls of the payment actions), and the *)
(* Finance and refund actions that touch the same rows meanwhile.          *)
(*                                                                         *)
(* A worker is a process that awaits between every two calls; nothing in   *)
(* it stops when its lease on the job expires, and finishing a job does    *)
(* not check who holds it.  Rows are numbered in the order of their ids.   *)
(* The provider is external: it is modelled WITHOUT the refusal of a       *)
(* transactionUuid it has seen, so that the rows alone must prevent a      *)
(* second legal invoice.                                                   *)
(***************************************************************************)
EXTENDS Naturals, FiniteSets

CONSTANTS
  Workers,       \* runs of runTaxInvoiceIssueWorker
  MaxInvoice,    \* bound: rows of tax_invoices for the order
  MaxFaults,     \* bound: lost answers, failed calls and killed workers
  MaxDesk        \* bound: Finance and refund actions

ASSUME InvoiceBounds ==
  /\ MaxInvoice \in Nat \ {0}
  /\ MaxFaults \in Nat
  /\ MaxDesk \in Nat

Invoices == 1 .. MaxInvoice
None == 0

VARIABLES
  order,         \* orders: "open", "paid" (completed) or "refunded"
  row,           \* tax_invoices.status, "absent" before the insert
  replacedFor,   \* tax_invoices.replaced_for
  job,           \* tax_invoice_issue_jobs of the row
  made,          \* legal invoices the provider created under the row's uuid
  legal,         \* what the provider and the tax authority hold for it
  worker,        \* where each worker stands
  cancelling,    \* rows cancelled here whose provider cancel is awaited
  notice,        \* rows a person was told about because that call failed
  faults, desk

vars == <<order, row, replacedFor, job, made, legal, worker, cancelling,
          notice, faults, desk>>

RowStatus == {"absent", "draft", "signing", "submitted", "issued",
              "cancelled", "replaced", "not_required"}
JobStatus == {"absent", "pending_payment", "queued", "processing",
              "completed", "blocked", "reconcile_required"}
Answers == {"issued", "submitted", "signing", "rejected", "unknown"}
Verdicts == {"completed", "blocked", "reconcile_required"}

NoJob == [status |-> "absent", due |-> FALSE, leased |-> FALSE]
Idle == [pc |-> "idle", job |-> None, ans |-> "none"]

TypeOK ==
  /\ order \in {"open", "paid", "refunded"}
  /\ row \in [Invoices -> RowStatus]
  /\ replacedFor \in [Invoices -> {None} \cup Invoices]
  /\ job \in [Invoices ->
                [status : JobStatus, due : BOOLEAN, leased : BOOLEAN]]
  /\ made \in [Invoices -> Nat]
  /\ legal \in [Invoices -> {"none", "valid", "cancelled", "replaced"}]
  /\ worker \in [Workers ->
       [pc : {"idle", "look", "prepare", "submit", "record", "recheck",
              "finish"},
        job : {None} \cup Invoices,
        ans : {"none"} \cup Answers \cup Verdicts]]
  /\ \A w \in Workers :
       /\ worker[w].pc # "idle" => worker[w].job \in Invoices
       /\ worker[w].pc = "record" => worker[w].ans \in Answers
       /\ worker[w].pc = "finish" => worker[w].ans \in Verdicts
  /\ cancelling \in SUBSET Invoices
  /\ notice \in SUBSET Invoices
  /\ faults \in 0 .. MaxFaults
  /\ desk \in 0 .. MaxDesk

Init ==
  /\ order = "open"
  /\ row = [i \in Invoices |-> "absent"]
  /\ replacedFor = [i \in Invoices |-> None]
  /\ job = [i \in Invoices |-> NoJob]
  /\ made = [i \in Invoices |-> 0]
  /\ legal = [i \in Invoices |-> "none"]
  /\ worker = [w \in Workers |-> Idle]
  /\ cancelling = {}
  /\ notice = {}
  /\ faults = 0
  /\ desk = 0

-----------------------------------------------------------------------------
(* The order and its payment: upsert_tax_invoice_issue_job.                *)

Active(i) == row[i] \in {"draft", "signing", "submitted", "issued"}
NextRow(i) == row[i] = "absent" /\ \A k \in 1 .. i - 1 : row[k] # "absent"
Latest(i) == Active(i) /\ \A k \in i + 1 .. MaxInvoice : ~Active(k)

\* A pending transfer that asked for an invoice keeps its buyer in a job
\* without a row.
AskBeforePaying ==
  /\ order = "open"
  /\ job[1] = NoJob
  /\ job' = [job EXCEPT ![1].status = "pending_payment"]
  /\ UNCHANGED <<order, row, replacedFor, made, legal, worker, cancelling,
                 notice, faults, desk>>


\* The queued job of a new row is due two hours after the payment.
NewIssueJob == [status |-> "queued", due |-> FALSE, leased |-> FALSE]

\* Settling the order drafts the invoice and queues its job; an order of
\* total zero gets a row that needs no invoice and loses its job.
Pay(total) ==
  /\ order = "open"
  /\ order' = "paid"
  /\ row' = [row EXCEPT ![1] = IF total = "zero" THEN "not_required"
                                                 ELSE "draft"]
  /\ job' = [job EXCEPT ![1] = IF total = "zero" THEN NoJob ELSE NewIssueJob]
  /\ UNCHANGED <<replacedFor, made, legal, worker, cancelling, notice,
                 faults, desk>>

\* The triggers fire again on a settled order whose only invoice was
\* cancelled: a new draft is inserted, and the order's issue job, which is
\* unique, stays with the first row.
SyncAgain ==
  /\ order = "paid"
  /\ row[1] # "not_required"
  /\ ~\E i \in Invoices : Active(i)
  /\ \E n \in Invoices :
       /\ NextRow(n)
       /\ row' = [row EXCEPT ![n] = "draft"]
  /\ UNCHANGED <<order, replacedFor, job, made, legal, worker, cancelling,
                 notice, faults, desk>>

\* The two hours pass, or the buyer confirms the details from the receipt's
\* QR code: the job is available now.
BecomeDue(i) ==
  /\ job[i].status = "queued"
  /\ ~job[i].due
  /\ job' = [job EXCEPT ![i].due = TRUE]
  /\ UNCHANGED <<order, row, replacedFor, made, legal, worker, cancelling,
                 notice, faults, desk>>

-----------------------------------------------------------------------------
(* Claiming: claim_tax_invoice_issue_job(s).                               *)

LeaseExpires(i) ==
  /\ job[i].status = "processing"
  /\ job[i].leased
  /\ job' = [job EXCEPT ![i].leased = FALSE]
  /\ UNCHANGED <<order, row, replacedFor, made, legal, worker, cancelling,
                 notice, faults, desk>>

\* A job left behind after its row went to the provider is for a person.
Abandoned(i) ==
  /\ job[i].status = "processing"
  /\ ~job[i].leased
  /\ row[i] \in {"signing", "submitted"}

\* Mutant: an expired lease is never taken over.
ClaimableQueued(i) ==
  ~Abandoned(i) /\ job[i].status = "queued" /\ job[i].due

Claimable(i) ==
  /\ ~Abandoned(i)
  /\ \/ job[i].status = "queued" /\ job[i].due
     \/ job[i].status = "processing" /\ ~job[i].leased

Swept(S) ==
  [i \in Invoices |->
     IF i \in S /\ Abandoned(i)
     THEN [job[i] EXCEPT !.status = "reconcile_required"] ELSE job[i]]

\* One call sweeps the abandoned jobs of S and claims one job of S.
Claim(w, S) ==
  /\ worker[w].pc = "idle"
  /\ \E i \in S :
       /\ Claimable(i)
       /\ job' = [Swept(S) EXCEPT ![i].status = "processing",
                                  ![i].leased = TRUE]
       /\ worker' = [worker EXCEPT ![w] = [pc |-> "look", job |-> i,
                                           ans |-> "none"]]
  /\ UNCHANGED <<order, row, replacedFor, made, legal, cancelling, notice,
                 faults, desk>>

ClaimNothing(w, S) ==
  /\ worker[w].pc = "idle"
  /\ \E i \in S : Abandoned(i)
  /\ ~\E i \in S : Claimable(i)
  /\ job' = Swept(S)
  /\ UNCHANGED <<order, row, replacedFor, made, legal, worker, cancelling,
                 notice, faults, desk>>

-----------------------------------------------------------------------------
(* One job: processJob, issuePreparedTaxInvoice, submitReservedTaxInvoice. *)

Goto(w, pc, ans) ==
  worker' = [worker EXCEPT ![w] = [pc |-> pc, job |-> @.job, ans |-> ans]]

Fault ==
  /\ faults < MaxFaults
  /\ faults' = faults + 1

\* latestInvoiceStatus: a failed read, or a status it does not know, is null.
Look(w) ==
  LET i == worker[w].job IN
  /\ worker[w].pc = "look"
  /\ \/ /\ row[i] = "issued"
        /\ Goto(w, "finish", "completed")
        /\ UNCHANGED faults
     \/ /\ row[i] \in {"signing", "submitted"}
        /\ Goto(w, "finish", "reconcile_required")
        /\ UNCHANGED faults
     \/ /\ row[i] \notin {"issued", "signing", "submitted"}
        /\ Goto(w, "prepare", "none")
        /\ UNCHANGED faults
     \/ /\ Fault
        /\ Goto(w, "prepare", "none")
  /\ UNCHANGED <<order, row, replacedFor, job, made, legal, cancelling,
                 notice, desk>>

Preparable(i) == job[i].status = "processing" /\ row[i] = "draft"

\* prepare_tax_invoice_issue_job_as_system: the draft is locked before the
\* provider hears of it.  The data may also fail a check before the call,
\* the call may fail, and its answer may be lost after it took effect.
Prepare(w) ==
  LET i == worker[w].job IN
  /\ worker[w].pc = "prepare"
  /\ \/ /\ Preparable(i)
        /\ row' = [row EXCEPT ![i] = "signing"]
        /\ Goto(w, "submit", "none")
        /\ UNCHANGED faults
     \/ /\ Preparable(i)
        /\ row' = [row EXCEPT ![i] = "signing"]
        /\ Goto(w, "recheck", "none")
        /\ Fault
     \/ /\ Goto(w, "recheck", "none")
        /\ UNCHANGED <<row, faults>>
  /\ UNCHANGED <<order, replacedFor, job, made, legal, cancelling, notice,
                 desk>>

\* createInvoice, a replacement only of an invoice that is still valid.
ProviderMakes(i) ==
  LET o == replacedFor[i] IN
  /\ o # None => legal[o] = "valid"
  /\ made' = [made EXCEPT ![i] = @ + 1]
  /\ legal' = [k \in Invoices |->
                 IF k = i THEN "valid"
                 ELSE IF k = o THEN "replaced" ELSE legal[k]]

\* A 408, 429, 5xx or exception leaves it open whether the invoice exists.
Submit(w) ==
  LET i == worker[w].job IN
  /\ worker[w].pc = "submit"
  /\ \/ /\ ProviderMakes(i)
        /\ \E a \in {"issued", "submitted", "signing", "unknown"} :
             Goto(w, "record", a)
     \/ /\ \E a \in {"rejected", "unknown"} : Goto(w, "record", a)
        /\ UNCHANGED <<made, legal>>
  /\ UNCHANGED <<order, row, replacedFor, job, cancelling, notice, faults,
                 desk>>


\* reconcile_tax_invoice_provider_issued with the trigger
\* finalize_issued_replacement, which refuses when the original is gone.
Reconcilable(i) ==
  /\ row[i] \in {"signing", "submitted"}
  /\ replacedFor[i] # None => row[replacedFor[i]] = "issued"

\* Mutant: the trigger leaves the original as it is.
RecordIssuedAlone(i) ==
  /\ Reconcilable(i)
  /\ row' = [row EXCEPT ![i] = "issued"]
  /\ job' = [job EXCEPT ![i].status = "completed", ![i].leased = FALSE]

RecordIssued(i) ==
  /\ Reconcilable(i)
  /\ row' = [k \in Invoices |-> IF k = i THEN "issued"
                                ELSE IF k = replacedFor[i] THEN "replaced"
                                ELSE row[k]]
  /\ job' = IF job[i] = NoJob THEN job
            ELSE [job EXCEPT ![i].status = "completed", ![i].leased = FALSE]

\* transition_tax_invoice_state_as_system, for the two moves a worker asks.
Transitions == {<<"signing", "submitted">>, <<"signing", "draft">>}

Transition(i, to) ==
  /\ <<row[i], to>> \in Transitions
  /\ row' = [row EXCEPT ![i] = to]
  /\ UNCHANGED job

\* Mutant: only an exception leaves the outcome open, a 5xx does not.
StatusRejected(ans) == IF ans \in {"rejected", "unknown"} THEN "draft" ELSE ans

\* What is written for an answer; without an answer the row stays signing.
StatusFor(ans) == CASE ans = "rejected" -> "draft"
                    [] ans = "unknown"  -> "signing"
                    [] OTHER            -> ans

Written(i, to) == IF to = "issued" THEN RecordIssued(i) ELSE Transition(i, to)

Writable(i, to) == IF to = "issued" THEN Reconcilable(i)
                                    ELSE <<row[i], to>> \in Transitions

\* Mutant: a refused invoice is finished with a status the table lacks.
VerdictOnFailed(to) == IF to = "draft" THEN "failed" ELSE "reconcile_required"

VerdictOn(to) == IF to = "draft" THEN "blocked" ELSE "reconcile_required"

\* The answer is recorded; a refused or failed write is looked at again.
Record(w) ==
  LET i  == worker[w].job
      to == StatusFor(worker[w].ans) IN
  /\ worker[w].pc = "record"
  /\ \/ /\ to = "signing"
        /\ Goto(w, "finish", "reconcile_required")
        /\ UNCHANGED <<row, job, faults>>
     \/ /\ to # "signing"
        /\ Written(i, to)
        /\ IF to = "issued" THEN worker' = [worker EXCEPT ![w] = Idle]
                            ELSE Goto(w, "finish", VerdictOn(to))
        /\ UNCHANGED faults
     \/ /\ to # "signing"
        /\ Written(i, to)
        /\ Goto(w, "recheck", "none")
        /\ Fault
     \/ /\ to # "signing"
        /\ ~Writable(i, to)
        /\ Goto(w, "recheck", "none")
        /\ UNCHANGED <<row, job, faults>>
     \/ /\ to # "signing"
        /\ Goto(w, "recheck", "none")
        /\ Fault
        /\ UNCHANGED <<row, job>>
  /\ UNCHANGED <<order, replacedFor, made, legal, cancelling, notice, desk>>

\* After an error the row decides; an issued row ends without finishing.
Recheck(w) ==
  LET i == worker[w].job IN
  /\ worker[w].pc = "recheck"
  /\ \/ /\ row[i] = "issued"
        /\ worker' = [worker EXCEPT ![w] = Idle]
        /\ UNCHANGED faults
     \/ /\ row[i] \in {"signing", "submitted"}
        /\ Goto(w, "finish", "reconcile_required")
        /\ UNCHANGED faults
     \/ /\ row[i] \notin {"issued", "signing", "submitted"}
        /\ Goto(w, "finish", "blocked")
        /\ UNCHANGED faults
     \/ /\ Fault
        /\ Goto(w, "finish", "blocked")
  /\ UNCHANGED <<order, row, replacedFor, job, made, legal, cancelling,
                 notice, desk>>

\* finish_tax_invoice_issue_job_as_system: of any worker's, while the job
\* is processing; a refusal or a lost call is only logged.
Finishable(i, verdict) ==
  /\ job[i].status = "processing"
  /\ verdict = "completed" => row[i] = "issued"

FinishJob(w) ==
  LET i == worker[w].job
      v == worker[w].ans IN
  /\ worker[w].pc = "finish"
  /\ \/ /\ Finishable(i, v)
        /\ job' = [job EXCEPT ![i].status = v, ![i].leased = FALSE]
        /\ UNCHANGED faults
     \/ ~Finishable(i, v) /\ UNCHANGED <<job, faults>>
     \/ Fault /\ UNCHANGED job
  /\ worker' = [worker EXCEPT ![w] = Idle]
  /\ UNCHANGED <<order, row, replacedFor, made, legal, cancelling, notice,
                 desk>>

\* An exception is caught around the whole job; a killed worker is not.
Throw(w) ==
  /\ worker[w].pc \notin {"idle", "finish"}
  /\ Fault
  /\ Goto(w, "finish", "reconcile_required")
  /\ UNCHANGED <<order, row, replacedFor, job, made, legal, cancelling,
                 notice, desk>>

Killed(w) ==
  /\ worker[w].pc # "idle"
  /\ Fault
  /\ worker' = [worker EXCEPT ![w] = Idle]
  /\ UNCHANGED <<order, row, replacedFor, job, made, legal, cancelling,
                 notice, desk>>

-----------------------------------------------------------------------------
(* Finance and the till.                                                   *)

Acts ==
  /\ desk < MaxDesk
  /\ desk' = desk + 1

\* Mutant: a job is queued again whatever its row says.
RequeueableAny(i) == job[i].status \in {"blocked", "reconcile_required"}

\* requeue_tax_invoice_issue_job and requeue_invoice_total_mismatch_jobs,
\* which takes those blocked jobs that carry that error.
Requeueable(i) == job[i].status \in {"blocked", "reconcile_required"}
                  /\ row[i] = "draft"

RequeuedJob == [status |-> "queued", due |-> TRUE, leased |-> FALSE]

Requeue ==
  \E S \in SUBSET Invoices :
    /\ S # {}
    /\ \A i \in S : Requeueable(i)
    /\ Cardinality(S) > 1 => \A i \in S : job[i].status = "blocked"
    /\ job' = [i \in Invoices |-> IF i \in S THEN RequeuedJob ELSE job[i]]
    /\ Acts
    /\ UNCHANGED <<order, row, replacedFor, made, legal, worker, cancelling,
                   notice, faults>>

\* A person enters the number found at the provider.
ReconcileByHand(i) ==
  /\ legal[i] = "valid"
  /\ RecordIssued(i)
  /\ Acts
  /\ UNCHANGED <<order, replacedFor, made, legal, worker, cancelling, notice,
                 faults>>

Cancel(i) ==
  /\ row' = [row EXCEPT ![i] = "cancelled"]
  /\ cancelling' = IF row[i] = "issued" THEN cancelling \cup {i}
                                        ELSE cancelling

\* cancelTaxInvoice: the row first, the provider afterwards.
FinanceCancel(i) ==
  /\ row[i] = "issued"
  /\ Cancel(i)
  /\ Acts
  /\ UNCHANGED <<order, replacedFor, job, made, legal, worker, notice, faults>>

\* reserve_tax_invoice_replacement: a new draft and its job, due at once.
Replaceable(i) ==
  /\ row[i] = "issued"
  /\ \A k \in Invoices : replacedFor[k] = i => ~Active(k)

ReserveReplacement(i) ==
  /\ Replaceable(i)
  /\ \E n \in Invoices :
       /\ NextRow(n)
       /\ row' = [row EXCEPT ![n] = "draft"]
       /\ replacedFor' = [replacedFor EXCEPT ![n] = i]
       /\ job' = [job EXCEPT ![n] = RequeuedJob]
  /\ Acts
  /\ UNCHANGED <<order, made, legal, worker, cancelling, notice, faults>>

\* refund_paid_order cancels the latest live row of the order, whatever its
\* status, and leaves the jobs alone.
Refund ==
  /\ order = "paid"
  /\ order' = "refunded"
  /\ IF \E i \in Invoices : Active(i)
     THEN \E i \in Invoices : Latest(i) /\ Cancel(i)
     ELSE UNCHANGED <<row, cancelling>>
  /\ Acts
  /\ UNCHANGED <<replacedFor, job, made, legal, worker, notice, faults>>

\* cancelInvoice at the provider, awaited after the row was cancelled; when
\* it throws, the person who asked is warned.
ProviderCancel(i) ==
  /\ i \in cancelling
  /\ cancelling' = cancelling \ {i}
  /\ \/ /\ legal' = [legal EXCEPT ![i] = IF @ = "valid" THEN "cancelled"
                                                        ELSE @]
        /\ UNCHANGED <<notice, faults>>
     \/ Fault /\ notice' = notice \cup {i} /\ UNCHANGED legal
  /\ UNCHANGED <<order, row, replacedFor, job, made, worker, desk>>

-----------------------------------------------------------------------------
WorkerStep(w) ==
  \/ Look(w) \/ Prepare(w) \/ Submit(w) \/ Record(w) \/ Recheck(w)
  \/ FinishJob(w)

\* The cron run claims from all jobs, an after() call only its own.
ClaimStep(w) ==
  \E S \in {Invoices} \cup {{i} : i \in Invoices} :
    Claim(w, S) \/ ClaimNothing(w, S)

Next ==
  \/ AskBeforePaying \/ SyncAgain \/ Requeue \/ Refund
  \/ \E total \in {"zero", "positive"} : Pay(total)
  \/ \E i \in Invoices :
       \/ BecomeDue(i) \/ LeaseExpires(i) \/ ReconcileByHand(i)
       \/ FinanceCancel(i) \/ ReserveReplacement(i) \/ ProviderCancel(i)
  \/ \E w \in Workers :
       \/ ClaimStep(w) \/ WorkerStep(w) \/ Throw(w) \/ Killed(w)

Spec == Init /\ [][Next]_vars

\* The cron route runs every few minutes and claims while a job can be
\* claimed, time makes a queued job due and ends a lease, and a worker that
\* is not killed goes on.
Fairness ==
  /\ \A i \in Invoices : WF_vars(BecomeDue(i)) /\ WF_vars(LeaseExpires(i))
  /\ \A w \in Workers : WF_vars(WorkerStep(w))
  /\ WF_vars(\E w \in Workers : ClaimStep(w))

FairSpec == Spec /\ Fairness

-----------------------------------------------------------------------------
(* Properties.                                                             *)

\* However many workers hold a job, at most one legal invoice is created for
\* a row: the draft is locked before the provider is called and is a draft
\* again only when the provider refused it (prepare, the outcome-unknown
\* rule of submitReservedTaxInvoice, the lease sweep, requeue on drafts only).
OneLegalInvoice == \A i \in Invoices : made[i] <= 1

\* An invoice that exists at the tax authority and is not recorded here as
\* issued is on somebody's list: a worker's run or the attention list has its
\* job, or the call that cancels it is under way or was reported as failed.
NothingForgotten ==
  \A i \in Invoices :
    (legal[i] = "valid" /\ row[i] # "issued") =>
      \/ job[i].status \in {"processing", "blocked", "reconcile_required"}
      \/ i \in cancelling \cup notice

\* At most one invoice of the order is recorded as issued, and one that is
\* was created by the provider (finalize_issued_replacement, reconcile).
OneIssued ==
  /\ \A i, k \in Invoices : row[i] = "issued" /\ row[k] = "issued" => i = k
  /\ \A i \in Invoices : row[i] = "issued" => legal[i] \in {"valid", "replaced"}

\* A queued or claimed job reaches an outcome a person can see, though
\* workers are killed and leases expire (the claim of expired leases).
JobSettles ==
  \A i \in Invoices :
    job[i].status \in {"queued", "processing"} ~>
      job[i].status \in {"completed", "blocked", "reconcile_required"}

-----------------------------------------------------------------------------
(* What the repository says and the code does not keep: TLC refutes this      *)
(* formula on a small instance, as README.md tells under "Known divergences". *)

\* What void-paid-actions.ts asks of a refund: an invoice that stays valid at
\* the authority does not go unnoticed.
RefundNoticesLiveInvoice ==
  order = "refunded" =>
    \A i \in Invoices :
      legal[i] = "valid" =>
        \/ i \in cancelling \cup notice
        \/ job[i].status \in {"processing", "blocked", "reconcile_required"}
=============================================================================
