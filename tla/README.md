# Formal models of Comtammatu

Comtammatu runs a chain of restaurants: a Next.js application (`apps/web`) over
a Postgres database (Supabase) whose SQL functions hold most of the business
logic (`supabase/migrations`), a print agent per branch (`apps/print-agent`),
and relays for delivery platforms (`tools/`). Every state change that matters
is a row update inside a SQL function, that is, one transaction; what is hard
is that many processes call these functions in any order: browsers of staff,
phones of guests, serverless webhook routes, cron jobs and daemons that crash,
retry and lose answers.

In what follows `B` is `supabase/migrations/20260902162918_baseline.sql` and
`M` is `supabase/migrations/20260903120620_refresh_pending_vietqr_on_order_change.sql`.

## 1. Inventory

| Component | State | Operations | Talks to | Hard behaviour | What makes it correct |
|---|---|---|---|---|---|
| Print queue (`print_jobs`) | a row per ticket: status, claim date | enqueue (kitchen, receipt), claim, complete, reap, retry | web application, print agent | stale completion, reaping a live run, reprint of a job in flight | a printed row was printed; one holder per job; a stuck job is found |
| Print agent (`apps/print-agent`) | runs in flight, realtime channel, timers | startup drain, realtime handlers, drain, send, reap | print queue, LAN printers | overlapping drains, crash, lost events, lost calls, resends | every kitchen ticket comes out or is reported; no duplicate nobody asked for |
| Order settlement (SQL) | `orders`, `payments`, `self_order_payment_requests` | confirm cash, remote intent, complete, cancel, refund, reverse, correct, cleanup; triggers | POS, guest, webhook, finance | who settles first; edits of the bill while a code is shown; triggers that update one another's rows | the bill is settled once, for what it comes to |
| POS payment actions | a call in flight per device | promotion check, then RPC | settlement | check and use are two calls | a stale check settles nothing twice |
| Self-order payment requests | the request's life cycle, 15-minute expiry | create, recover, adopt, cancel, expire | settlement | expiry, guest cancelling while money is on its way | a shown code is payable; "paid" on the phone is paid |
| SePay webhook and bank evidence | `webhook_events`, canonical bank match | deliver, reconcile, mark failed, link, replay | settlement | at-least-once delivery, overlap, lost answer after commit | one transfer, one payment; every report is filed |
| Tax invoice issuing | `tax_invoices`, `tax_invoice_issue_jobs` with leases; the provider's legal invoices | claim, prepare, submit, record, finish, requeue, reconcile, replace, cancel, refund | settlement, provider | expired lease with a live worker, unknown outcome, a replacement racing a cancellation | one legal invoice per row, none of them forgotten |
| Orders and kitchen display | `orders`, `order_items`, `kds_tickets`, what `stock_movements` says was deducted | create, append, gift, route, complete, recall, sold out, cleanup, serve, void, cancel | POS, kitchen screens, settlement, print queue | screens act on cards of orders that moved, were paid or cancelled; every operation posts a delta of the stock | a ticket is on its dish's order; what was made is deducted once |
| Table merge, split, transfer | lines and tickets of several orders | split, merge, move to another table | kitchen | finished tickets move, their deductions do not | dish and ticket move together |
| Delivery relay, Android | SQLite queue of receipts with claims; requests in flight | capture, claim, post, mark, release, recover, retry, dismiss; lookup and create on the server | orders | a restart between request and mark, retries beside a request still served, orders a cashier entered | one POS order per receipt; no false SENT; the queue drains |
| Delivery relay, GrabFood extension | queue and relayed list in `chrome.storage`, fingerprints in each tab | detect, enqueue, post, merge the outcome, give up, retry; create, amend, cancel on the server | orders | read-modify-write across an await, overlapping runs, revisions overtaking one another | an order reaches the POS, a cancellation too; a paid order is left alone |
| Delivery relay, ShopeeFood extension | as the GrabFood extension | as the GrabFood extension | orders | as above | as above |
| POS sessions | `pos_sessions`: window, count, expected cash, resolution; the shift of each order | open, close, resolve the variance; rebinding, correction and refund of payments | settlement, finance | several devices, calls that commit later than their timestamps, payments after the close | a payment is in one till, its order's; closed books move only by corrections |
| Self-order submission | pending requests of dishes | submit, accept, reject | orders | double submit, accept twice | a submission becomes one order change |
| Stock transfers, stocktake | documents, ledger | dispatch, receive, count, post | orders | receiving twice, count against sales | quantities are moved once |
| Promotions, pickup queue, payroll, HR, menu, settings, notifications, work tasks, UI, auth, print rendering | rows edited by one user, pure functions | - | - | little or none | unit tests |

Components interact through the database: a settlement enqueues a receipt in
the print queue (failures of which are swallowed), marks requests through
triggers, queues a tax invoice and deducts stock; routing and completing dishes
enqueues kitchen tickets; the relays create orders with the same `create_order`
as the POS; the webhook route and the POS only call SQL functions.

## 2. Plan

Done (sections 3 to 6):

1. `PrintPipeline`, `PrintPipelineProofs`: the print queue with the agent.
2. `OrderLedger`: the settlement functions as operators on a database state.
3. `OrderPayments`, `OrderPaymentsProofs`, `OrderRequestsProofs`: everybody who
   calls them, with the webhook route; the money, then the guest's requests.
4. `Settlement`: what they promise together; implemented by `OrderPayments`.
5. `InvoiceQueue`, `InvoiceQueueProofs`: tax invoices with workers and provider.
6. `Kitchen`, `KitchenProofs`: dishes, tickets and deductions of the orders of a
   table, with splits and merges.
7. `RelayQueue`, `RelayQueueProofs`: the Android relay with the web route.
8. `GrabRelay`, `GrabRelayProofs`: the GrabFood extension with its web route.
9. `PosTill`, `PosTillProofs`: the shifts of a branch and their cash.

Worth doing next, in this order:

10. Self-order submission in front of `Kitchen!CreateOrder` and `AppendItems`.
11. The ShopeeFood extension as a second instance of `GrabRelay`'s queue.

## 3. Modules

### PrintPipeline

One branch: the rows of `print_jobs` and one agent.

| TLA+ | Code |
|---|---|
| `job[j].status`, `job[j].claim` | `print_jobs.status`, `claimed_at` (NULL, younger than 300 s, older) |
| `run[r]`, `todo[r]` | an activation of `drainPending` or `processJob` in `index.ts`: where it awaits, the job it claimed, the attempt, the outcome; the ids it still has to process |
| `agent`, `link`, `inbox` | the process; the realtime channel; events whose handler has not run |
| `EnqueueTicket`, `EnqueueReceipt`, `Reprint`, `RetryJob` | the inserts of the kitchen functions; `enqueue_receipt_print` with its upsert (by a person, or by the service role, which does not reprint a printed receipt); `retry_print_job` |
| `AgentStart`, `AgentReady`, `Subscribed`, `OnJobEvent`, `Tick`, `ReapFails` | `main`: startup drain, subscription, handlers, `drainAndReap` with `expire_stuck_print_jobs` |
| `DrainPending`, `DrainFails`, `Claim`, `Prepare`, `SendWhole`, `SendFails`, `Complete` | `drainPending`, `claim_print_job`, `processJob` up to the dispatch, `sendRawLAN`, `complete_print_job` |
| `ClaimAnswerLost`, `CompleteLost`, `AgentCrash`, `Disconnect` | a remote call whose answer is lost; a crash; a dropped channel |
| `Age` | 300 seconds pass since a claim |

`copies`, `opens` and `reaped` are history variables. An attempt either hands
over the whole ticket (`SendWhole`; the socket may fail after it) or fails
before the write callback (`SendFails`; a part may have been taken, `torn`).
Shift reports are enqueued by the same upsert as receipts (`ReceiptJobs`). Left
out: payloads, several printers, the limit of 50 rows per drain.

### OrderLedger and OrderPayments

`OrderLedger` has no state: a database state is a record `[order, pay, req]`
and each SQL function is an operator from it to the state it commits, the
triggers its updates fire included: `SyncFromOrder` is the trigger on `orders`,
`OnCompleted` and `FailPayment` those on `payments`, `RefreshVietQr` the one
that follows the total. `OrderPayments` turns them into actions of the POS, the
guest, finance, cleanup and the webhook route.

| TLA+ | Code |
|---|---|
| `db` | the rows of one order |
| `desk` | tenders for which some device has passed the promotion check of a payment action and has not made its last RPC call yet |
| `event`, `match` | `webhook_events`; the canonical bank match of a transfer |
| `hook`, `acked` | activations of the route and where they await; transfers answered 200 |
| `CheckOrder`, `CashConfirmed`, `VietQrCreated`, `CallsOver` | the two steps of `confirmCashPayment`, `createPayment` |
| `GuestRequests`, `GuestCancelsVietQr`, `StaffCancelsRequest`, `RequestExpired` | the self-order functions of `M` and `B` |
| `Delivered`, `HookReconciles`, `HookCallFails`, `HookMarksFailed`, `HookReplies` | `POST` of the webhook route: claim, RPC, marking, reply |
| `Reconcile`, `EnsureMatch`, `TransferReplayed`, `TransferLinked` | `reconcile_sepay_order_evidence` and its core, `ensure_sepay_payment_reconciliation`, `replay_signed_sepay_payment_evidence`, `reconcile_bank_transaction_targets` |

SQL functions lock the order row and are one action each. Abstractions:

- order status `open` stands for new to served; `completed` is reached only
  through payment, as no callable function sets it otherwise;
- the stored total is the sum of the lines, so that the branch of
  `complete_payment_and_consume_stock` for a stale amount is not reached;
- MoMo and delivery-platform tenders, refund rows, stock and invoices are left
  out; `pos_convert_cash_payment_to_vietqr` is a stricter `MethodCorrected`;
- review codes are two classes: a person may still link or replay (`review`),
  or not (`conflict`);
- a call that raises changes nothing and is not a step. `RequestTriggerNeverRefuses`
  checks that the trigger that guards the requests never has to raise;
- `self_order_reconcile_expired_payment_requests` has no caller and is left out.

### Settlement

The promise of all parties: the bill changes while it is due; it is taken once
for what it comes to then; the tender may be corrected; it may be returned
once. `SettlesOnce` in `OrderPayments` instantiates it with a refinement mapping
(the stage from the payments' statuses, the amount and tender from the payment
that took the money). `order_webhook` checks that every step maps to a step or a
stutter, and `OrderPaymentsProofs` proves it.

### InvoiceQueue

One order: its rows of `tax_invoices`, numbered by id (a replacement or a
reissue is a later row), a job per row, any number of workers.

| TLA+ | Code |
|---|---|
| `row`, `replacedFor`, `job` | `tax_invoices.status`, `replaced_for`; `tax_invoice_issue_jobs.status`, `available_at` passed, `locked_until` ahead |
| `made`, `legal` | what the provider created under the row's uuid, and what it holds for it |
| `worker[w]` | a run of `runTaxInvoiceIssueWorker`: where `handle` and `processJob` await, its job, the provider's answer or the verdict |
| `AskBeforePaying`, `Pay`, `SyncAgain` | `upsert_tax_invoice_issue_job`, called by the payment actions and by the trigger on `orders` |
| `Claim`, `ClaimNothing`, `LeaseExpires` | `claim_tax_invoice_issue_jobs_as_system` with its sweep of expired leases |
| `Look`, `Prepare`, `Submit`, `Record`, `Recheck`, `FinishJob` | `processJob`: read the row, check and lock it, `submitReservedTaxInvoice`, the RPC that records the answer, the verdict, `finish_tax_invoice_issue_job_as_system` |
| `Throw`, `Killed` | `handle`'s catch; the platform stops the function |
| `Requeue`, `ReconcileByHand`, `FinanceCancel`, `ReserveReplacement`, `Refund`, `ProviderCancel` | the actions of Finance and `refund_paid_order` with `voidPaidOrder`'s call of the provider |

A worker may outlive its lease: the cron route may run 300 s (`maxDuration`),
which is also the lease, and finishing does not check the holder. The provider
is modelled *without* its refusal of a uuid it has seen, so that what is shown
of double issuing rests on the rows alone. Left out: the daily summary invoice,
contents and totals (a failed check is a choice), the date limit of a refund.
After a cancellation by Finance a further sync inserts a draft without a job,
which `SyncAgain` does too.

### Kitchen

The orders of one table, their dishes and the stock deducted for them.

| TLA+ | Code |
|---|---|
| `status`, `paid`, `promo` | `orders.status`, `payment_status`, `promotion_id` |
| `item[d]` | a row of `order_items`: order, status, `sent_to_kitchen_at` |
| `ticket[d]` | its `kds_tickets`: order, status, `first_ready_at`, the send |
| `posted`, `rows` | `sale_consumption` of the order: the sum, and the single movements |
| `wasted`, `restored` | `cancelled_after_kds_ready`, `sale_consumption_restore` |
| `been`, `made` | history: dishes that were on the order; dishes somebody finished |
| `Route` | `route_order_to_kds`: screens get tickets, printers get print jobs |
| `Qualifying`, `Delta`, `Post` | `post_pos_sale_consumption_if_ready`: what counts as consumed less what was posted |
| `CheckReady`, `Synced` | `check_order_ready`; the trigger from tickets to dishes |
| `CreateOrder` ... `MergeOrders` | the functions of the same names, one transaction each |

Every dish is one portion of one ingredient, shared by all, because deductions
are computed ingredient by ingredient. Operations lock the order, so each is
one action. Left out: quantities above one (and with them the split of a part
of a line and `reduce_order_item_quantity`), `edit_pending_order_item` (both
revoke promotions as a void does), guards on pending payments, feature flags,
table occupancy, and the order statuses `confirmed` and `preparing`, which no
function sets.

### RelayQueue

The Android agent of a branch poses as a printer, stores each receipt and posts
it to the web server.

| TLA+ | Code |
|---|---|
| `rows` | the SQLite table `queued_orders`; no row is ever deleted |
| `proc`, `todo` | the intake coroutines and the retry loop of `WebhookDispatcher` |
| `recovery` | the ids `recoverUnclassifiedReceipts` still has to read again |
| `requests` | requests the server is handling; they may outlive their client |
| `pos` | delivery orders on the POS, entered by a cashier or by the relay |
| `PrintReceipt`, `StoreReceipt`, `DispatchNew`, `Claim` | intake and `enqueueReceipt`, `claimOrder` |
| `LoopRound`, `LoopNext`, `GiveUp`, `Finish`, `MarkOrder`, `ReleaseStaleClaims` | `startRetryLoop`, `executePost`, the marks |
| `Restart`, `Recover` | a new process; recovery of receipts that were not read |
| `RetryOrderNow`, `DismissWaitingOrder` | the operator's buttons |
| `LookUp`, `Create`, `Refuse` | `POST` of the delivery relay route: two calls |

One platform (ShopeeFood), which has the lookup of orders entered by hand.
`SlowPosts` says whether a POST may outlast the 120 s claim; the HTTP client
bounds single reads, not the call. A request is named by its coroutine and the
number of faults before it: a coroutine has a second request on its way only
after a fault left the first one behind, so the name tells them apart. `todo`
holds the ids a round has read; the loop takes the smallest first.

### GrabRelay

The browser extension for GrabFood. `chrome.storage` serves calls in order; a
handler reads the whole queue, computes, and writes the whole queue.

| TLA+ | Code |
|---|---|
| `grab`, `tabs` | what the portal says of an order; the fingerprints a tab remembers |
| `calls` | messages of tabs and popup to the worker and how far each is served |
| `queue`, `relayed` | `grabRelayQueue`, `grabRelayedOrders` |
| `runs`, `requests` | activations of `processRelayQueue`; requests at the web server |
| `pos` | the orders on the POS: revision and status |
| `ReadQueue`, `WriteQueue` | the handlers in `background.js`, cut at their awaits |
| `RunRead`, `RunSelect`, `RunSettle`, `RunMerge` | `processRelayQueue`, cut at its awaits |
| `Server` | `POST` of the GrabFood relay route |

The two SQL functions by which the route revises and cancels an order exist in
the repository only as the contract in
`supabase/tests/grab_relay_order_revision.sql` and are taken from it. A tab's
fetch of the details and its message are one step; a request counts the faults
before it, so that one whose run died is told from its repetition; a tab reloads only when it
has no unanswered message; the election of a leading tab is left out. A run
posts three items at once, as in the code; which three of more the queue's order
decides, any three do here. An item that becomes due does so in every copy of
it, since the time is part of the item. The queue and the list of relayed orders
are cut at 50 and 200 entries in the code, which is left out.

Queue and list are read and written as a whole, with awaits between, by handlers
and runs that serve different orders, so that a write may take out what came in
after its snapshot. `overwritten` and `forgotten` are history variables: the
orders now missing from the queue, or from the list, because of such a write.
The properties say what still holds: nothing *else* loses an acknowledged order
(`QueuedNotLost`); an order whose item was overwritten is sent again unless every
tab had already been told that it is queued (`OrderReachesPos`, `Stranded`); and a
cancellation, told again at each poll, arrives unless such writes go on meeting
it for ever (`LostToAnother`) or took the order off the list by which a tab knows
it (`CancelReachesPos`).

### PosTill

The shifts of one branch, one after the other, and the orders rung in them.

| TLA+ | Code |
|---|---|
| `session[s]` | a row of `pos_sessions`; `booked` are the payments summed in `expected_cash`, `counted` is `closing_cash` |
| `order[o]` | an order with its payment: status, method, `paid_at`, `pos_session_id` |
| `opens`, `closes`, `paying` | calls that have begun, with the `now()` of their transaction, and have not committed |
| `OpenBegun`, `SessionOpened` | `openPosSession`; the unique index on open shifts |
| `CloseBegun`, `SessionClosed` | `closePosSession`; `close_pos_session` |
| `VarianceResolved` | `resolve_pos_session_variance` |
| `CashRevenue` | `pos_session_cash_revenue`, the sum over the window of the shift |
| `PayBegun`, `Paid`, `Rebound` | `complete_payment_and_consume_stock` and the trigger that moves a paid order to the open shift |
| `Recounted`, `MethodCorrected`, `CashConverted` | `correct_payment_method`, `pos_convert_cash_payment_to_vietqr` |
| `Refunded` | `refund_paid_order`, `reverse_payment_and_post` |

A shift's cash is found by time (`paid_at` in its window), its orders by
`pos_session_id`; the properties relate the two. `rushed` is a history variable:
payments whose call overlapped an opening or a closing, for which time and order
of commits differ. Bills are equal and above the tolerated variance; the opening
cash cancels out. How a payment is settled is `OrderPayments`' business and is
one step here; an order cancelled unpaid is one that nobody pays. A call reads
and writes at its commit. The close also ends a bypass of the network check,
which belongs to access control.

## 4. Runs

| Run | Bounds | Shows |
|---|---|---|
| `print_safety` | one kitchen ticket, one receipt, two runs, two attempts, one fault, two requests | `PrintedMeansHandedOver`, `ExclusiveUntilReaped`, `NoExtraCopies` |
| `print_liveness` | two kitchen tickets, two runs, one fault | `KitchenTicketSettles` |
| `order_till` | three payments, two requests, three totals, two edits, no bank | `PaidMeansTaken`, `OneLivePayment`, `LiveQrIsPayable` |
| `order_webhook` | two transfers, two activations, one fault, two payments, one request, one edit | `EvidenceHolds`, `SettlesOnce`, `CompletedRequestIsPaid`, `RequestTriggerNeverRefuses` |
| `order_filed` | two transfers, two activations, one fault | `TransferIsFiled` |
| `invoice` | two workers, two rows, two faults, three desk actions | `OneLegalInvoice`, `NothingForgotten`, `OneIssued`, `JobSettles` |
| `kitchen` | two orders, three dishes (one printed, one a gift), two special operations | `TicketFollowsDish`, `ChargedMeansMade`, `PaidIsDeducted`, `CancelledBooksClosed`, `CancelledStays` |
| `kitchen_refund` | the same | violation of `RefundRestores` |
| `relay_queue` | three receipts of two orders, one intake coroutine and the loop, two prints, one fault, one press | `OneRelayedOrder`, `SentMeansOnPos`, `OwnedWhileSent`, `QueueDrains` |
| `grab_relay` | one order, a tab, two runs, two revisions, one cancellation, one fault | `OneFlightPerOrder`, `PaidIsFinal`, `CancelReachesPos` |
| `grab_orders` | two orders, a tab with two messages at once, the popup, one run, one fault, one press | `QueuedNotLost`, `OrderReachesPos` |
| `pos_till` | two orders of the branch, one of a relay, two shifts, two shift calls at once, five timed calls | `FiledInItsTill`, `ClosedBooksHold`, `ResolutionFits` |

Why these bounds are enough. Two runs of the agent are needed to race; a third
adds nothing to a race for one row, and the theorems of section 6 hold for any
number. Two requests suffice to reopen a job while a run still holds it and
once more after. Three payment rows allow a failed one, its successor and the
next; the last row is reserved for confirmations, so that the bound does not
make a confirmation fail that the code would carry out. Totals 0, 10 and 20
separate a free bill, the old total and the new one; the one-dong tolerance of
the code never confuses them. Two transfers let a payer pay twice. One fault
crosses every single failure with every interleaving; two are needed only where
a delivery overlaps and the overlapping call fails. Two workers race for one
invoice job; two rows are an invoice and its replacement; two faults lose an
answer and kill the worker that would have noticed. In the kitchen two orders
are what a split or merge needs, and three dishes leave one behind, move one
and cancel one; two special operations are, for instance, a split and the merge
back, or a cleanup and a recall; cooking, serving, paying and refunding are not
bounded. Two prints are a receipt and its reprint, or two orders at once.
For Grab, two runs race for one order, with a revision, a cancellation and a
fault between them; and two orders meet in one queue: with two messages the
tab's handlers both read it before either writes, and the run merges over what
they wrote, so that the lost update, the fault and the retry all happen in
`grab_orders`. No order ends there (`MaxEnded` is 0), as a cancellation that is
told again and again multiplies the states. Outside the runs, TLC has found
`QueuedNotLost`, `OrderReachesPos` and `CancelReachesPos` to hold with two orders
that both end, two messages and no fault; the last two also with two orders of
which one ends and a fault; `CancelReachesPos` with two orders and two runs; and
all three with one order and two tabs.
Five timed calls open a shift, close it, open the next and pay one order in each
window, or one between them; two shift calls at once are two devices that close
the same shift, or a close beside an opening.
`MaxFaults`, `MaxRequests`, `MaxEdits`, `MaxPayments`, `MaxReqs`, `MaxInvoice`,
`MaxDesk`, `MaxSpecials`, `MaxPrints`, `MaxOperator`, `MaxRev`, `MaxCalls`,
`MaxEnded`, `MaxPresses`, `MaxSessions`, `MaxShiftCalls` and `MaxClock` are all the bounds; each is a conjunct of the guards that consume
it. `MaxAttempts` and `LoopLimit` are the code's own limits, made smaller.

Deadlock is checked in the print runs only: elsewhere an order that is closed,
an empty queue or a bound that is used up leaves nothing to do. Symmetry is used
only in safety runs, over runs, transfers, activations, jobs, orders and dishes
of one kind, which no definition tells apart.

## 5. Fairness

`PrintPipeline!Fairness`: the service manager restarts the agent (NSSM), the
startup sequence and the subscription go on, the five-minute timer fires
(`setInterval`), a run's awaited call returns or fails (the calls time out), and
claims grow old. Faults are bounded, requests and enqueueing are not fair:
nobody has to press a button. `OrderPayments!Fairness`: SePay repeats a report
until it gets a 200, and an activation goes on until it answers, marks or dies.
Nobody has to pay. `InvoiceQueue!Fairness`: the cron route runs again and again
and claims while it can, time makes jobs due and ends leases, a worker that is
not killed goes on. `RelayQueue!Fairness`: coroutines run, the loop comes round
every 15 s, back-offs and claims run out, and the server answers or the client
gives up. `GrabRelay!Fairness`: the portal is polled, tabs send what they find,
storage calls and runs go on, requests end. Two of its conditions are strong. A
tab that finds no place for a message finds one again and again, and sends: it
is the bound `MaxCalls` that makes it wait, nothing in the code. And the alarm
of the queue, each minute, now and then finds only items that were tried before:
cancellations, told again each 45 s, take precedence over retries but do not
meet every alarm. Nothing is assumed of people, of
receipts or of faults, which are bounded. `Kitchen` and `PosTill` have no
liveness: every step in them is somebody's decision.

## 6. Proofs

Every theorem is proved for all values of the constants that satisfy the
assumptions named in the modules.

`PrintPipelineProofs`, for all sets of jobs and runs and all bounds:

- `TypeCorrect`: `TypeOK`, by induction over the actions.
- `Exclusion`: `ExclusiveUntilReaped`. It is not inductive: a claim takes a
  *pending* row, and only if a held job is never pending can the claim not
  double it. The invariant adds `HeldIsProcessing`: a job held by a run and not
  reaped is 'processing'.
- `HandedOver`: `PrintedMeansHandedOver`, from `SuccessIsReal`: a run that is
  about to report success has handed the ticket over.
- `ClaimsDated`: `KitchenClaimDated`; every action that leaves a kitchen row in
  'processing' dates it, the reprint that does not is for receipts only.
- `Copies`: `NoExtraCopies`. Resends, reaps and overlapping runs all have to be
  paid for by an opening of the job: the invariant `CopiesInv` is
  `copies + (runs that may still print it) + (1 if it is pending) <= opens`,
  with cardinalities of sets of runs, hence the assumption that `Runs` is finite.

The argument of `Copies` shows what protects against double tickets: not the
status check of `complete_print_job`, which has none, but that an attempt that
handed the ticket over never returns to `send`.

`InvoiceQueueProofs`, for all sets of workers and all bounds:

- `TypeCorrect`: `TypeOK`.
- `OneLegalInvoiceHolds`: `OneLegalInvoice`. The invariant says why nothing is
  submitted twice although leases do not exclude: `UnsentUnmade` (nothing was
  created for a row that may be submitted), `SendingIsSent` (a worker that talks
  to the provider has taken its row out of that state first), `OneSender` (so no
  two workers talk about one row) and `OpenHasNoRows`. The proof shows the
  compare-and-set on the draft to be the only protection: neither leases nor
  the provider's memory of uuids occur in it.
- `OneIssuedHolds`: `OneIssued`, and `NothingForgottenHolds`: `NothingForgotten`,
  both from `RowsSound`. `OnePath`: beside an active row of the order stands at
  most the replacement reserved for it, and that only while the original is
  issued and it is not. `Law` ties the rows to the tax office: what is issued,
  or about to be written down as issued, is an invoice; what was cancelled
  stays cancelled; the original of a legal replacement is no longer valid.
  `InHand`: a row that is with the provider, or about to be, has a job in hand
  ('processing', or one of the states Finance sees). Together they say that an
  invoice nobody wrote down is always somebody's job. Each action is compared
  with its snapshot of the rows (`Agrees`, `Keeps`, `Released`).

`OrderPaymentsProofs`, for any number of payments, requests, transfers and
activations and any totals:

- `OneLivePaymentHolds`: `OneLivePayment`.
- `PaidMeansTakenHolds`: `PaidMeansTaken`.
- `ImplementsSettlement`: `SettlesOnce`, the refinement of `Settlement`.
- `EvidenceAlwaysHolds`: `EvidenceHolds`.

The invariant `Sound` speaks of the `orders` row and its `payments` rows alone:
one payment is live at most, the order is paid exactly when a payment took the
money, with the same tender and amount, and a paid order is closed. Each SQL
function gets a lemma that says what it does to the money, whatever the requests
are: most are `Harmless` (they fail, refresh or forget what is not paid), the
others bill (`Rebilled`), take (`Took`), correct (`Corrected`) or return
(`Returned`), and these are the steps of `Settlement`. The requests protect
nothing of this: what keeps the money single is that a confirmation works on the
live payment if there is one (`Target`) and that bills change and orders are
cancelled only while unpaid. For the evidence, `EvidenceInv` adds that only a
filed transfer names a payment, stands for it, and is the only one to; it holds
because every write over a transfer's row either names no payment, comes with
the confirmation, or links a payment that nothing stands for yet, and because a
payment with evidence is never corrected to cash.

`OrderRequestsProofs`, the guest's side of the same, which extends the former:

- `TypeCorrect`: `TypeOK` of the whole module.
- `LiveQrIsPayableHolds`: `LiveQrIsPayable`; `CompletedRequestIsPaidHolds`:
  `CompletedRequestIsPaid`.
- `TriggerNeverRefuses`: `RequestTriggerNeverRefuses`: the trigger on
  `pos_payment_requests`, which raises on a transition it does not know, would
  roll a settlement back; no caller ever runs into it.

The invariant `ReqSound` says how a request hangs together with the rest: one is
active at most (`OneActive`), it waits for an open bill, and a VietQR request
for the one pending VietQR payment (`Waits`), whose amount is the bill and the
code's (`Fresh`); a request that is done names a payment that took the money
(`Past`). A function that only closes requests keeps this (`Closes`); the others
(issue, refresh, confirm by bank or cashier) are taken one by one. `Fresh` does
not hold inside a call, only of the state it leaves: a changed bill refreshes or
cancels the code in the same transaction. That the latest of a set of requests
is one of the set needs a least element, which the library derives from
well-foundedness of < on the naturals (`WFMin`).

`KitchenProofs`, for any number of orders and dishes:

- `TypeCorrect`: `TypeOK`; in particular a deduction never goes negative or
  beyond the number of dishes, for which the finite cardinality of `Dishes` is
  needed.
- `CancelledDishStays`: `CancelledStays`.
- `BooksOfCancelledClosed`: `CancelledBooksClosed`. It needs the invariant
  `CancelledIsEmpty`: no live dish is on a cancelled order, which voids,
  cancellations, refunds and merges establish and no operation breaks; what is
  not live does not qualify, so a late bump finds nothing to deduct.
- `TicketFollowsDishHolds`, `ChargedMeansMadeHolds`, `PaidIsDeductedHolds`:
  `TicketFollowsDish`, `ChargedMeansMade`, `PaidIsDeducted`. The invariant
  `KitchenSound` adds per dish that its ticket fits it (`Fits`) and that the
  history knows it (`Known`), per order that a paid one is over and an
  uninserted one has no past (`Ended`). The proof has two halves: what each
  operation does to a dish, to the history of an order and to what is on its
  board (`Moves`), and the four ways any operation moves the books: not at all,
  by posting what qualifies, by booking waste with a cancellation, by restoring
  (`BooksMove`). Splits and merges are the hard case: a dish that leaves an
  order stays in its history, which is what the charge is compared with.
- `RefundWithinDeduction`: a refund restores at most what was deducted, which no
  run checks: divergence 1 errs on one side only.

`PosTillProofs`, for any number of orders, shifts and calls:

- `TypeCorrect`: `TypeOK`.
- `RepaymentsFit`: `ResolutionFits`.
- `PaymentsFiled`: `FiledInItsTill`. The invariant is about time: a payment call
  that nothing overlapped runs while no opening or closing is under way, so the
  shifts closed by then ended before it (`Undisturbed`), and an opening or
  closing that commits after it began after it (`LaterCalls`). With one open
  shift at a time (`OneOpen`) only that one has the payment in its window, and it
  is the one the trigger gives the order.
- `BooksOfClosedHold`: `ClosedBooksHold`. A correction sums the window again,
  which by `PaymentsFiled` finds for the other payments what is booked, and
  nothing is booked outside the window (`BookedInWindow`).

`RelayQueueProofs`, for any receipts, orders, coroutines and bounds:

- `TypeCorrect`: `TypeOK`.
- `OneRelayedOrderHolds`: `OneRelayedOrder`. The invariant `OneEach` is about the
  server alone: retries, abandoned claims and reprints may post a receipt as
  often as they like, `create_order` finds the order by its key.
- `SentMeansOnPosHolds`: `SentMeansOnPos`, if no two orders share both their
  digits and their dishes (`DistinctOrders`; without it the property is false,
  divergence 11). An answer must belong to the request its coroutine waits for:
  `Named` says that requests have different names and that the one a coroutine
  waits for carries its row's order; `SentInv` that an order is on the POS
  before its coroutine has heard "ok".
- `OwnedWhileSentHolds`: `OwnedWhileSent`, if no POST outlasts its claim
  (`~SlowPosts`; with slow posts it is false, divergence 8).
  `Owned` adds to the property that the row's claim is not stale and that no
  other coroutine holds the row.

`GrabRelayProofs`, for any orders, tabs, runs and bounds:

- `TypeCorrect`: `TypeOK`. The invariant `Sound` sharpens the types: in the queue
  and in every snapshot of it (a message being handled, a run), an item that is
  not given up has attempts left, what a run posts is not given up, and only a
  cancellation has the fingerprint of one.
- `PaidIsFinalHolds`: `PaidIsFinal`, from `Sound`: what is under way at the server
  when the cashier is paid finds the order neither missing nor open.
- `OneFlightHolds`: `OneFlightPerOrder`. `OneFlight` is about the runs, from the
  selection to the merge: the registry of orders in flight is read and written
  without an await between.
- `QueuedNotLostHolds`: `QueuedNotLost`, for any orders in the queue. `Kept`: a tab
  that was told, and a handler's snapshot with the item in it, are found only
  while the order is safe (stored, on the POS, or overwritten). `Acked`: of an
  order the POS does not have nothing says that it was relayed or is to be
  cancelled, in the lists, the snapshots, the answers and the requests; so a run
  removes an item as delivered only when the POS has it.
- `LostByOthersOnly`: what `overwritten` excepts is the lost update and nothing
  else: an order enters it only by a write on behalf of other orders, from a
  snapshot that differs in its item (`LostToAnother`). A handler or a run never
  overwrites the order it serves.

The two hypotheses of `RelayQueueProofs` are not assumptions of the modules. The
run satisfies them, and each is needed: without it TLC finds the property
violated.

Proofs rest on the named assumptions: kitchen jobs and receipts are different
rows, `NoJob` is none of them, `Runs` and `Dishes` are finite, printed dishes
and gifts are dishes, `None` is no order, the orders of `PosTill` are finitely
many, totals, counts and bounds are naturals (`MaxInvoice`, `MaxAttempts`,
`MaxRev` and `MaxCalls` positive), a total may be 0, the popup is no tab, the
loop no intake coroutine, `NoRef` no order, and "other" (what a cashier may
have entered instead) the dishes of no order.

Every invariant, action property and refinement a passing run checks is thus a
theorem. Only model-checked are the liveness properties (`KitchenTicketSettles`,
`TransferIsFiled`, `QueueDrains`, `OrderReachesPos`, `CancelReachesPos`,
`JobSettles`): temporal reasoning under fairness needs ENABLED, which is out of
the prover's reach.

## 7. Known divergences

The first is a run:

1. `kitchen_refund`: dishes that become ready at different times are deducted in
   several `sale_consumption` movements. The refund inserts the inverse of each,
   but a unique index on order, subtype, ingredient and location, with ON
   CONFLICT DO NOTHING, keeps one per ingredient: the rest stays deducted.

The others were found with TLC on the same modules, with the formulas that
stand at the end of them and that no run checks, or by reading:

2. `InvoiceQueue!RefundNoticesLiveInvoice`: a refund cancels the latest row of the
   order. While a replacement waits as a draft that is the replacement; the
   original stays valid at the provider, and nobody is warned, as
   `void-paid-actions.ts:108` wants it.
3. `PrintPipeline!NoJobStaysProcessing`: reprinting a receipt that is being
   dispatched clears `claimed_at`; if the agent then crashes, the janitor does
   not see the row. Stuck for good: `retry_print_job` accepts only failed rows,
   and a further reprint leaves 'processing' alone.
4. `PrintPipeline!HalfSentNeverResent`: `wrote` becomes true when all bytes are
   handed over, not when the first are; a time-out in between resends a
   half-sent ticket (`lan.ts:58`).
5. `OrderPayments!MatchedHasCanonicalMatch`: when the answer of a committed
   settlement is lost, the first transfer keeps the canonical match while the
   event loses its payment, and a second transfer becomes the payment's event
   without a match.
6. `OrderPayments!AckedStaysFiled`: of two overlapping deliveries the failing
   one overwrites the result of the one that settled and was answered 200.
7. `OrderPayments!ExpiredRequestNeverBlocksCash`: a cash confirmation of an
   order with a due request calls a function for the service role only and fails.
8. `RelayQueue!ResolvedIsFinal` with `SlowPosts`: the marks update by id alone,
   so a POST that outlasts its claim brings back a row that was sent or
   dismissed meanwhile.
9. `RelayQueue!ReprintStaysOut`: a receipt dismissed while its platform was
   unknown is posted when a reprint of it is recognised, since the platform is
   part of its identity.
10. `RelayQueue!NoCopyOfManualOrder`: a cashier enters the order between the
    route's lookup and `create_order`, and the POS gets a copy.
11. `RelayQueue!SentMeansOnPos` with equal dishes: two orders of a day with the
    same last four digits and the same dishes are one order to the lookup.
12. `GrabRelay!NothingOverwritten`: with two orders, two messages read the queue
    before either writes it, and one order is lost from it (`background.js:243`);
    a run that merges its outcome does the same to an order enqueued after it
    read the storage (:450). If the tab hears that the order is queued, it does not
    send it again until the page is reloaded or the order revised: the kitchen
    never sees it. `QueuedNotLost` and `OrderReachesPos` except exactly this. Two
    overlapping runs overwrite `grabRelayedOrders` likewise, and an order that is
    missing from it stays open on the POS when Grab cancels it, which
    `CancelReachesPos` excepts.
13. `GrabRelay!RelayedContentOnPos`: a revision seen after its order was delivered
    is enqueued as a creation, which the route answers as known; the extension
    lists the revision as relayed while the POS has the old content.
14. Kitchen, by reading and in traces of the model: a ready dish split off to a
    new order and cancelled there is posted as waste although it was deducted on
    the first (`B:51440` "only when not already deducted"), and posted again
    when the new order is paid; after a split the source's next dish of the
    ingredient is covered by the deduction of the one that left, until payment.
    A dish of a paid order whose ticket the cleanup deletes is not deducted
    although it qualifies (`B:51516`), as nothing posts again. Routing does not
    exclude cancelled lines, so that a revoked gift gets or keeps a pending
    ticket. After a cleanup, appending to the order sends a ready dish again.
    Voiding and sold-out lock the row before the order's advisory lock, serving
    and completing after it: Postgres aborts one of two that meet.
15. `PosTill!ExpectedIsTill`: a closed shift's expected cash is not "recomputed
   from completed payments" (`payment-method-actions.ts:8`): a refund after the
   close leaves it; a correction of a relay's order, which has no shift, leaves
   it; a payment call that began before the close and committed after it is in
   the window and not in the sum. The next correction of any order of the shift
   brings all of them in. `B:83011` says "close-time cash counts and differences
   stay unchanged"; corrections change the difference. An opening whose
   transaction began before the previous shift's close may have a window that
   overlaps it, and a payment in the overlap is counted in both.
16. `apps/print-agent/README.md:181` says the janitor runs every 60 s, the code
    says five minutes. A transfer to a foreign account is filed as failed with
    500 while the route answers 200, so that only a manual replay settles it. A
    cashier who passed the promotion check may confirm cash on an order
    cancelled in the meantime.

## 8. Not modelled

`components` in `PROJECT.json` lists them all. Not yet: self-order submission, the ShopeeFood extension (the same queue design
as the GrabFood one, with its own capture), stock transfers and stocktake,
`transfer_order_table`. Not worth it: the larger part of the repository by
lines is screens, forms, generated types, messages and checks of the source
tree, which keep no state beyond one row per form; payroll, promotions' rules
and print rendering are pure arithmetic or layout with unit tests; access
control is left out, the models take authorised callers. Data that no property
tells apart (payloads, names, messages, audit rows) is left out everywhere.
