# FirmBooks verification project

TLA+ models of FirmBooks, the multi-tenant accounting application in this
repository: what has been modelled, what TLC checks on small instances, what
TLAPS proves for all instances, and what is not modelled.

Paths are relative to the repository. `JobSchedulerService.ts:222` is a line of a
file that the text or PROJECT.json names in full.

## 1. The system

FirmBooks is a React application (`src/`), an Express server (`server/src/`) and a
PostgreSQL database that all server processes share. The database is the only place
where processes meet: there is no queue, no leader and no shared memory. Concurrency
comes from four sources.

* HTTP requests interleave at every `await` in one process and freely between
  processes.
* Two timers, started at `server/src/index.ts:93`, call `processOutbox` every 5
  seconds and `processPendingJobs` every 30, *without waiting for the previous call*,
  in every process.
* Browsers repeat a mutation whose outcome they do not know.
* Payment providers deliver webhooks, more than once and in any order.

A business request passes `authMiddleware`, organization isolation, the tenant
recovery lock and the idempotency gate before its handler
(`server/src/index.ts:163`-`200`). Public routes, sign-in and the payment webhooks are
mounted in front of these and pass none of them.

```
 browser api client --request--> auth > isolation > recovery lock > idempotency gate
       ^  kept keys                                                     |
       +----------------------- answer ---------------------------------+ one transaction
                                                                        v
 provider --webhook--> gateway events --> settlement --> sales/purchases handlers
                                                              |
 timers --> job queue --> recurring runs --> creators ---> posting engine --> journals
        \-> e-mail outbox <-- enqueue (same transaction) -- handlers      period locks
```

### 1.1 Inventory

Status: **M** modelled, **P** partly, **-** not modelled; PROJECT.json has the files and
the reason for each.

| Part | State | Operations | What is hard | What makes it correct | |
|---|---|---|---|---|---|
| Durable job queue `jobs/JobSchedulerService.ts` | `background_jobs`, `background_job_runs` | schedule, claim, complete, fail, recover expired leases, operator retry, worker loop | overlapping ticks, updates by id from stale reads, crashes | attempts bounded but for those a stale write erased, every job comes to rest | M |
| Recurring transactions `recurring/`, `jobs/RecurringDocumentJobHandler.ts` | profiles with `next_run_date`, occurrences with status, attempts, lease | create, pause, resume, materialise, claim, execute, record failure, operator retry, run by hand | runs that overlap or lose their lease, an unheard commit, catch-up limits | one document per occurrence, no day skipped, attempts and quarantine as the policy says but for leases that ran out and retries under way | M |
| Idempotency gate `middleware/idempotency.middleware.ts` | `api_idempotency_keys` | look up, replay, insert, run the handler, store the answer, commit | two requests with one key, lost answers, an unheard commit, changed permissions | a key sees one command, whole or refused with what its handler left, for good | M |
| Browser API client `src/api/client.ts` | kept mutation keys | send, repeat, forget a key | late answers, statuses of checks in front of the gate | with the gate: a command is carried out twice only after its key was given up | P |
| E-mail outbox `services/EmailOutboxService.ts` | `outbox_emails` | enqueue, clean up, claim, check the invoice, dispatch, mark, fail, recover | overlapping runs, leases shorter than a batch, delivery before its record | no unexplained duplicate, none while the invoice is void, every row comes to rest | M |
| Payment webhooks `services/PaymentGatewayService.ts`, `gateways/` | `payment_gateway_events`, payments | verify, claim or reclaim an event, settle, pay out, refund, reinstate, cancel | duplicated, late and concurrent deliveries, stops between statements | an intent is paid once, refunds stay within receipts, books and invoices tie | M |
| Payment intents, portal `PaymentIntentService.ts`, `CustomerPortalService.ts` | intents, portal tokens | open a checkout, show its confirmation, expire | an invoice read without a lock, a wait for the provider in the middle | a checkout is settled once, a confirmation stands | P |
| Posting engine `accounting/postingEngine.ts` | journals, lines, account and bank balances | post, post a draft | locks read before or during a wait | balances are the sum of the posted lines, nothing behind a completed reconciliation | M |
| Accounting periods `AccountingPeriodService.ts`, `PeriodCloseService.ts` | `period_locks`, checklists, closes | lock by date, review, close, reopen | a close does not wait for postings | a closed period does not change, but for one transaction under way | M |
| Tenant recovery `recovery/`, its middleware | artifacts, jobs, maintenance lock | create, validate, promote, roll back, cancel | requests that passed the lock's check | no write is lost between snapshot and promotion | - |
| Approvals `approvals/` | requests, documents' status and hash | submit, approve, reject, invalidate, consume | edits between approval and use, row locks in two orders | what is posted is what was approved, once | P |
| Financial command receipts `FinancialCommandService.ts` | receipts, events | run a command, replay | inside the gate's transaction | one receipt per command | - |
| Transactions `database/db.ts` | pool, savepoints | transaction, nested transaction | commit whose answer is lost | all or nothing | P |
| Sales `sales/`, `FinancialDestructiveActionsService.ts` | invoices, payments, advances, credit notes, write-offs; quotations, orders, customers | create, post, edit, void, receive, apply, refund, write off, reverse | any handler after any other on one document | balances tie to amounts, no credit is spent twice, the control account agrees with the documents | P |
| Purchases, expenses `purchases/`, `ExpensePostingService.ts` | bills, orders, vendor payments, advances, debit notes; expenses, reimbursements | the same, conversion of an order, bills from recurring templates | the same, approvals decided late, templates taken as they are | the same, and an order is billed what its bills posted or drafted | P |
| Destructive actions `FinancialDestructiveActionsService.ts` | reversals | void, delete, archive | dependents that appear meanwhile | a void takes back exactly what was posted | P |
| Banking, reconciliation `banking/` | statement lines, matches and allocations, sessions | import, review, allocate, match, create an entry, verify, complete, reopen | two generations of handlers over one table | money is matched once, what a completed session recorded stands | P |
| Journals, assets, FX, budgets | callers of the posting engine | post, reverse, depreciate, revalue | drafts and reversals that cross | one reversal per journal | P |
| Numbering `DocumentNumberingEngine.ts` | sequences | allocate, configure | reconfiguration of a sequence in use | no number twice | P |
| Sessions, sign-in `auth/` | sessions, tokens | create, rotate, revoke | rotation against revocation | a revoked session stays revoked | - |
| Roles, membership `RbacService.ts`, `access/` | roles, members, invitations | decide, grant, revoke | decisions in flight | the last owner stays | - |
| HTTP server `index.ts`, controllers | none | middleware order, answers | handlers that end the response themselves | every mutation goes through the gate | P |
| Audit and monitoring, reports and search, documents and PDF, migrations, metadata cache, web views | append-only or derived | read, render, migrate | nothing two actors could disagree about, mostly | - | - |

PROJECT.json lists the hazards of the modelled parts, each at the line where it bites
and with the properties that cover it; section 6 says what is left out.

## 2. Modules

Every module models statements and transactions as atomic steps, because that is the
granularity of the code: under PostgreSQL's READ COMMITTED one SQL statement is
atomic, `db.transaction` commits as a whole, and between two awaits anything may
happen. Sequential code with awaits (a tick, a run, a request) is a small program with
a position. Clocks are abstract in all modules: a lease is live until an `Expire` step,
a backoff lasts until `BackoffOver`, and both may come at any moment, also while
somebody still works under the lease.

| Module | Models | Proofs | Instance |
|---|---|---|---|
| `JobScheduler` | the job queue and the ticks of its worker loop | `ApprovalsAndJobsProofs` | `MCJobScheduler` |
| `RecurringOccurrences` | profiles, occurrences, runs | `RecurringProofs` | `MCRecurringOccurrences` |
| `OccurrenceLedger` | abstract: an occurrence is planned, posted once or put aside | refined by `RecurringOccurrences` | |
| `IdempotencyGate` | browser client, gate, handler and their transaction, composed | `IdempotencyAndBankProofs` | `MCIdempotencyGate` |
| `CommandLedger` | abstract: a key sees one command, whole or refused, for good | refined by `IdempotencyGate` | |
| `EmailOutbox` | the outbox, its runs, and the invoices its e-mails are about | `OutboxProofs` | `MCEmailOutbox` |
| `PaymentSettlement` | checkouts, webhook deliveries, settlements, the invoices they move | `PaymentProofs` | `MCPaymentSettlement` |
| `PostingLedger` | postings, manual journals, reversals, period locks and closes, completed reconciliations | `LedgerAndPayablesProofs` | `MCPostingLedger` |
| `Receivables` | invoices and all that settles them, with every reversal | `ReceivablesProofs` | `MCReceivables` |
| `Payables` | bills, their order and all that settles them, with every reversal | `LedgerAndPayablesProofs` | `MCPayables` |
| `Approvals` | approval requests against edits, voids and postings, row lock by row lock | `ApprovalsAndJobsProofs` | `MCApprovals` |
| `BankMatching` | statement lines, matches, created entries and completed sessions | `IdempotencyAndBankProofs` | `MCBankMatching` |
| `SumTheorems` | | sums over finite sets, for the proofs that count money | |

Where handlers interact through a table that both change, the module holds both: the
gate with its browser, webhooks with payments entered by hand, postings with closes and
reconciliations, documents with their requests, the two generations of bank handlers.
What runs under row or advisory locks to its commit is one action; where the locks are
what a property is about (`Approvals`, `PostingLedger`, `IdempotencyGate`), waiting for
one is a step.

Three modules of proofs hold two components each: approvals and jobs, the gate and the bank
account, the ledger and the payables. The two share no state and no lemma about a state; the
definitions of one of them carry a prefix where both would have the same name
(`PayablesSpec`, `BankSpec`, `FairQueueSpec`, `PayablesTypeOK`, ...).

Definitions called *variants* next to an operator (`AfterFailureUncounted`, `KeyTakenNever`,
`PeriodLockedLate`, ...) are that operator with a plausible mistake in it. No specification
uses them; substituting one for the original must break the property named with it in
PROJECT.json ("mutants"), which shows that the property is about the code and not about the
shape of the model.

### 2.1 JobScheduler

* `jobs` is `background_jobs`, one row per idempotency key: status, `attempt_count`,
  `lease_owner`, whether the lease is live, whether `next_attempt_at` has come.
* `pc, snap, batch, cur, seen` are the local variables of one call of
  `processPendingJobs`. `snap` is what the SELECT of `recoverExpiredLeases` returned and
  `seen` what `failJob` read: both are written back later by id alone, and that is
  where overlapping ticks overwrite one another.
* Every tick runs under the name `WorkerOf` gives it. The instance gives all of them one
  name, because every shipped process passes the default `runtime-worker`; the proofs hold
  for any assignment. A tick claims at most `ClaimLimit` rows (5 in the code).
* `claims` and `lost` are history: how often the row was handed out since it was inserted
  or requeued, and how many attempts a write from a stale read took off its `attempt_count`
  meanwhile (`Erased`).
* Actions: `Schedule`, `RetryFailedJob`; per tick `Wake` and `RecoverRow`
  (`recoverExpiredLeases`), `Claim`, `Start`, `CompleteRead`/`CompleteWrite`/`LogRun`
  (the three statements of `completeJob`, with its early return and its ignored row
  count), `FailRead`/`FailWrite`, `Abandon` (the process stops, or the outer catch ends
  the tick). SKIP LOCKED may leave out any due row, so `Claim` takes any subset.
* Left out: payload, result, priority order, the text of errors.

### 2.2 RecurringOccurrences

* `profiles` has status and `next_run_date`; `occs` is the occurrence table;
  `documents` counts the documents that carry an occurrence's `source_occurrence_key`.
* A run is one call of `RecurringDocumentJobHandler.processDue`: `Materialize`, `Claim`,
  then for each claim one transaction (`ExecuteClaim`, or `FindsClaimLost`, or
  `ExecutionFails` followed by `RecordFailure` in a transaction of its own).
  `CommitUnacknowledged` is the commit whose answer is lost: the code takes it for a
  failure and records one. `POST /recurring/run` does all of it inside the gate's one
  transaction and is one action, `RunByHand`, with the rule of the gate that a status
  below 500 commits what was done so far.
* `Materialized` and `NextRunDate` translate `dueDatesForPolicy`: the days of a schedule
  are given as a set, so that the month arithmetic of `nextScheduleDate` (clamping to
  the last day of a month and the like) is a parameter and not part of the model.
* Runs share the name `runtimeWorker`, as shipped; runs by hand have the name of their user.
* `lapses` and `reopened` are history: how many leases of an occurrence ran out, and which
  occurrences an operator retried while a run still held a claim of them.
* Left out: the content of templates, `profileLimit`, the creators' own checks (a
  creator either posts or throws).

### 2.3 IdempotencyGate

* `store` is what is committed of `api_idempotency_keys`; a row that is inserted and not
  committed is visible to nobody and only blocks the unique index: `holder`. `bank` is
  the advisory lock of bank movements, `performed` and `work` count the committed and
  uncommitted statements of a handler.
* `at, cmd, key, answer` are one request; `listening` says whether the browser still
  waits; `pending` is the browser's map of kept keys; `issued`, `satisfied`, `effects`,
  `strays` are history. `strays` holds the keys given up although their command was done or
  under way (`Live`): after a denial or a conflict, after a late answer to another key, or
  for a key that a caller brought along (`Beside`, `SendKeyed`).
* `Send`, `SendKeyed`, `Drop` are `ApiClient.request`; `Hear` is what it does with an
  answer (forget the key on a status below 500 unless it is the 409 of a command in
  progress). `Admit` to `Respond` follow the server: authentication, BEGIN with the
  advisory lock, SELECT FOR UPDATE with the chain of replay checks (`Verdict`), INSERT,
  the handler's statements, `captureDownstreamResponse`, COMMIT, answer.
  `CommitUnheard`, `Fail`, `Refuse`, `Cut` and `Redecide` are what can go wrong. `Refuse`
  keeps any part of what the handler has written: the middleware rolls back only for a
  status of 500 and above, so a refusal commits what no nested transaction took back.
* Left out: requests without a key, which are rejected in production; malformed keys;
  the PDF issue route, which the middleware passes through; and the in-memory database of
  development mode, which is not transactional.

### 2.4 EmailOutbox

* `rows` is `outbox_emails`; `invoices` is what the outbox reads of an invoice (void,
  nothing left to pay, open); `delivered` counts what the mail server accepted, reported or
  not.
* `ChangeInvoice` stands for the handlers of sales that change this: payments, credits,
  voids and their reversals. VOIDED is not final: `applyCreditNoteToInvoice` writes
  Paid or Partially Paid over it, and the reversals of credits, write-offs and advances
  compute a status from the amounts. `revived` is history, the invoices this happened to;
  as a bound they are not voided again.
* A run of `processOutbox` is `Cleanup`, `Claim`, then for each row `Check` (with the
  invoice), `Suppress` or `Dispatch`, and `MarkSent` or `RecordFailure`.
  `DispatchUnheard` is the message that was taken while the connection broke,
  `StatementFails` a failing UPDATE that the catch block counts as a failed dispatch,
  `Abandon` the end of a process. `RecoverExpiredLeases` is the method of that name.
* No statement of the service reads `lease_owner`, so the model has no owners.
* Left out: templates, addresses, attachment bytes, SMTP beyond "taken or not".

### 2.5 PaymentSettlement

* `events` is `payment_gateway_events` with the payment it is linked to and whether the
  row is older than five minutes; `intents`, `payments`, `paid` and `balance` are the
  rows of those names; `entries` and `reversed` the journals the service posts without a
  payment (`GW-REV-`, `GW-PAYOUT-`); `ar` and `receivable` the control account and the
  customer's balance. `owed` is what the provider has still to send or to repeat.
* `StartCheckout`, `FinishCheckout` are `createPaymentIntent`: the invoice is read
  without a lock and the provider is asked in between.
* A delivery is `Deliver` (the INSERT), then `AlreadyProcessed` or `Claim`, then `Ignore`,
  `CloseIntent` or one settlement: `SettleReceipt`, `SettlePayout`, `SettleRefund`,
  `SettleReinstatement`, or `Refuse` followed by `MarkFailed`; then `Answer`.
  `CloseRefused` is the end of a cancellation, which the schema keeps from becoming
  PROCESSED, `Fault` a stop or a transient error at any of these points; both leave the
  call to be repeated. `Age` is the five minutes.
* `RecordPayment` is a payment entered by hand beside all this.
* Left out: signatures, provider formats, gateway fees, currencies, several organizations.

### 2.6 PostingLedger

* `books` is what is committed: `journal_entries` with their lines, the running balances of
  accounts and bank accounts. `work` is the same as the holder of the posting lock sees it,
  its own writes included. `postingLock` and `movementLock` are the two advisory locks,
  `held` the rows a posting has locked.
* `dateLocks` and `monthLocks` are the two kinds of `period_locks`; `closes`, `review`,
  `sessions` the rows of period closes, checklists and completed reconciliations.
  `closing` and `frozen` are a close between its checks and its commit, with the rows it
  has locked. `late` is history: the transactions that posted onto a day since it was
  barred.
* A posting is a transaction of one journal or several: `StartNew`, `StartDraft`,
  `StartReversal` or `StartUndo` (with the row lock), `Write` (posting lock, period locks,
  cutoffs of reconciliations, then the rows), and either the next journal under the same
  locks (`Goes`: bulk journals, a gateway receipt with its fee, an edit that undoes and
  posts again), `Commit` or `Rollback`. `SubmitDraft` is a manual journal that waits for
  approval. A reversal is either `reverseJournal` (by hand, found by its number, whatever
  its status) or `reversePostedJournal` (found by status, whatever its number, under the
  bank movement lock), so the two cross on the same rows.
* `LockDate`, `SaveReview`, `ReadEvidence`, `CommitClose`, `AbortClose`, `ReopenPeriod` run
  beside postings and take no posting lock. `CompleteReconciliation` takes the posting lock
  and that of bank movements, `ReopenReconciliation` only the latter.
* Left out: projects, account status, approvals (section 2.9), journals of more than two
  lines, and the evidence rows a close writes, which nothing here reads back.

### 2.7 Receivables

* `invoices`, `payments` (with the advance of each), `notes` are the documents with their
  allocations, applications and refunds; `ar` and `advances` the ledger accounts 1100 and
  2100. `ledger` of an invoice is what its posting journal debited.
* One action for each handler of `SalesEngine` and of the destructive actions: create,
  post, edit, void; receive, submit and post a payment, reverse or correct it; record,
  apply and refund an advance and take each back; issue, apply, refund and reverse a
  credit note; write off and reverse. `Resettled` is the UPDATE they share, `Restored` the
  status a reversal gives back.
* `ARIntegrity` is `verifyARIntegrity` as the code computes it.
* Left out: cached balances of customers, period locks, orders and estimates, and who
  decides an approval: posting a SUBMITTED document stands for a granted one.

### 2.8 Payables

* The same for bills, `PurchasesEngine`, the bill handler of `financeController.ts` and the
  accounts 2000 and 1150, with the purchase order that bills are converted from.
* A bill comes from one of three handlers, which share `Enter`. `CreateBill` is the
  controller's: the request may name another payable account (`elsewhere`, and then 2000
  gets nothing), and a scanned document becomes a DRAFT that no handler posts.
  `ConvertOrder` asks for an order that is not cancelled. `RecurringBill` is
  `createAndPostBill` with a template: the amount paid, the status and the order are taken
  as the template has them, so a bill may be born paid or voided, and a draft is billed to
  an order, also a cancelled one.
* `asked` marks a bill of the order that waited for approval. History: `prepaid` is what a
  template said was paid, `drafted` what a draft added to the order, `returned` what a void
  gave back to it.
* `DriftExplained` names the causes for which the report and the ledger part: a bill is
  `Unbacked` (it counts in the report and no live journal stands behind it), `Misposted`
  (its journal says something else than its total, it was born paid, or it was born VOIDED
  with a live journal) or `Overpaid`; beside these only refunds of debit notes reversed
  afterwards.
* It is a module of its own and not an instance of `Receivables` because the handlers
  differ where it matters: an approved payment is not compared with the bills again, an
  edit posts nothing, a refunded debit note can be reversed.
* Left out: cached balances of vendors, goods receipts, expenses and reimbursements.

### 2.9 Approvals

* `docs` (status and version), `requests` (status, document, the hash as a version,
  `submitted_at`), `calls` (what each call in progress does, wants and has read), `locks`
  (who holds a row), `posted` (history: the version that was posted).
* `AskDocument`, `AskRequest` begin a call, `LockDocument`, `LockRequest` take a row each,
  and `Submit`, `Approve`, `Reject`, `Edit`, `Void`, `Post` commit with all that the call
  writes. `Refuse` is any check that fails, `BreakRing` PostgreSQL's deadlock detection,
  `Lose` a connection that breaks.
* Left out: roles, thresholds and amounts, which decide only whether a call is refused;
  the configuration of rules; the approval of purchase orders.

### 2.10 BankMatching

* `lines` is `bank_statement_transactions` with status, `is_ignored` and the target of the
  duplicate disposition; `journals` those with a line on the bank's ledger account;
  `matches` is `bank_reconciliation_matches`; `completed` the end dates of completed
  sessions; `overridden` marks lines whose status the removal of a match wrote last.
* The canonical handlers are `Allocate`, `Unmatch`, `CreateEntry`, `ReverseCreated`,
  `Verify`, `ConfirmDuplicate`, `RevokeDuplicate`, `Review`; the older ones
  `MatchDocument`, `DeleteMatch`, `CreateFromBank`, `Categorize`, `Ignore`; beside them
  `Import`, `PostBook`, `ReverseSource`, `ReverseByHand`, `Complete`, `Reopen`.
* Left out: feeds, rules and suggestions, internal transfers, the administration of
  accounts, several accounts, the closing balance of a session.

## 3. What TLC checks

The counts are distinct states. The run marked *fails* states what a document of the
repository says of the program; TLC stops at a behaviour of the code that contradicts it
(section 5 names the line). Every other run explores its whole state space.
Deadlock is checked for jobs, recurring runs, outbox and approvals, which never stop. The
others may: users and providers are all served in the end, keys are used up, and journals,
documents and matches run out at their bounds.

| Run | Instance | States | Properties |
|---|---|---|---|
| `job_fleet` | 2 jobs, 2 overlapping ticks under the one shared name, 2 attempts, 1 operator retry, 1 crash | 968,528 | `ClaimsExplained Settles` |
| `rec_runs` | 1 ALL profile with 2 due days and a catch-up limit of 1, 2 runs under the shared name that claim both occurrences at once, runs by hand, 2 attempts, 1 early expiry, 1 crash, 1 operator retry | 533,126 | `QuarantineExplained AttemptsExplained NoDaySkipped LedgerSpec` |
| `gate_safety` | 3 intents of 2 users, 2 with the same body; a key that two callers share; an unlisted route that is silent and under the bank lock; 2 requests, 2 statements, 1 fault, permissions that change | 812,871 | `TruthfulSuccess RepeatsExplained LedgerSpec` |
| `gate_retry` | 2 intents, one under the bank lock, 4 keys, 2 requests, 2 faults | 277,877 | `Resolves` |
| `outbox_fleet` | a send and a reminder of one invoice, 2 overlapping runs, 2 attempts, batches of 2, 1 early expiry, 1 fault | 447,722 | `DuplicatesExplained VoidedStaysUnsent Settles` |
| `pay_events` | 1 invoice of 3, 2 checkouts of 2, 2 deliveries at a time, 6 sets of events (receipts, refunds by event and by charge, a reinstatement, a cancellation, payouts), 1 payment by hand, 2 troubles | 703,673 | `BooksTie OneReceiptPerIntent OneReceiptPerEvent RefundsWithinReceipt AlwaysAttended ConfirmationStands` |
| `ledger_posts` | a bank and an income account, 2 days of which the first is a period, 2 postings of one or several journals, 3 journals, 2 controls | 1,870,161 | `BalancesTie ReversedOnce OneStraggler ReconciledStands` |
| `ledger_late` | the same | fails | `NoStraggler` |
| `ar_settle` | 2 invoices, 2 payments, 2 notes, 3 rows at a time, amounts to 2 | 203,603 | `TypeOK BalanceTies CreditSpentOnce ControlExplained DriftExplained` |
| `ap_settle` | 2 bills, 2 payments, 1 note, an order of 2, 3 rows at a time, amounts to 2, templates of 4 statuses | 747,981 | `PayablesTypeOK CreditSpentOnce DriftExplained OrderExplained` |
| `approvals` | 1 document in 2 versions, 2 requests, 2 calls, 2 stamps | 153,111 | `GrantIsCurrent PostedByGrant CallsEnd` |
| `bank_match` | 2 lines of amount 2 on 2 days, 2 journals, 2 matches | 1,058,121 | `BankTypeOK StatementTies AllocationsStand CompletedResolved CompletedStands` |

What they show:

* **Jobs.** A job is claimed at most `max_retries` times, and once more for each attempt
  that a stale write took off its row; every job comes to rest although stale writes can
  reopen a completed row. That a worker completes only what is leased to it does not hold,
  because all workers have one name.
* **Recurring.** The model implements `OccurrenceLedger`: SUCCEEDED and exactly one
  document go together through lost leases, late failure records, unheard commits and runs
  by hand. No scheduled day is passed over whatever the catch-up limit cuts off. An
  occurrence is attempted `maxAttempts` times and once more for each of its leases that ran
  out, so that the final attempt is not always the last; it is quarantined after
  `maxAttempts` attempts or by a run that still held a claim when an operator retried it.
* **Gate.** A key sees one command: all its statements and a success, or a refusal with what
  the refusing handler left, in one step with the outcome, for good (`LedgerSpec`). A
  success that a user sees is that user's command and committed. Lost answers, errors,
  restarts and "in progress" post nothing twice; a command is carried out again only after
  the browser gave up a key whose command was done or under way, and that does happen: a
  denial in front of the gate is enough. While nothing is denied a user who repeats a
  command gets its success.
* **Outbox.** An e-mail is delivered at most once more than there were crashes, failing
  statements, lost answers and leases that ran out under a run. While an invoice is void
  nothing about it is sent once the runs that were past their check are done; a credit note
  that writes over the void lets the e-mail go out after all.
* **Payments.** Whatever overlaps, repeats, stops or comes late, an intent is settled by one
  payment, and invoices, control account and customer agree with the payments and refunds
  that stand. That an *event* is posted once, refunds stay within the receipt and a
  confirmed checkout stays confirmed holds as long as no delivery claims an event from under
  another; section 5 says what happens then. No received event is lost on its way: until it
  is posted, refused or ignored a delivery works on it or the provider has still to call,
  unless a repetition was told ALREADY_PROCESSED too early.
* **Ledger.** Balances are the posted lines, a journal is reversed once and by its mirror
  whichever of the two endpoints gets there, a completed reconciliation keeps the balance it
  was agreed with. After a day was barred at most one transaction posts onto it, with all
  its journals: the one that held the posting lock meanwhile. That none does fails.
* **Receivables, payables.** No credit is spent twice in any sequence of handlers, every
  void and reversal takes back exactly its document's posting. The repository's integrity
  report balances except for the causes that `DriftExplained` names; an order is billed
  what its bills posted and what templates drafted, and beyond its total only through a bill
  that waited for approval, which does happen.
* **Approvals.** A request stands approved only for what its document says now, a document
  is posted once on one request in the version approved, and calls that wait for each
  other's rows end.
* **Banking.** The status of a line tells what is allocated to it whichever generation of
  handlers served it, money is matched once, and completed sessions keep their evidence
  and stay resolved.

Receivables, payables and the bank account check their type invariants in the run, because
the amounts in them are bounded by what other handlers did. Those of the other modules and
some weaker invariants (`LeaseShape`, `RetryBudget`, `PostedOnce`, `OpenRowsHaveRetries`,
`SentIsDelivered`) are theorems (section 4); the runs do not repeat
them.

### 3.1 Bounds and why they are enough

* *Two of each actor.* What goes wrong in these parts is a race of two: a reader with a
  stale row and a writer. A third adds no statement that a second does not have. The
  proofs drop the bound for the properties they cover.
* *Two attempts.* The smallest number with an attempt that is not the last.
* *Faults, crashes, early expiries, operator retries* are counted (`MaxFaults`,
  `MaxCrashes`, `MaxEarly`, `MaxRequeues`, `MaxRetries` of RecurringOccurrences) with one or
  two each. `gate_retry` has two because the interesting story is a lost answer followed by
  a second disturbance of the repetition; the sessions of `gate_safety` end and begin
  uncounted. `JobScheduler` bounds expiries not at all. `MaxTrouble` of PaymentSettlement
  counts stops, early answers and overlapping claims together.
* *`ClaimLimit`* is 2 where the code has 5 (jobs) and 50 (recurring runs): the rows behind
  the first of a batch, whose lease runs while they wait, are what it is about.
* *`MaxClaims`* (recurring) bounds the claims of one occurrence, which the code does not
  (section 5). The bound is on the expiry of a lease that would lead to one more, so that
  a run at the bound simply keeps its lease.
* *`DelayCap`* is 100 as in the code. The branch where `retryDelaySeconds` throws above it
  is in the model and covered by the proofs, which hold for any cap.
* *`Steps`* of a handler is 2 where half a command must be visible and 1 elsewhere.
* *Keys*: a new attempt takes a fresh UUID; `gate_retry` has enough of them for every
  refusal that two faults can produce.
* *Events*: `Scenarios` lists the sets of events a provider may send; a run starts with each
  of them. Each set mixes what can disturb one settlement: a repetition, a late
  cancellation, a refund before its receipt, two receipts for one balance.
* *`MaxJournals`, `MaxControls`*: three rows are a journal, its reversal and one journal
  that crosses them; two controls are a close and a lock, a review or a completion.
* *`Templates`* (payables) are statuses that a template may name: a draft, a bill that
  waits, a posted one, and a voided one with a journal. The proofs allow every status.
* *`MaxRows`* (receivables, payables) bounds the rows that live at a time, the order
  included. A reversed row gives its place to a new one, so sequences are not bounded;
  edits are not bounded either. `MaxAmount` 2 has partial and whole settlements.
* *`MaxVersion`* 1: content that was approved and content that was not. `Stamps` has two
  values because the clocks of two servers can disagree or agree.
* *Two lines, journals and matches* (banking): a line and its duplicate or two lines for one
  journal, on the two sides of a cutoff. Retained history rows take a place, removed ones
  free it; the journal of a history row is forgotten, since nothing reads it.

### 3.2 Fairness and why the code justifies it

* *Ticks and outbox runs* (WF of a tick's step): `setInterval` starts a call for ever and
  every awaited statement returns or throws. Fairness is per tick, not per action: a
  tick may fail every handler for ever. It does not include crashes.
* *Recurring runs*: none, and no liveness is claimed of them. The code has a handler for
  `RECURRING_DOCUMENT_EXECUTION` jobs, but nothing in `server/src` outside tests calls
  `scheduleRecurringExecutionJob` that would create one;
  `docs/QA_REPORT_2026-09-08.md:99` remarks on the missing loop.
* *Clocks* (WF of `Expire`, `BackoffOver`, in jobs and outbox): time passes.
* *Gate*: WF of the server's steps; SF of `Begin`, because waiters for an advisory lock
  are served in turn, while the lock is taken and given back between; WF of `Send`,
  because the user asks again until there is a success. `gate_retry` asks this of listed
  routes whose handlers answer with `res.json`, for forms that disable their submit button
  while a request is under way (`OneAtATime`, `src/components/purchases/BillsView.tsx:494`)
  and sessions that last; a user whose session has ended is asked to sign in, not served.
  `gate_safety` makes none of these restrictions.
* *Payments*: none. That no event is lost is stated as an invariant (`AlwaysAttended`); that
  it comes to rest takes a provider that goes on repeating, of which the code knows nothing.
* *Approvals*: SF of a call's steps, because PostgreSQL grants a row lock to its waiters in
  turn; WF of `BreakRing`, its deadlock detection.

## 4. What is proved

The theorems hold for any number of jobs, ticks, runs, requests, keys, e-mails, events,
postings, documents and calls, and for all bounds. They assume the named assumptions on
constants of the modules, which TLC evaluates in every run, and nothing of the deployment:
names may be shared, ticks and runs may overlap, routes may be unlisted and sessions may
end. Conditions that a property names itself are in the table.

| Theorem | Condition | Argument |
|---|---|---|
| Jobs `TypeCorrect` | | inductive |
| Jobs `ShapeAndBudget`: `LeaseShape`, `RetryBudget` | none, shared ids included | `RowsOK`: every statement writes a row that is well formed by itself, so stale counts cannot break it |
| Jobs `ClaimsAreExplained` | none, shared ids and overlapping ticks included | `CountsOK`: every claim is an attempt the row shows, one that a stale write took off it, or the one whose outcome is to come |
| Recurring `TypeCorrect` | | inductive |
| Recurring `PostsExactlyOnce`, `ImplementsLedger` | none, shared names included | `Moves`: all that any action does to the status of one occurrence and its documents, proved once, then used for the invariant and for the refinement |
| Recurring `SkipsNoDay` | | `DayKept` for materialising with limits, end dates and policies; every other step leaves `next_run_date` alone |
| Recurring `QuarantineIsExplained` | none, shared names included | `NumbersOK`: the number of a claim that a run holds is at most the attempts of its row, unless an operator started the count again under it |
| Recurring `AttemptsAreExplained` | none, shared names included | `LapsesOK`, see below |
| Gate `TypeCorrect`, `GateInvariant` | | `GateShape`: a request whose handler runs holds its key, and a held key has neither a record nor a committed statement |
| Gate `ImplementsLedger` | | a commit is the only step that changes the store; `GateShape` makes it a step from *pending* |
| Gate `SuccessIsTruthful` | | `SuccessShape`: a stored `ok` has an effect, an answer `ok` a stored `ok` |
| Gate `RepeatsAreExplained` | none | `RepeatInv`, see below |
| Outbox `TypeCorrect`, `OpenRowsKeepRetries`, `SentMeansDelivered` | | `Shaped`, `Accepted` |
| Outbox `DuplicatesArePaidFor` | | `Balanced`, see below |
| Outbox `VoidedIsNeverSent` | until a status is written over the voiding, part of the property | every action keeps a withdrawn e-mail withdrawn unless it revives the invoice |
| Payments `TypeCorrect` | | with `Balanced`: paid and due make up the total, so that neither falls below zero |
| Payments `IntentsArePaidOnce` | none, overlapping claims included | `PaidIsClosed`: an intent that was paid is not CREATED and never again, and a settlement asks for CREATED under the lock of the intent |
| Payments `BooksAlwaysTie` | none, overlapping claims included | `EntriesOK`: a refund that was posted has a journal, which names its payment for good, so that only settlements and reinstatements move the refunds that stand |
| Payments `EventsArePaidOnce`, `RefundsStayWithin`, `ConfirmationsStand` | no claim taken from a delivery at work, part of the properties | `HeldOK`: an event is held by one delivery, is PROCESSING meanwhile, and stays PROCESSED once it has posted |
| Payments `EventsAreAttended` | no repetition answered too early, part of the property | a call that ends without an answer is owed again, and a delivery that answers leaves its event at rest |
| Ledger `TypeCorrect` | | inductive; only the holder of the posting lock has anything written that is not committed |
| Ledger `BalancesAddUp`, `ReversesOnce`, `ReconciliationsStand` | none, several journals a transaction included | `IInv`, see below: what is said of the committed books is said of the working books too |
| Ledger `OneStragglerAtMost` | none, several journals a transaction included | `DayOK`, see below |
| Receivables `ReceivablesTypes`, `CreditsAreSpentOnce` | | `ReceivablesInv`, see below |
| Receivables `BalancesFollowAmounts` | | `InvoiceOK` for one invoice: settlements, edits and reversals go through `Resettled`, which is proved once |
| Receivables `ControlIsExplained`, `DriftHasACause` | | `ControlTies`, part of `ReceivablesInv`: every handler moves the control account and the sums over rows by the same amount |
| Payables `PayablesTypes`, `VendorCreditsAreSpentOnce`, `OrderIsExplained`, `PayablesDriftHasACause` | | `PayablesInv`, the same argument, with `OrderOK` for the purchase order; the three ways a bill is entered share one lemma, `EnterStep` |
| Bank `BankTypes`, `StatusTellsAllocation`, `MoneyIsMatchedOnce` | | `BankInv`, see below |
| Bank `SessionsStayResolved`, `EvidenceStands` | | `SessionsStand`, see below |
| Approvals `ApprovalTypes` | | inductive |
| Approvals `GrantsAreCurrent` | | `CallOK`, see below |
| Approvals `PostingsAreGranted` | | with `ChosenOK`: the request a posting holds is one of its document; no other action consumes one |

*Attempts are explained.* A claim whose lease ran out goes on in its run, which may still
record a failure. `LapsesOK` counts the runs that hold a claim of an occurrence: one whose
lease is live and at most one for each lease that ran out. Those whose claim is not the last
attempt may put the row back to RETRY, so they are counted together with the attempts; the
sum is at most `maxAttempts` and the leases that ran out, and less while the row is free to
be claimed. A claim adds to the attempts what the row had to spare, a failure moves a run
out of the sum.

*Repeats are explained* needs both halves of the protocol: the gate alone does not stop a
browser that asks under a new key, the browser alone does not know whether the first attempt
was committed. A key is *live* for a command that was carried out under it or may still be
by a request under way, and *loose* when it is live and was not given up. The heart of
`RepeatInv` is `LooseKept`: a command has at most one loose key, and while its user has seen
no success that key is the one the browser keeps. So a further attempt either goes out under
it, and the gate answers from its record, or gives it up first, and is counted. The other
parts say that there are as many effects as keys carried a command (`Counted`), that answers
agree with the store, and that silent handlers commit nothing.

*Duplicates are paid for* is a potential argument. For an e-mail count the deliveries,
the runs that still owe it one, and one more if the row may be claimed now or after its
lease. The sum starts at one. A claim moves the unit from the row to a run, a dispatch
from the run to the deliveries, an honest failure back to the row; only a fault or a
lease that runs out under a run adds to it.

*Books, committed and working.* A posting makes its checks on what it sees, writes more
journals under the same locks and commits later. So `IInv` says of the working books all
that it says of the committed ones: balances tie, reversals are single and mirror what they
reverse, and every standing reconciliation has the balance it was agreed with. A `Write`
keeps that of the working books, because the marks it asks for and the rows it turns round
are in them (`Puts`, one lemma for each part); a commit only shows it, a rollback forgets
it, and a completion of a reconciliation waits for the posting lock, when both are the same.
A reversal and its mark are written in one step, so the mark names the only reversal,
whichever endpoint asks next.

*One straggler.* `DayOK`: a day that is not barred has no late transaction, a barred one at
most one, and once it has one the holder of the posting lock has nothing for that day. Later
postings read the lock; the one past its checks is alone, for it holds the posting lock, and
all its journals come with its one commit.

*Grants are current.* A decision locks the request and then the document, an edit the
document and then its open requests. `ApproverOK`: an approval that has come to the document
holds a request that is still SUBMITTED. `CoversOpen`: an edit that holds its document has
come to every open request of it. Whichever commits second has waited for a row of the
other; an edit therefore rejects what was approved before it, and an approval after it
finds its request rejected.

*Sums.* What the books promise is said with sums over tables: `SumFunctionOnSet` of the
community modules, a recursive function over the subsets of a finite set. `SumTheorems`
proves its equation, and from it what a sum does when one row changes, when a row is added,
when two sums are added, and when a sum over pairs is taken by rows or by columns. Nothing
in it takes an operator as a parameter: `SetInduction` is an induction over a *set* of sets,
from the well-foundedness of the strict-subset ordering, and each use of it names such a
set. That the rows of an organization are finitely many is an assumption where rows are a
constant (`ReceivablesAssumption`, `PayablesAssumption`, `PaymentAssumption`,
`BankAssumption`); where they are a sequence it follows.

*Books.* In receivables, payables and payments a handler changes a few rows and the accounts
in one transaction. `InvoiceOK`, `BillOK` and the like say of one row that its amounts are
what its status and its journal allow. The rest of the invariant is a handful of equations
between sums and accounts, and each handler has one lemma: what every row contributes to
each sum before and after. The equations then follow from `SumTheorems`. The report of the
repository is one more such sum, so the cause of its drift is proved row by row.

*Bank accounts.* `BankInv` says of every line that its status tells the sum of its live rows
(`LineTies`) and that it never had a match if it is absent or a duplicate (`Pristine`), of
every journal that its rows fit into it, and of every live row that its journal was posted
(`RowsStand`). `SessionsStand` says that every completed session, and not only the latest,
covers lines that are allocated whole, or whose original is, on or before the cutoff. The
latest alone would not be inductive: reopening it makes an earlier one the latest. Each
handler changes one line, or one row and its line, so its proof is an instance of one of a
few lemmas about such steps (`LineStep`, `JournalsMove`, `SessionStep`).

Every safety property that a passing run checks is a theorem. Not proved, and left to TLC,
is liveness: `Settles` of jobs and outbox, `Resolves` and `CallsEnd`. Fairness and ENABLED
are out of the prover's reach.

## 5. Observations

What the code does that a reader of it might not expect. The models show it, or reading
for them did. Where a document, a comment or a test says otherwise, its line is named. For
the ledger a run of section 3 states what the document says and fails on it (`ledger_late`);
PROJECT.json lists it as a finding. File names are those of PROJECT.json.

**Jobs.** All processes run as `runtime-worker`, so one completes the job that is leased to
another (`JobSchedulerService.ts:153`, against its comment at `:152`). With
overlapping ticks a job may be claimed more often than `max_retries`: `recoverExpiredLeases`
writes back the count of its earlier SELECT (`:272`). `failJob` (`:222`) does not ask whose
lease the row is; the row count of `completeJob` is not looked at.

**Recurring.** A process that stops in the final attempt leaves a row that is attempted
again (`RecurringTransactionService.ts:240`, against
`point1RecurringServiceContract.test.ts:73`), and so are the claims behind the first of a
batch that a run did not reach before their lease ran out; once attempts exceed 100
`retryDelaySeconds` throws and the row is never put aside. With the shared default name a
late `recordFailure` (`:384`), from before an operator's retry, can quarantine an occurrence
early. A profile paused between claim and execution still posts.

**Gate.** `deleteTimeEntry` answers with `res.status(204).end()` and is never committed
(`financeController.ts:1675`). For a route missing from `RoutePermissionRegistry` (manual
journals, vendor payments, refunds, credit notes and others) the required permissions are
stored as NULL and the replay of a committed command is answered 403
(`idempotency.middleware.ts:146`); the browser drops the key (`client.ts:192`) and the next
attempt posts again, against `docs/ARCHITECTURE_BASELINE.md:168`. A listed route does not
help: a browser also forgets the key of a command with unknown outcome when the repetition
meets an expired session or a withdrawn permission in front of the gate, and
it looks the key up by body when a late answer arrives (`client.ts:118`). `RepeatsExplained`
is the bound on what this costs. A handler that refuses below 500 after writing outside a
nested transaction has its partial writes committed (`:187`).

**Outbox.** A waiting e-mail about a voided invoice goes out after a credit note was applied
to that invoice, which writes Paid or Partially Paid over VOIDED (`SalesEngine.ts:3580`,
against `docs/plans/zoho-live-ui-ux-audit-2026-09-22.md:306`); reversals do
the same (`FinancialDestructiveActionsService.ts:547`, `:817`, `:1058`). The clean-up to
DEAD_LETTER never finds a row (`EmailOutboxService.ts:167`).
`OperationalMonitoringService.ts:298` queries `email_outbox`; the table is `outbox_emails`.

**Payments.** The age of a PROCESSING event is that of its row, not of its claim
(`PaymentGatewayService.ts:306`): two overlapping claims of an old event can post a receipt
without an intent twice, and FAILED written over PROCESSED (`:711`) hides the event from
the sum of refunds and from the portal. A retry within five minutes is answered
ALREADY_PROCESSED although nothing was done (`:704`); a FAILED event is answered 200, so a
provider does not repeat it. Cancellations overwrite a SUCCEEDED intent (`:379`), and their
events stay PROCESSING on PostgreSQL because of `ck_gateway_processed_journal`. A second
refund that names the charge finds several rows and fails. A receipt without a reference
settles the latest intent, but the portal never confirms it.

**Ledger.** Neither a close nor a lock by date takes the posting lock
(`PeriodCloseService.ts:239`), so a posting that has read `period_locks`
(`postingEngine.ts:222`) commits after it, against "strictly rejected" in
`GATE4_CONCURRENCY_SECURITY_REPORT.md:119` (`ledger_late`); `OneStraggler` is the bound on
what that costs. `reverseJournal` does not look at the status, so a journal that waits for
approval can be reversed and posted later. The reversal of a source document has a JV number
and can itself be reversed by hand, and `reversePostedJournal` does not ask for a document's
number, so both endpoints may be asked to reverse the same journal. A lock by date can never
be lifted; a reopened month stays locked while a later lock by date exists.
`BankReconciliationService.ts:1629` reads columns of `period_locks` that closes never set.
`lockPeriod`, `unlockPeriod` and `ManualJournalService.updateDraft` have no production
callers.

**Sales.** Payments, credits and write-offs are accepted for DRAFT and SUBMITTED invoices
and take 1100 below what customers owe (`SalesEngine.ts:3858`, against
`GATE3_TRANSACTIONAL_MATRIX_REPORT.md:45`). An edit looks only at the paid amount and
clamps the balance; invoices that are WRITTEN_OFF or 'Partially Paid' are edited without a
journal. Credits and write-offs on a VOIDED invoice resurrect it, reversals overwrite
VOIDED with POSTED. `postApprovedPayment` ignores its row count, so a payment can miss an
invoice that was voided and later, when it is reversed, take the paid amount of another.
`verifyARIntegrity` counts SUBMITTED invoices as open. A change of the customer of a posted
invoice moves only the difference. A correction that needs approval leaves the reversal
standing alone. Advances, credit notes and write-offs do not touch
`customers.receivables_balance`. The handlers at lines 3196, 3299, 3591 and 3764
(application of advances and credit notes, customer refunds) have no production callers.

**Purchases.** An approved vendor payment is not compared with the balances
(`PurchasesEngine.ts:1777`): it overpays, resurrects voided bills, and of two allocations to
one bill the later overwrites the earlier. `updateBill` sets any total without journal,
order or status. Bills that wait for approval do not hold their part of the order: two of
them are posted and the order is billed beyond its total (`PurchasesEngine.ts:1381`, against
`GATE4_CONCURRENCY_SECURITY_REPORT.md:90` and `:100`), also when it was cancelled;
`updatePurchaseOrder` can set CANCELLED on a billed order. The template of a recurring bill
is taken as it is (`:1044`-`:1092`, `:1190`-`:1218`): `amountPaid` makes a bill paid without
a payment, any status is kept, a DRAFT adds to `billed_amount` without a journal and nothing
gives it back, and an order is billed without asking whether it was cancelled. The bill
handler of the controller posts to whatever payable account the request names
(`financeController.ts:3067`), while the report and the reversals of settlements know 2000.
A refunded debit note can be reversed, and the refund then cannot. Bills that OCR leaves as
DRAFT are posted by no handler. The HTTP handler of bills is the controller's own;
`createAndPostBill` serves conversions, recurring jobs and OCR.

**Approvals.** `lockAndResolveEntity` reads a table `bill_items`
(`ApprovalWorkflowService.ts:204`) that no schema has: on PostgreSQL the caught error
aborts the transaction, so a bill that requires approval can be neither submitted nor
approved. `approvePurchaseOrder` approves whatever request it is given and overwrites a
concurrent CANCELLED. `createdBy` is never resolved, so approvers may approve content they
edited. Posted invoices are edited without a new approval. `submitted_at` is the server's
clock before the wait for the lock. In production the locks last to the commit of the
gate's outer transaction.

**Banking.** A journal that is matched can be reversed by hand
(`ManualJournalService.ts:286`, against
`docs/BANKING_STATEMENT_RECONCILIATION_DESIGN.md:210`); later completions are then refused
until the session is reopened and the line unmatched. `DELETE /matches/:id`
(`BankReconciliationService.ts:1405`) also deletes retained history and then rewrites the
status of the line, a RECONCILED one of a completed session included, against
`bankMovementAllocationService.test.ts:53`. An entry created by the older handlers for a
confirmed duplicate leaves its disposition active for ever, and the line blocks every
completion; on a partially matched line they book the money twice. CATEGORIZED and ignored
lines block completion until they are verified or restored. The older handlers look at
neither review, ignored status nor completed sessions. A possible duplicate whose candidates
vanished can be neither kept nor confirmed, only ignored and restored.

## 6. Not modelled

* **Tenant recovery.** The trigger `prevent_posted_journal_mutation`
  (`server/src/database/migrationRunner.ts:1697`) refuses the DELETE of posted journals with
  which `promoteRestore` and `rollbackRestore` begin, so on PostgreSQL neither runs for an
  organization with journals (the in-memory database of the tests has no trigger). A model
  would be of steps that do not happen. Read on the way: `acquireLock` takes over a lock
  that another job holds and any end of a job releases it; `setJobPromoted` ignores its
  row count; a request past the middleware goes on after the lock; `postingEngine.ts:194`
  reads the recovery lock before its wait for the posting lock.
* **Command receipts**: inserts inside the gate's transaction that no operation reads back.
* **Sessions, sign-in, roles, membership**: outside the financial core; the gate model keeps
  whether a session is valid and lets permissions change. Rotation writes ROTATED by id
  alone (`SessionService.ts:147`), which would be the first thing to look at.
* **The rest of sales and purchases**: quotations, sales orders, goods receipts, expenses,
  reimbursements, cached balances of customers and vendors. They only refuse more than the
  modelled handlers do, or are single rows with one writer.
* **The rest of banking**: feeds, rules, suggestions, internal transfers, administration of
  accounts, sessions' closing balance.
* **Assets, revaluation, budgets, recurring journals**: callers of the posting engine with
  one transaction each.
* **The database itself**: savepoints, the development fallback to an in-memory database.
* **Reports, search, PDF and storage, audit, monitoring, metadata cache, migrations, month
  arithmetic of schedules, cryptography, provider formats, web views.** Most of the
  repository's lines are here: rendering, SQL for reading, and forms. They are single-actor
  code that ordinary tests reach, and a model would restate them.

The share of the repository's lines that the models translate is small for that reason. It
is the part where several actors, or several handlers, write the same rows.

## 7. Running it

```
tlc -workers 2 -config job_fleet.cfg MCJobScheduler.tla     # any run of section 3
tlapm ApprovalsAndJobsProofs.tla                             # any proofs module
```

`job_fleet`, `ap_settle`, `bank_match` and `ledger_posts` take one to three minutes each,
the others less; all runs together about a quarter of an hour. The proofs of a module take
one to ten minutes from nothing, those of `LedgerAndPayablesProofs` longest.
