# TaxMyself: a formal model of billing, document intake and invoice allocation

TaxMyself (KeepInTax) is a bookkeeping service for small businesses: a NestJS
backend on MySQL (`backend/src`), an Ionic/Angular frontend, a few small helpers,
and the external services it talks to (CardCom for payments, Google Drive for
files, WhatsApp for messages, the Tax Authority's SHAAM for allocation numbers). This
directory models the three parts whose mistakes are hardest to undo: **billing**, which
takes and returns money and issues tax documents; the **intake of documents**, which
must neither lose a receipt nor file it with the wrong business; and the **allocation
number of an invoice**, which the Tax Authority gives once and without which the
customer cannot deduct the VAT. Paths are relative to the repository root; BAO is
`backend/src/billing/services/billing-attempt-orchestration.service.ts`.

## 1. Inventory

### Modelled

| Component | State it keeps | Operations | Module |
|---|---|---|---|
| Attempts and obligations (BAO, `domain/billing-state-machine.ts`, entities) | `billing_attempt` (status, LowProfile id, lease, `stateVersion`, reconciliation count), `billing_obligation` (`activeAttemptId`, `satisfiedAttemptId`), frozen membership | open, claim (submission, reconciliation, hosted outcome, finalization), apply an outcome or a local failure, expire a lease, record a page, finalize, resolve by hand | `BillingAttempts` |
| Provider runtime (`billing-provider-runtime`, `billing-cardcom-executor`) | id, version and lease owner between two transactions | charge a token once, look a charge up, normalise the answer | `BillingAttempts` |
| Lifecycle, completion, sweep, webhook, checkout (`billing-lifecycle`, `billing-hosted-completion`, `billing-completion-recovery`, `billing-reconciliation`, `cardcom-webhook`, `createCheckout`) | subscription status, receipt, `cardcom_webhook_log` | resume a captured attempt, look up doubtful ones, log and apply a webhook, reserve a debt and hand out its page | `BillingAttempts` |
| Renewal, debt accrual, cancellation (`subscription-renewal`, `billing-renewal-policy`, `billing-debt`, `billing-recovery-state`, `billing-cancellation`) | `currentPeriodEnd`, `nextBillingDate`, `renewalAttempts`, the effective cancellation, one obligation per period | run a renewal, decide a decline, advance by compare-and-set, accrue what is owed, settle it, request / withdraw / carry out a cancellation | `RenewalCycle` |
| Saved card (`changePaymentMethod`, its poll, its webhook; `storeRecoveredCard`) | `payment_method`, `cardcom_webhook_log`, `billing_event` | open a page, store its token once, record and show the outcome | `CardUpdate` |
| Refunds (`billing-refund`, `domain/billing-refund`) | refund rows of `billing_attempt`, `billing_event`, credit document | reserve a balance, ask CardCom once, decide what stayed open, complete under a lease | `Refunds` |
| Document import (`document-import`) | `imported_documents`, Drive folders | look up, adopt or upload, record, compensate | `DocumentImport` |
| WhatsApp intake (`lychee-event`, `lychee-intake`) | `lychee_intake_events` | accept, claim, ask which business, import, match an answer, retry | `DocumentIntake` |
| WhatsApp outboxes (`lychee-prompt`, `lychee-notification`) | outbox rows of questions and notices | claim, check, send, keep the receipt, link, quarantine | `MessageOutbox` |
| Invoice allocation (`shaam-allocation-orchestrator`, `finalizeAllocation` in `documents.service`) | `documents` (`docStatus`, `allocationNum`), journal entries, `shaam_invoice_allocation_attempt` (state, lease) | begin an attempt, ask, classify the answer, persist the number, poll, resolve by hand, finalize the invoice | `InvoiceAllocation` |

How they interact. In billing every component reads and writes the same rows. A
transaction takes row locks (`pessimistic_write`, subscription first) and ends with
`stateVersion += 1`; between two transactions a thread keeps only the row's id, the
version it saw and the name of its lease. Calls to CardCom happen outside of
transactions and may time out, be answered late, or be answered to a process that
has crashed. Webhooks, cron jobs, tasks, HTTP requests and operators run at the
same time. The intake is a table used as a queue: ticks claim a row with a random
token and a lease of five minutes, call `importDocument`, and write the result under the
token; a message joins the outbox in the transaction that makes it due, and another
tick sends it. An allocation request writes its attempt, asks the Tax Authority,
persists number and attempt in one transaction, and goes on to finalize the invoice
(print, upload, save, book); polls and operators write the same rows.

What is hard: a charge or a refund whose outcome is unknown must be neither repeated
nor forgotten; a late answer must not overwrite a newer fact; one debt has several
collectors and must be paid once; after money moved, several separate steps follow of
which any may fail; dates are read without a lock and written by compare-and-set; a
tick outlives its lease; an upload and its ledger row are not one transaction; WhatsApp
has no protection against sending twice; a finalization holds the invoice it read for
the seconds it takes to print two PDFs.

### Not modelled

| Component | State and operations | Why not |
|---|---|---|
| Plan changes | the plan and price of the next period | `RenewalCycle` abstracts from prices; next in the plan |
| Billing admin, pricing, access, tasks | read models, price arithmetic, HTTP clients | no state that interleaves beyond the rows above |
| Rest of documents | running numbers, drafts, inbox, pairing | numbering is one locked counter; candidate for later |
| Transactions, `user-sync-state`, Feezback | imports, consents, sync status | later |
| Rest of SHAAM | OAuth connection, uniform file | later |
| Gmail, inbound mail, Drive connection | cursors, tokens | they call the import that is modelled |
| WhatsApp webhook, conversation, assistant | signature checks and answers | no state beyond the event rows |
| Reports, bookkeeping, expenses, workflow | arithmetic over rows, a status | no interleaving to explore |
| Users, delegation, tasks, mail, demo data | rows and access rules | little state that interleaves |
| Frontend, proxy, pdf-service, landing, scripts | user interface and helpers | nothing here writes the rows above |

`PROJECT.json` lists the hazards of the code, each at its line, with the properties
that cover it.

## 2. Modules

| Module | Contents |
|---|---|
| `DebtLedger` | what the billing tables promise, in four actions: reserve, charge, release, settle |
| `BillingAttempts` | rows, threads and CardCom; one action per transaction or call |
| `BillingCorrectness` | its properties, inductive invariant `IInv`, refinement of `DebtLedger`, fairness |
| `PaidService` | what a subscription promises: pay for periods, extend service over paid ones |
| `RenewalCycle`, `RenewalCorrectness` | the dates of one subscription; its properties and the refinement of `PaidService` |
| `SavedCard` | what the owner is promised about the saved card: save, confirm, refuse |
| `CardUpdate` | replacing the saved card, with the purchases that write the same row; refines `SavedCard` |
| `RefundAccount` | what the refunds of a payment promise: promise, give back, settle, withdraw |
| `Refunds` | the refunds of one payment; refines `RefundAccount` |
| `MessageOutbox` | the delivery protocol shared by questions and notices, with `OutboxSpec` of its own |
| `DocumentImport` | the import pipeline, without a specification of its own: one content, any businesses |
| `DocumentIntake` | composes the two: one document, its question, the answers; refines `OutboxSpec` |
| `NumberedInvoice` | what the owner of an invoice is promised: ask, grant, refuse, record, issue, attach |
| `InvoiceAllocation` | the allocation number of one invoice, from the request to the journal; refines `NumberedInvoice` |
| `MC*` | instances for TLC |
| `*_proofs` | the theorems; `BillingAttempts_proofs` is extended by `BillingLedger_proofs` (refinement) and `BillingAccess_proofs` (action properties, access) |

Definitions marked "Mutant of" are plausible bugs used to test the properties; no
specification uses them.

### BillingAttempts

* One **worker** is one thread of a backend process. `pc` names the point between
  two transactions, `job` its attempt, `answer` the verdict it holds. A thread can
  stall anywhere (no step of it is taken) and crash anywhere (`Crash`).
* One **transaction is one action**, guards and early returns included; rows are
  locked, so nothing of another thread falls inside. Two claims that follow a read
  without a lock (`findDueUnknownAttempts`, then `claimForReconciliation` with the
  version read) are one action because a changed version refuses the claim.
* `stateVersion` is compared for equality only, so it is represented by the set
  `fresh` of workers whose remembered version is still the row's. A lease is free,
  live or expired; lease owner and version are both covered by `fresh`, because
  taking a lease and changing the status both bump the version.
* `Periods` are RECURRING_PERIOD obligations, `Checkouts` CHECKOUT ones; OPEN while
  `settledBy` is NULL. The statuses CANCELED and MANUAL_REVIEW of an obligation and
  EXPIRED of an attempt exist in the enums, but no code writes them.
* CardCom is `money`: a token charge is pending once requested, then paid or
  refused; a page is ready when it exists, pending once the customer has its
  address, then paid, refused or closed. `requests` counts the charge requests.
* Assumed: a definitive decline of a hosted page is final for that page
  (`isDefinitiveHostedDecline` demands the full identity of the attempt).
  `OperatorSeesSenders`: an operator who attests "no charge" tells the truth *and* no
  thread is between its claim and its request. It is TRUE in every run: with FALSE,
  `PaidIsNeverReleased` fails, because `submitCharge` looks at nothing again between
  `claimForSubmission` and the request (section 5). The inductive invariant does not
  depend on it: `MaybeSent` is the one case it has to except, a token attempt that an
  operator closed, and `PaidAtMostOnce`, `PaidIsNeverReleased`, `PayablePageIsAlone` and
  `LedgerSpec` are the only properties that need the assumption.
  `LatePayment`: an upgrade may be paid after the period it was quoted for (FALSE in the
  passing runs; the run BillingLateUpgrade shows what TRUE does).
* Left out: `nextActionAt` (it only delays a claim), prices and plan snapshots, the
  collision check of external keys, complimentary access, checkouts without an attempt
  (rows older than the attempts), and the fallback `openPastDueRecovery`. TRIAL stands
  for TRIAL and TRIAL_EXPIRED. Scheduled and immediate cancellation are one action
  here; `RenewalCycle` has both. A webhook is identified by attempt and outcome.

### RenewalCycle

* Instants are numbers; `Calendar` is the set of instants at which a period of this
  subscription begins, whatever months and daylight saving make of them
  (`nextBillingInstant` is "the next member"). Time of day and midnight are one instant;
  a retry carries the time of its decline, so it equals no other retry (`Schedule`).
* A worker is one run (cron, operator's retry, task): it reads without a lock
  (`ReadDue`), opens or resumes the charge under the lock (`RenewOpen`, `RenewResume`
  behind `RenewalDue` = `assertRenewalDue`), finalizes, and moves the dates by
  compare-and-set (`Advance` behind `Unmoved`). It may end between any two steps.
* The collection of one debt, which `BillingAttempts` has in full, is abstracted to
  absent, open, charging, reserved, captured, satisfied. A verdict may come from any of
  the paths of that module; `TokenDeclined` contains the schedule that
  `applyRenewalDeclinePolicy` writes in the same transaction.
* `OperatorReleases` is CONFIRM_NO_CHARGE of `prepareAdminResolution` (BAO:361-394) for a
  token attempt: it frees the debt and leaves due date and count alone, so the next run
  asks the card at once. It may come while a run is still submitting the attempt (that
  such a run then charges a closed attempt is the subject of `BillingAttempts`); `try` is
  the attempt a run submits and `OwnAttempt` the version check that turns it away.
  A period is therefore refused at most three times, but attempted as many times more as an
  operator released it, although `billing-renewal-policy.ts:6-7` says "three charge
  attempts per billing cycle". `TriesAreSpaced` states what holds: each release gives back
  one try. `MaxReleases` bounds them.
* `Accrued`, `Missing`, `AccrualRefused` are `BillingDebtService.accrue` with its
  cutoff and its missing-price error; `Patch` is `recoverySubscriptionPatch`.
* Left out: e-mails, `chargeSubscriptionLegacy`, the batch over many subscriptions,
  complimentary access, amounts.

### CardUpdate

* `page` is CardCom's page, with one final result. `Result` is what `GetLpResult` answers
  for it, before the customer is done, too: `PullResult` takes such a pending result,
  because `reconcileChangePaymentMethod` does not look whether there is one. `webhookLog`
  is the unique row that admits one handler per update and key: `tx` for a result with a
  transaction, `rv` for one without (`buildIdempotencyKey`). `fresh` are the pages not newer than
  `payment_method.updatedAt`, which is all that the comparison of dates reads; `recent`
  the second in which a write and a request have the same date.
* The webhook (`HandleWebhook` ... `LogOutcome`) and the poll's own lookup
  (`PollReconciles` ... `PollAgain`) run the same `applyVerifiedChangePaymentMethod`.
  Events are best effort: `LogOutcome` may write nothing. `Purchase` is the rest of
  billing as far as it writes the card.
* `Saved` maps it to `SavedCard`: `stored` are the pages used, the outcome events the
  record, and `early` the updates to which a result without a transaction was applied:
  those alone may be refused and have their card saved (section 5). The dialog's answer is
  not part of the promise (`OutcomeOf` takes any fresh card for the success of the update,
  section 5).
* Assumed: the final result of a page has a transaction when its card was accepted.
* The webhook of an older update, processed after a newer one was stored, puts the older
  card back: the code keeps the card processed last, and nothing promises another order.
* Left out: token encryption, the digits of a card, the owner's access checks. A
  transaction that reports failure is taken for rolled back. The table
  `payment_method_update_attempt` exists, but no code writes it.

### Refunds

* One action per transaction; `job` is what a request or the cron holds between two.
  `owner` and `live` are the lease, whose owner for the request is its `requestId`.
  `Breakdown` is `refundBreakdown` with its refusals. `returned` is what CardCom did,
  whatever it answered.
* Sums over refunds (`GrossOf`, `NetOf`) are `SumFunctionOnSet`. `Account` maps the rows
  to `RefundAccount`: `settled` is the sum of the closed refunds, `pending` that of the
  unfinished one, `back` what CardCom gave back, `beforeVat` the parts before VAT. Its
  `Promise` takes any part of the rest, so the refinement also says that a reservation
  never exceeds it and that the split of the sum, not of the single refund, is rounded.
* `HasRecipient`: the source document names an e-mail recipient. TRUE in the run: with
  FALSE, `RefundIsDocumented` fails (section 5).
* Assumed: an operator's evidence is right, and "not refunded" is attested of a request
  that is definitively not pending (`ConfirmNotRefunded`). An operator's `stateVersion`
  check is implied by the status it names. `checkProvider` only reads. Attempt counts
  and back-off of the completion only delay `Recover`.

### MessageOutbox, DocumentImport, DocumentIntake

* PROMPT_* and NOTICE_* rows follow one protocol, so `MessageOutbox` has it once. The
  intake sends one question; notices join the outbox in the transaction that writes the
  status they report, so the status stands for the notice, and their delivery is covered
  by `OutboxSendsOnce`, proved for any set of messages.
* `DocumentImport` follows one content (one SHA-256) of one user. `Files` are Drive
  identifiers; a name nothing refers to stands for a new one. An upload that reports an
  error may have stored the file.
* An intake worker is a tick; it can outlive its lease at every step (`LeaseExpires`)
  and goes on until a write under its token fails (`Owns`). `owned` is the set of
  businesses of the account, several or one, constant during a run; that ownership
  changed meanwhile is covered by `Reject` and `Refuses`, which may happen at any time.
* Imports overlap at every step, and an insert may commit although its answer is lost
  (`InsertUnanswered`, when `LostAnswers` is TRUE). In either way the code deletes a file
  that the ledger names (section 5). `exposed` is a history variable: the files that
  an import took over while their uploader still ran, or uploaded and recorded without
  learning it. `OnlyExposedFilesAreLost` says that nothing else loses a recorded file.
* Left out: texts and languages, the batch limits, `next_attempt_at`, the retained
  content of a document, chats other than documents, the assistant. Attempts of a
  decided event are forgotten (nothing reads them). That a message finds an existing
  mapping at its check cannot happen: the mapping is written by `Links` alone.

### InvoiceAllocation

* A handler is one HTTP request: `requestAndFinalize` (`Request` ... `PersistFails`, then
  the finalization), `finalizeAllocation` called by itself (`Finalize` ...
  `FinalizeFails`), or a status poll (`GetStatus`, `Lapse`). `job` is what it has read.
  `beginAttempt` and `persistApproval` lock their rows and are one action each; the
  finalization and the polls do not lock, so their reads (`Request`, `ReadInvoice`,
  `CheckAttempt`, `GetStatus`) and their writes (`SaveInvoice`, `Lapse`,
  `FinishFailure`) are separate actions. A save writes the row as it was read: TypeORM compares
  the entity with the row at the time of the save and writes what differs.
* The number of an attempt is the attempt; `verdict` is what the Authority did with its
  request, whatever became of the answer. A request can be decided long after its lease.
  The actions `BeginLapses` and `Lapse` are the three places that declare a request
  unknown when its lease (request timeout and 5 s) has passed.
* `PersistFails` is any error in the transaction that stores the number, a deadlock
  included: `persistApproval` locks attempt and invoice, `beginAttempt` invoice and
  attempt. The number is then known to the Authority only, until an operator enters it.
* `FinalizedAlone`: no request, finalization or resolution that writes the number overlaps
  a finalization of the same invoice. Nothing ensures it: the page asks for the status
  before it finalizes without a number (`incomes.page.ts:554-580`) and shows a loader, but
  not before it finalizes with a typed one (546-552), and other tabs, retries and the
  backend know nothing of it. With FALSE, `NumberKept` and `IssuedKnowingly` fail (run
  AllocationErased; a resolution by the operator between the read of the invoice and that
  of the attempts does it, too), and so does `BookedOnce` (section 5). What
  holds in either case is proved: `AcceptedOnce`, that an invoice is in the journal exactly
  when it is issued, and that a number is lost to a stale copy only (section 4).
* `Invoice` maps it to `NumberedInvoice`: `asked` and `granted` are the attempts by what
  the Authority did with them, `issued` is `~pending`. What this adds to the invariants:
  nothing is asked for an invoice that has a number or is issued, and an issued invoice
  changes only when its owner adds a number to one that has none.
* Assumed: an operator confirms what the Authority tells (`ResolveApproved`,
  `ResolveNotAccepted`), and answers "not accepted" only when no request is on its way.
  An answer that is definite (`classifyFailure`: 400, 401, 403, 404, 406, 422, 429) comes from a request
  that the Authority refused.
* Left out: tokens and scopes, amounts, the payload hash (the rows of a saved invoice are
  not edited), PDF contents. `updateDocStatus` is not modelled.
  `shaam-document-allocation.service.ts` is not wired into the module.

## 3. Runs

| Run | Instance (distinct states) | Shows |
|---|---|---|
| BillingRenewal | 2 periods, 1 checkout, 2 attempts, 2 threads (740,000) | all safety and action properties of the core; refinement of `DebtLedger` |
| BillingLiveness | 1 period, 1 checkout, 1 attempt, 2 threads, 1 lookup (23,000) | `UncertainIsResolved`, `CapturedIsCompleted` |
| RenewalCycle | 2 runs, boundaries every 4 days, clock to 8, 1 release per period (169,000) | no phantom period, paid service, spaced retries, cancellation, `SettledIsApplied`; refinement of `PaidService` |
| CardUpdate | 1 update, 1 purchase, 2 handlers (35,500) | `FailureNeedsLiveResult`, `StoredIsShown`, `PollRecovers`; refinement of `SavedCard` (which implies `CardNeverReturns`) |
| Refunds | 2 refunds of 4 agorot, 3 before VAT, 2 workers (163,000) | balance, VAT, credit documents, final decisions, completion; refinement of `RefundAccount` |
| DocumentIntake | 1 document, 1 answer, 2 ticks, 2 businesses, 1 sender, 2 attempts, lost answers (397,000) | `OnlyExposedFilesAreLost`, question, notice, choice, outcome, progress |
| InvoiceAllocation | 1 invoice, 2 handlers, 2 attempts (12,000) | one number, recorded; the invoice issued knowingly; refinement of `NumberedInvoice` (which, when an invoice is finalized alone, implies `BookedOnce` and `NumberKept`) |
| BillingAbandonedCheckout, BillingLateUpgrade, RenewalBoundary, ImportRace, AllocationErased | small | fail: findings 1 to 5 |

The type invariant of the core is checked in its run; those of the five smaller modules
are proved for every value of the constants (section 4) and not checked again.

Why the bounds are enough to be interesting. *Billing*: two attempts are the least
for a debt to be collected twice and for one attempt to replace another; two debts the
least for a recovery that collects several; two threads the least for a stale version,
an expired lease that another thread took over, and a webhook that races a sender.
`MaxLookups` is 5 in the code and 1 or 0 here: the boundary matters, not its distance.
*Renewal*: the clock passes two boundaries, so that a second unpaid period can arise
while the first is retried or settled; delays of 1 and 2 days, in months of 4, keep the
code's order (3 and 7 within a month): both retries fit in front of the next boundary,
and the clock may also skip them; one release is the
least that lets a card be asked at once, or for a fourth time. RenewalBoundary needs an instant more. *Card*: two
handlers are the least for a webhook and a poll to race, and the purchase is the other
writer of the row; a second update multiplies the states by a hundred and is left to the
theorems. *Refunds*: 4 and 3 agorot are the least amounts whose parts round differently
alone and in sum; two refunds make one wait for the other. *Intake*: two ticks are the
least for one to outlive its lease; two attempts reach the last one and retry after a
lost answer; the theorems cover two and more answers. *Allocation*: two handlers are the least for a finalization to overlap a
request or for a poll to save over an approval; the second attempt is the least that could
get a second number.

Attempts, debts and workers are interchangeable in BillingRenewal, hence the symmetry;
no run about liveness uses it. Deadlock is not checked: attempts, refunds, pages and the
clock are bounded, and when all are used the system may rightly have nothing to do.
Every property is broken by a mutant of a mapped definition (`PROJECT.json`).

### Fairness

* `BillingLiveness`: weak fairness of lease expiry, of the expiry sweep (a cron) and of a
  thread with a next step (requests time out, transactions end). Strong fairness of the
  sweep's claim, of a lookup that ends within its lease, of applying its verdict, and of
  the steps of a completion: crashes and failures may repeat, the code retries without
  end, and the assumption is that it does not fail *every* time. Lookup timeout and lease
  are both 30 s, so a CardCom that hangs on every lookup does violate it. CardCom, the
  customer and the operator need not do anything. An attempt AWAITING_CUSTOMER is not
  covered: the sweep never looks at it.
* `RenewalCycle`: the cron keeps starting runs for what is due, and not every run that
  found its period settled is interrupted.
* `CardUpdate`: the dialog stays open and polls; a handler goes on; a lookup asked for
  again and again succeeds once.
* `Refunds`: time passes, the cron runs, workers go on, and interruptions of the
  completion (`Interrupted`: crash, lost lease, a failure of a step that could have
  succeeded) come to an end. Without the last a completion that always fails at a later
  step never ends; no fairness of single steps implies it.
* `DocumentIntake`: the interval calls the ticks, a tick goes on or fails, time passes; one
  of these happens as long as one of them can. No success is assumed: attempts are bounded, so failing decides a document, too.
* `InvoiceAllocation`: a handler goes on or is gone (requests time out), leases end, the page
  asks for the status again and again and not every poll is interrupted, and the operator
  works through `listUnknownAttempts`. That the Authority answers is not assumed.

## 4. What is proved

The theorems hold for any sets of attempts, debts, threads, refunds, updates, answers,
ticks and files, any calendar and retry table, and any amounts, under the named
assumptions of the modules.

| Module | Theorems |
|---|---|
| `BillingAttempts_proofs` | `TypeCorrect`, `Inductive`, `ReservationsMatch`, `BooksAgree`, `OneSubmission`, `ReceiptsAreReal`, `DoubleChargeNeedsOperator`; with `OperatorSeesSenders` also `ChargedOnce`, `PaymentsAreKept`, `PagesAlone` |
| `BillingAccess_proofs` | `VerdictsAreFinal`, `AccessIsPaid`; `CapturedIsUsable`, when upgrades are paid in time |
| `BillingLedger_proofs` | with `OperatorSeesSenders`: `ImplementsLedger` (refinement), `LedgerIsSound` |
| `RenewalCycle_proofs` | `CycleInductive`, `CycleTypes`, `NoPhantomPeriods`, `NoUnpaidService`, `RetriesWait`, `CancellationEndsDebt`, `CycleImplementsPaidService` (refinement) |
| `CardUpdate_proofs` | `UpdatesTypeInvariant`, `FailureIsTrue` (`FailureNeedsLiveResult`), `StoredOnce`, `ImplementsSavedCard` (refinement), `SavedCardIsSound` |
| `Refunds_proofs` | `RefundsTypeInvariant`, `CreditIsReal`, `ReturnedStaysReserved`, `DecisionsStand`, `RefundIsSplit`, `WholeRefundIsExact`, `NeverOverRefunded`, `VatStaysExact`, `RemainderStaysRefundable`, `ImplementsAccount` (refinement), `AccountIsSound` |
| `DocumentIntake_proofs` | `IntakeRefinesOutbox` (refinement), `OutboxSendsOnce`, `IntakeInvariant`, `IntakeTypeInvariant`, `RecordedFilesStay` (`OnlyExposedFilesAreLost`), `QuestionsSentOnce`, `NoticesAreTrue`, `ChosenBusinessOnly`, `OutcomesStand` |
| `InvoiceAllocation_proofs` | `AllocationInductive`, `AllocationTypeInvariant`, `NumberGivenOnce`, `HeldInductive`, `IssuedIsBooked`, `OnlyStaleCopiesErase`; with `FinalizedAlone` also `IssueInductive`, `NothingIssuedBlindly`, `ImplementsInvoice` (refinement), `InvoiceIsSound` |

**Core.** None of the safety properties is inductive. That a debt is paid once follows
from two facts: an attempt that was paid is CAPTURED, COMPLETED or still unresolved
(`MoneyAgrees`), and such an attempt holds or has settled all its debts
(`ReservationsAgree`, `CompletionPair`); a debt has one `activeAttemptId`. To keep
`MoneyAgrees` one has to know what every thread may rely on without looking again: the
thread that claimed an attempt is the only one to send it (`OneSender`), the answer it
holds agrees with CardCom, one about to finalize has the receipt (`Threads`).
`RecoveryIsAlone` closes the last gap: a hosted recovery whose page is being created has
status CREATED, which a renewal run could take for one of its own; it cannot, because
the subscription is PAST_DUE or CANCELED and nothing in progress would reactivate it.
All of this holds whatever an operator does, except that a token attempt he closed may
still be sent by a thread that had claimed it (`MaybeSent`). Two paid attempts for one
debt therefore include such an attempt (`DoubleChargeNeedsOperator`): the hole is where
section 5 says it is, and nowhere else.
`CapturedIsUsable` adds `AccessAgrees`: a checkout in progress is the only collection.

**Renewal.** `IInv` says what the dates mean: `ScheduleFits` (the due date is
the end of service, or a retry after it), `CancelFits` (while a cancellation waits,
nothing is being collected), `DebtsFit` (only periods that have begun are on the books,
and the saved card is asked for the one at the end of service), `RecoveryFits` (the debts
of a settlement move together, and until it is applied nothing else is unresolved),
`RunsFit` (a run whose schedule is still there holds the period at the end of service, so
the compare-and-set moves the right date) and `ChargesFit` (every attempt of the
cycle was declined, released by an operator, or is under way). `RunsFit` carries the
refinement: the retry's time of day is what makes equal schedules mean an unchanged
subscription.

**Card.** `JobsFit`, `GateFits` (each log row admits one handler), `OutcomesFit` and
`CardsFit` (a stored page is `fresh`): only the handler admitted by the row of the
transaction stores a page's card, and it does so once; a recovery finds the method newer
than its purchase. That handler knows what became of the card when it logs the outcome; the
one admitted by the row without a transaction, if there is one, only ever logs a failure.
So the record of success is true for good, and that of a failure is true unless the update
was judged early, which `ImplementsSavedCard` says of every step.

**Refunds.** `RowsFit` and `JobsFit`: who sends holds the row it reserved, and an answer
"captured" names returned money. `RefundIsSplit` and `WholeRefundIsExact` are about the
arithmetic of `refundBreakdown` for all amounts. `BalanceFits` then carries the sums: one
refund at a time is unfinished, and the parts before VAT of the reserved refunds are the
rounded share of their sum, so that whatever is left can be split again and a declined
refund, always the last, leaves a sum that fits. Each step adds or removes one refund, and
that a sum changes by that refund is proved without the induction theorems: a smallest
finite set for which a sum were not what it should be would have a smaller one
(`FS_StrictSubsetOrderingWellFounded`, `WFMin`). `SentOnce` says that a request which may
still go out has not gone out before; with it every step is one of the account's or
changes nothing it sees.

**Intake.** Three invariants, one per module: `OutboxInv` (one sender is between claim
and receipt, and what it has not sent was not delivered), `ImportInv` (a fresh upload
belongs to one import, a recorded file is in the folder or exposed), `IntakeInv` (the attempt that
imports agrees with the row as long as the row is not decided; the answer that is
accepted is the one whose business the row names). A step of the intake is a step of the
outbox and of the imports or leaves them alone, so their lemmas are used unchanged.

**Allocation.** `IInv` holds whether or not finalizations overlap: only the latest attempt can be
open at the Authority, an attempt whose state permits another is refused for good, and a
handler that submits or waits holds an attempt of its own. That gives `NumberGivenOnce`. `HeldFits`, which
does not need `FinalizedAlone` either, adds that a copy of the invoice never names a number
that was not given, and that what was read as issued is issued: `IssuedIsBooked` follows, and
`OnlyStaleCopiesErase`, that the one step which takes a number of the Authority's off an
invoice is a finalization that saves a copy without it. `IssueInv` adds what
a finalization has read and that nothing has changed it since; it needs `FinalizedAlone`. Under it
a request that leaves finds the invoice pending and without a number (`SubmitAsks`), and
what is saved is issued, numbered for the first time or unchanged (`SaveIssues`): these are
the steps of the refinement.

**Only model-checked:** the eight liveness properties (`UncertainIsResolved`,
`CapturedIsCompleted`, `SettledIsApplied`, `StoredIsShown`, `PollRecovers`,
`RefundIsDocumented`, `DocumentIsDecided`, `AcceptedIsRecorded`): fairness and ENABLED are
out of the prover's reach. Every other property of a passing run is a theorem, and so is
`CardNeverReturns`; `BookedOnce` and `NumberKept`, which the refinement implies, are theorems
only for invoices finalized alone.
**Neither:** what is listed under "Left out".

## 5. Findings

1. *Abandoned checkout blocks recovery* (BillingAbandonedCheckout). The CHECKOUT
   obligation of a declined or closed upgrade stays OPEN for ever, and
   `createRecoveryCollection` refuses a balance that contains one.
2. *An upgrade paid late is stuck* (BillingLateUpgrade). It is captured, never
   completed, has no receipt to refund, and keeps the renewal deferred.
3. *A boundary during settlement hides a debt* (RenewalBoundary). The customer is left
   PAST_DUE, without anything to pay and without access.
4. *An import deletes the file another one recorded* (ImportRace).
5. *A finalization erases an allocation number* (AllocationErased) that was persisted
   after it read the invoice.

Each is described in `PROJECT.json` with the line it contradicts. Three more are refuted by
changing one line of a run's configuration:

* *A card is stored after its update was recorded as failed*: `FailedUpdateIsNotStored`
  fails in CardUpdate. Twenty seconds after the request the poll applies the answer for a
  page the customer is still filling in (`cardcom-webhook.service.ts:1077`), which has no
  token, and records PAYMENT_METHOD_UPDATE_FAILED; the webhook has another log key and
  stores the card. `billing.service.ts:1011-1012` says of this poll "result not yet
  conclusive. Stay PENDING so the next poll retries rather than failing a live attempt".
* *A lost answer deletes a recorded file*: `RecordedFileExists` fails in ImportRace with
  `LostAnswers = TRUE`, with one tick, too. The insert committed, and
  `document-import.service.ts:333-340` deletes the upload as after a failed one; the retry
  finds the row and reports ALREADY_IMPORTED.
* *An invoice is booked twice*: `BookedOnce` fails in AllocationErased's instance. Two
  finalizations read the invoice pending (`documents.service.ts:1519`, 1572) and each books
  it (1681); the journal has no unique key on its reference.

Seen on the way: a sender that stalls past its lease between
`claimForSubmission` and the request to CardCom charges the card of an attempt that an operator has
meanwhile closed (`OperatorSeesSenders = FALSE` in BillingRenewal breaks
`PaidIsNeverReleased`); a refund whose source document names no recipient is never
completed and blocks every further refund of its payment, because `billing-refund.service.ts:237`
takes the recorded skip for a failure (`HasRecipient = FALSE` in Refunds breaks
`RefundIsDocumented`); a period whose attempt an operator released is attempted at once
and up to four times, against the policy's three (`OperatorReleases`); a crash between finalization and the advance of the dates,
followed by the owner's cancellation, leaves a paid period unapplied (`SettledIsApplied`
therefore excepts it); a card update whose handler died after it took the log row stays
undecided (`PollRecovers` excepts it as `Abandoned`); the poll takes any card stored since
the request for the success of the update, also one that a purchase stored, while the
comment at `billing.service.ts:945-948` calls it the card really written; a document is
reported as failed although it was imported when its last attempt dies between ledger row
and status.

## 6. Plan

Done: the billing core, the renewal cycle, the saved card, refunds, import, intake and
outbox, and the allocation number of an invoice, each with runs and proofs. Left, in this
order:

1. Plan changes: the plan and price of the next period, against renewals and upgrades.
2. The sweep's batch over many subscriptions (a bounded queue, starvation).
3. Numbering of documents and the pairing with transactions; the user sync state; the
   submission of the uniform file.
4. The Gmail and inbound-mail cursors in front of the import.
