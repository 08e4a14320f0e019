# SpendLens: a TLA+ model of the receipt backend

SpendLens turns receipts (photographs, PDFs, mails) into expenses. This directory models the parts of
it in which several processes meet, checks them with TLC and proves the central ones with TLAPS.
Every definition is a translation of the code under `backend/app`; `PROJECT.json` names the lines.

## 1. Inventory

| Component | State | Operations | Meets | What makes it correct |
|---|---|---|---|---|
| Receipt pipeline: `receipt_service`, `process_receipt`, `categorise_receipt`, `celery_app` | `receipts` rows (status), objects in the bucket, `expenses`, Celery messages | upload, retry, delete; OCR task, categorisation task; retry, acknowledgement, redelivery | API processes and workers share the rows; the broker redelivers | row has object, one expense per receipt, `categorised` means booked, no row is lost, every row settles or its categorisation gave up |
| Inbound mail: `inbound_email_service`, `endpoints/inbound` | rows with `external_message_id` | dedup look-up, a receipt per attachment, 202 or 500 | webhook handlers and Gmail tasks run it at once; providers repeat deliveries | no attachment stored twice, a 202 means handled, repetition ends |
| Gmail sync: `integrations_gmail` (push), `gmail_history_sync`, `gmail_sync_service`, `gmail_connection_service` | connection row and its cursor, Celery messages | push, seed, list, fetch, ingest, move the cursor | two pushes sync one row at once; the user reconnects in between | the cursor passes only what is handled |
| Gmail OAuth: `gmail_oauth_service`, `integrations_gmail` (connect, callback, disconnect), `secret_box` | signed state, codes, tokens, the row's ciphertext | consent, exchange, upsert, disconnect, revoke | callbacks, reloads and disconnects of one account; Google | a token has one holder, no disconnect revokes the token of a row that stays |
| Pub/Sub verification: `gmail_pubsub_service` | none | verify one request | push | pure decision |
| Expenses API: `expense_service`, `core/pagination` | `expenses`, `category_corrections` | create, patch and delete under an ETag, keyset pages | two editors, an editor and a pager | no lost update, no row skipped or repeated |
| Categorisation: `categorisation`, `category_rules`, `llm_client` | `category_corrections` | correction, rule, model, default | expenses API, pipeline | precedence |
| Parser and OCR | none | text to fields | pipeline | total on every text |
| Budgets, insights | `budgets` | create, update, status; months, trends, anomalies | expenses | boundaries of months and thresholds |
| Users and authentication, secrets, storage keys | `users` | register, login, tokens | all | uniqueness |
| Frontend session, data layer, share target | token store, query cache, one stash slot | login, late 401, optimistic delete, poll, share | tabs, service worker, API | a late answer never undoes a newer action |

The hard behaviours: transactions that run at READ COMMITTED and write without a guard on the value
they replace; tasks delivered twice, killed, or retried by Celery and by the user at once; three
systems (database, object store, broker) that no common transaction covers; two mail channels that
repeat, reorder and race; a cursor that must not run ahead of the work. `PROJECT.json` lists each
hazard at its line, with the property that covers it or the reason none does yet.

## 2. Order of the work

1. `ReceiptPipeline` with the abstract `ReceiptLedger` and the measure `ReceiptWork`, and two proof modules.
2. `InboundEmail`, `InboundWebhook`, `GmailSync`, composed in `MailIngestion`, with its proof module.
3. `ExpenseEdit`: the ETag of `update_expense`, `category_corrections`, what the categorisation of the
   next receipt reads of them, and its proof module.
4. `Calendar`, `Insights`, `ExpensePages`, `Budgets`, composed in `ExpenseReports`, with the proof
   modules `FiniteSetFacts`, `InsightsProofs` and `ExpenseReportsProofs`.
5. `GmailConsent`, with its proof module.

Left: ambiguous commits as one more fault of the pipeline, and the frontend (a late 401, optimistic
deletes, the share target's one slot).

## 3. The receipt pipeline (`ReceiptPipeline`, `ReceiptLedger`, `ReceiptWork`)

A step is one transaction, one object-store call or one broker call. What a process knows between
two of its steps is its program counter, its receipt or job, and for a worker the status it read
(`seen`), which is what the ORM's in-memory row is.

| Variable | Code |
|---|---|
| `row[r]` | `receipts.status`, or `none` before the commit, `deleted` after the delete |
| `blobs` | keys in the bucket; one key per receipt (`build_receipt_key` draws a fresh one) |
| `expenses[r]` | `expenses` rows with `receipt_id = r`; they outlive the receipt (`ON DELETE SET NULL`) |
| `queue` | Celery messages, a bag |
| `worker[w]`, `api[a]` | a Celery worker, a request handler |
| `dropped` | receipts one of whose expenses the user deleted (history) |
| `abandoned` | receipts whose categorisation ran out of retries since they were last parsed (history) |

| Actions | Code |
|---|---|
| `UploadPut`, `UploadInsert`, `UploadInsertFails`, `UploadCleanup`, `Enqueue` | `create_receipt` |
| `RetryRead`, `RetryReset`, `RefreshFails` | `retry_receipt` |
| `DeleteRow`, `DeleteBlob`, `BlobDeleteFails` | `delete_receipt` |
| `Deliver`, `MarkProcessing`, `OcrSucceeds`, `OcrRejects`, `OcrErrors`, `EnqueueCategorisation(Fails)` | `process_receipt` |
| `AlreadyBooked`, `AgreeWithExpense`, `NotParsed`, `CallCategoriser`, `CategoriseErrors`, `Book`, `BookCollides` | `categorise_receipt` |
| `StaleWrite`, `TaskAborts`, `Retry`, `GiveUp`, `RetryDispatchFails` | `StaleDataError`, soft time limit, `self.retry` |
| `Ack`, `WorkerDies`, `ChildKilled` | `task_acks_late`, `task_time_limit` |

Two statements are one step where nothing can come between them that matters. `DeleteRow` is the `SELECT`
and the `DELETE` of `delete_receipt`: the first only decides on a 404, and a row that goes between the two
leaves the second nothing to delete.

Errors of the work itself are ordinary steps and no faults: `OcrErrors` writes `failed` and retries,
`CategoriseErrors` retries and writes nothing, because `categorise_receipt` never does.

`Faults` chooses the kinds of fault of an instance: `insert_fails`, `delete_fails`, `dispatch_fails`,
`api_crash`, `task_aborts`, `worker_dies`, `child_killed`. `MaxFaults` and `MaxUserRetries` bound a
behaviour; `MaxRetries` is the code's `max_retries`.

`ReceiptLedger` is the promise: a receipt is stored once, booked at most once at a time and only
while it exists, and never comes back. `Ledger` maps every live status to `live`.

`ReceiptWork` measures what is left to do. `Work` adds up, over the messages, the workers and the
requests, a bound on the steps that each may still take: a message counts for the attempts it has
left and, if it is of `process_receipt`, for those of the `categorise_receipt` it may publish.
`WorkIsSpent`: every step lowers it, except a call of the API and a redelivery after a worker died,
which bring in no more than an upload's work. So Celery's retries end because the tries ride on the message (a task that was
published afresh would start over), and not because a user or the broker stops.

### Runs

| Run | Instance | Shows |
|---|---|---|
| `pipeline_safety` | 1 receipt, 2 workers, 2 requests, 2 Celery retries, 1 user retry, all faults, 2 of them | `TypeOK`, `RowHasBlob`, `OneExpensePerReceipt`, `CategorisedWasBooked`, `JobsNameCommittedRows`, `ImplementsLedger` hold under every fault |
| `pipeline_recovery` | same, 1 Celery retry, faults `worker_dies` and `insert_fails` | `InFlightIsCarried`, `NoOrphanBlob`, `WorkIsSpent`, `StrandedForGood`, and under fairness `SettlesOrIsGivenUp` |
| `pipeline_retry_race` | no fault at all | `FailedHasNoExpense` is violated: see findings |
| `pipeline_child_killed` | one `child_killed` | `InFlightIsCarried` is violated: see findings |

One receipt is enough: no action reads or writes two receipts, so receipts meet only in the
availability of a worker or a request. Two workers and two requests give every race on a
receipt; a third could only repeat one of theirs, and the theorems hold for every number. Symmetry is
used in `pipeline_safety` only, which checks no liveness.

Fairness (`FairSpec`): weak fairness of each request's own steps and of each worker. An `async`
handler that is not killed runs on; a Celery worker with `prefetch_multiplier = 1` takes a message
whenever it is free. Users and faults have no fairness.

`SettlesOrIsGivenUp` and `InFlightIsCarried` are checked with the faults the code recovers from. What
strands a row in this code is

- a categorisation that fails until its retries are used up: the row stays `parsed`. This needs no
  fault, so both properties name it as an outcome (`GivenUp`). ADR 0005 draws it as a transition to `failed`: see
  findings;
- a `.delay()` that is refused after the commit (`dispatch_fails`), an API process that dies before it
  (`api_crash`), a child that is killed (`child_killed`), and a task that is aborted before it could write
  `failed` until its retries are used up (`task_aborts`). ADR 0005 defers a sweeper for lost tasks.

`StrandedForGood` says what being stranded is: a row in flight that no message, request or task names is moved on
by no request and no worker; the user can only delete it. POST `/retry` accepts `failed` rows only.

### Proofs

`ReceiptPipelineProofs`, for all values of the constants and all faults. None of the properties is
inductive alone: `SafetyInv` adds `ProcessesHold` (a busy process has a real receipt or job),
`RequestsKnow` (what a request may rely on between its steps: its row is not committed yet while it
inserts or cleans up, its object is there while it inserts, its row is deleted while it deletes the
object), `AgreementsHaveExpense` (a task about to make the status agree with an expense has found one, or the
user has deleted it since) and `UploadsAreAlone` (no other request touches a receipt before its commit, since the key
is fresh). `SafetyStep` has one step per action. From it: `TypeCorrect`, `RowsHaveBlobs`,
`AtMostOneExpense`, `CategorisedIsBooked`, `JobsFollowRows`, and with `LedgerStep`
`PipelineImplementsLedger`.

`WorkRunsOut` proves `WorkIsSpent`, for all finite sets of receipts, workers and requests, every retry budget
and all faults. `WorkIsAMeasure` is what makes it an argument: the work is never negative, and zero only of a
pipeline at rest. A step moves one message, one worker or one request,
or one of each of two kinds; `SumChanges` says what that does to a sum, the balance lemmas
(`WorkerBalance`, `WorkerSends`, `RequestBalance`, ...) what it does to the work, and `SpendStep` has one step
per action. `SafetyInv` is invariant enough: a busy worker holds a job whose tries are within the budget.

`ReceiptCarriedProofs` has what holds under some faults only. Each theorem excludes no more than it must.

- `InFlightRowsAreCarried` allows `worker_dies`, `insert_fails` and `delete_fails`. `InFlightIsCarried`
  says that a row in flight has a message or a task at a point from which it may move; to be inductive
  it must say which tasks will: `Carried` asks of an uploaded row for a task that will mark it
  (`WillMark`, which excludes a task that read `processing` already), of a parsed row for one that will
  book it or retry (`WillBook`), unless it is given up. Each of the other faults drops a message or ends a request that holds one.
- `RestIsSettled`, under the same faults: in a pipeline with no work left every row is settled or given up.
- `StrandedStays` proves `StrandedForGood`, under all faults.
- `NoBlobIsOrphaned` excludes `api_crash` and `delete_fails`.
- `FailedHasNoExpenseRunOnce` is about the finding `pipeline_retry_race`. With no user retry and no dying
  worker, under every other fault, no failed row has an expense. `OneRun` says that a receipt has one
  request, message or task at most that may still act on it; `BooksLast` that it is not booked before
  its run has come to the categorisation, after which no `process_receipt` is left to mark it failed.

The assumptions are the modules' `ASSUME`s, which TLC evaluates on every run: bounds are naturals,
`NoReceipt` is no receipt, `Faults` are fault kinds. Of `SettlesOrIsGivenUp`, `WorkRunsOut` and
`RestIsSettled` are the part that needs no fairness: the pipeline cannot go on for ever by itself, and
where it stops nothing is in flight but what is given up. That it does not stop before is fairness, and only model-checked.

## 4. Mail (`InboundEmail`, `InboundWebhook`, `GmailSync`, `MailIngestion`)

`InboundEmail` is `process_inbound_email` run by a session: `FindDuplicate`, then per attachment
`CreateReceipt`, `CreateCollides` (the partial unique index), `SkipAttachment`, `AttachmentTooLarge`,
`CreateFails`, `DispatchFails`, then `NoMoreAttachments`. `create_receipt` is one step here; its inner
steps are the pipeline's. `rows` counts the receipts of each attachment, so that a second row of one is
a state of the model; only `MessageIdFree`, the unique index, stands in its way when several sessions are
past the look-up. `stored` remembers the attachments that ever had one. One user: the dedup is per user.

`InboundWebhook` adds the provider, which posts a mail until it is answered 202 (`PostMail`,
`Respond`, `HandlerFails`). `GmailSync` adds Gmail's mailbox (history ids), Pub/Sub (`PushDelivered`,
`PushDuplicated`, `PushUnmatched`), the connection row (`Connect`, `Disconnect`) and the task:
`LoadConnection`, `SeedCursor` for a first push, `ListHistory` (all pages at once: the walk uses the
complete list), `FetchMail`, `MailIngested`, `AdvanceCursor`, and the ways to fail. `baseline` is a
history variable: mails up to it are not the connection's, because the cursor was seeded beyond them
or jumped there after Gmail's 404, both as ADR 0009 describes. A Gmail message id is not the
`Message-ID` header, so the two channels never share a mail.

`MailIngestion` composes the channels, which share sessions, the receipts table and the fault bound.

| Run | Instance | Shows |
|---|---|---|
| `mail_sync` | 2 workers, mails 1 (two receipts) and 2 (a receipt, then an attachment too large), 2 connections, 1 retry, 1 fault | `TypeOK`, `OneReceiptPerAttachment`, `CursorPassesHandledMail`, `CursorMovedByItsOwnJob` |
| `mail_delivery` | 2 webhook handlers, 1 worker, mail 1 pushed, mails 8 (too large, then a receipt) and 9 (a receipt) forwarded, 1 fault, fairness | `AcceptedMailIsHandled`, `PushedMailIsHandled`, `ForwardedMailIsAccepted` |
| `mail_attachments` | 1 worker, no fault | `AttachmentsAreIndependent` is violated: see findings |

`MaxFaults` bounds faults and removals (a receipt the user deletes, a mail deleted at Gmail, history
that expires). One is enough for each recovery path by itself; collisions of two workers, retries that
run out and stale connections need no fault. Two mails give a walk of two and two pushes out of order;
two connections give a job that outlives its row.

"Handled" means that the mail has yielded a receipt or has none to yield, because the code takes a
mail with one receipt for complete. That is weaker than ADR 0008; `mail_attachments` asks the
stronger question.

`ForwardedMailIsAccepted` has two halves. A mail whose walk meets an attachment above the limit before one
that it can store (`Oversized`) is answered 500 on every delivery, because `PayloadTooLargeError` is not
caught; every other mail is answered 202 in the end. An oversized attachment behind a receipt is no
obstacle: the second delivery finds the receipt and is answered 202.

Fairness: sessions run on, workers take messages, Pub/Sub and the provider go on delivering what is
not accepted. The provider repeats an oversized mail for ever and may keep the handlers busy with it, so
a delivery of another mail is possible again and again and not all the time: `PostMail` has strong
fairness per mail, the rest is weak. `PushedMailIsHandled` excuses a push whose job ran out of retries (Celery drops it),
a disconnect, and the baseline. A killed pool child drops the message as in section 3; it is not
repeated here. The model has no such fault, and `PushedMailIsHandled` would not survive it.

## 5. Expenses and corrections (`ExpenseEdit`)

A request reads the row in one statement and writes it in a later one; `client[c].seen` is the ORM's
copy in between. `Changes` are the columns the ORM finds dirty: named by the patch and different from
that copy. The `UPDATE` touches only those, so the other columns keep what the table holds by then.
An `UPDATE` of a deleted row raises (`PatchFails`), a `DELETE` of one does not.

| Variable | Code |
|---|---|
| `row[e]` | `expenses` row; `stamp` is `updated_at`, of which the ETag is a hash |
| `learned[m]` | `category_corrections`: category and `occurrence_count` |
| `held[c]` | the last copy of each expense a client received, whose ETag it sends as `If-Match` |
| `client[c]` | the request a client has open |
| `booker[b]` | `categorise_receipt` between `categorise_merchant` and its `INSERT` |

| Actions | Code |
|---|---|
| `CreateExpense`, `GetExpense`, `Refresh` | `create_expense`, `get_expense`, the `SELECT` for the answer |
| `PatchRead`, `PatchCommit` (with `RecordCorrection`), `PatchNothing`, `PatchFails` | `update_expense`, `_record_correction` |
| `DeleteRead`, `DeleteCommit` | `delete_expense` |
| `Categorise`, `BookExpense`, `BookFails` | `categorise_merchant`, `categorise_receipt` |

| Run | Instance | Shows |
|---|---|---|
| `expense_edit` | 2 clients, 1 worker, an expense that exists and one to come, 2 merchants (one with a rule and a correction that contradicts it), 2 categories, 4 patches, 2 writes | `TypeOK`, `ETagNamesContent`, `CorrectionsFollowEdits`, `BookedAsLearned` |
| `expense_stale_write` | the same without the worker | `StaleWritesAreRefused` is violated: see findings |

Two writes beyond the stored row suffice for a change and its reversal between a client's read and
its request (a copy then equals the row in content and not in stamp), and for a correction between a
worker's look-up and its booking. Deletes are not bounded. `clock_timestamp()` is taken to differ
between any two writes.

`ExpenseEditProofs` proves the four properties of `expense_edit` for every number of expenses, clients,
workers and writes. `TypeInv` adds that requests remember what they need, that a correction has a
category, and `LookupsAreOld`: what a worker looked up is at most as new as the table, and equal to it
when the counts agree. `TagInv` adds that no stamp is ahead of the clock, so that a write's stamp is
one no copy carries (`FreshWrite`). `StaleWritesAreRefused` does not hold; `SoleEditorIsSafe` proves it
for one client at a time: a matching ETag proves the copy current, and workers insert rows of their own.

A correction is keyed by the merchant as the request read it. When another editor renames the expense
before the `UPDATE`, the old merchant learns; nothing documents which one should, and
`CorrectionsFollowEdits` leaves it open.

## 6. Pages, reports and budgets (`Calendar`, `Insights`, `ExpensePages`, `Budgets`, `ExpenseReports`)

`Calendar` is date arithmetic: `MonthEnd` is `month_bounds`, `MonthsBack` the loop of `_months_back`,
`DayNumber` what subtracting a `timedelta` counts. `Insights` has the three reports as functions of
the user's rows; each is one `SELECT`, so one state of the table. Amounts are cents. `Mean` and
`Stddev` are the roundings of `CAST(... AS NUMERIC(12, 2))` in integer arithmetic; `HasBaseline` asks the
unrounded deviation, as the `HAVING` clause does, and `Reaches` divides by the rounded one. The
threshold is a fraction where the code has a double. `category_trends` takes the month of a row from
`date_trunc('month', expense_date)`, a `timestamptz` in the session's time zone; its `.date()` is the
month's first day when the session runs in UTC, which the model assumes. Nothing in the code sets a zone.

`ExpensePages` has the table, the writers (at their commits; `ExpenseEdit` has their inner steps) and one
client's walk: `StartWalk`, `NextPage` with the cursor it was given, `BadCursor`. `owed` and `seen` are
history: what matched when the walk began and what was returned, both without the rows written to
since, for which no list can promise anything.

`Budgets` is requests of several statements over the `budgets` table. `PatchBudget` is the `SELECT`;
`CommitPatch` writes the columns that differ from it over what the table holds by then, and may meet a
creation (`PatchConflicts`), a deletion (`PatchOfGoneBudget`) or another patch. A POST whose category
is taken is answered 409 and changes nothing. `Alert` compares doubles: `RoundsDown` lists the whole
percentages that come out below themselves after `/` and `* 100`, found by computing all of 1 to 200.

| Run | Instance | Shows |
|---|---|---|
| `reports` | 4 ids, 3 stored rows of a category (two on one day), pages of 2 with a filter, 1 write; 2 budget clients, 2 budgets (one paused), 3 patches, 2 writes; trends over 14 months, an anomaly report with a maximum of 1 | `OwedRowsAreAhead`, `SeenRowsAreBehind`, `TrendsAgreeWithBreakdowns`, `ChartHoldsAllSpend`, `RecentRowsDoNotScoreEachOther`, `OneBudgetPerCategory`, `StatusAgreesWithBreakdown`, `PatchesMerge`, `TypeOK` |
| `anomaly_division` | 5 rows whose amounts differ by a cent, one write | `AnomalyReportIsMade` is violated: see findings |

Two rows on one day make the cursor's tiebreak matter, and one write reaches every place around the
cursor; more writes and other page sizes are covered by the proofs (section 8). Fourteen months cross two
year boundaries; the three dates are the first and last day of a month and a day before the window.
`PausedBudget` is what a partial index would overlook. One patch sets a column to null.

## 7. Connecting Gmail (`GmailConsent`)

| Variable | Code |
|---|---|
| `issued` | the states `build_consent_url` signed: user and time |
| `grant[t]` | Google's side: a code, then the refresh token it was exchanged for, and its account |
| `conn[i]` | `gmail_connections` row: user, account, ciphertext (the token and the key that made it) |
| `callback[c]`, `remover[d]` | a GET `/callback` (its code, the user of its state), a DELETE between two of their statements and calls |
| `key`, `clock` | `GMAIL_TOKEN_ENCRYPTION_KEY`, seconds |
| `ended` | tokens that Google ended because it ended all that their account had granted (history) |

| Actions | Code |
|---|---|
| `Connect`, `Consent` | `build_consent_url`; Google's screen, as often as the URL is opened |
| `VerifyState`, `ExchangeCode`, `ExchangeFails`, `StoreToken`, `StoreFails` | `exchange_code`, `upsert_connection`, `callback` |
| `ReadConnection`, `SelectForDelete`, `ConnectionIsGone`, `DeleteConnection`, `RevokeToken`, `RevokeFails` | `disconnect`, `delete_connection`, `revoke_refresh_token` |
| `UserRevokes`, `Restart`, `Tick` | the account's settings at Google; a restart, perhaps with a new key; time |

`gmail_consent` has 2 users, 2 accounts, 2 codes, 2 rows, 2 callbacks, 2 disconnects, 2 keys, and a state
that is valid in the second it was signed in and stale in the next. That is every race of two
callbacks, of two disconnects and of one with the other; the theorems have no bounds. A redirect
that is loaded again is a second `VerifyState`.

The callback receives `code` and `state` as two parameters and nothing binds one to the other, so
`VerifyState` takes any code with any state that was signed and is fresh, and the row becomes that of the
state's user. No property therefore says that a row's user and account were joined on one consent screen:
the code does not establish it. The two properties hold for every pairing.

Whether Google ends one token or the account's whole grant when a token is revoked is Google's
choice, and the model leaves it open. In the second case a re-connect between the delete and the
revocation does lose its fresh token. `RowTokensAreLive` excuses a token that was ended so (and no
other: `ended` holds tokens, not accounts, and not the one a disconnect revokes), so it does not cover that
hazard and `PROJECT.json` lists it without a property. What it does say is that a disconnect's own token is
never one a row still has. Signatures are perfect: a state that was not signed changes nothing and has no
action. An answer of Google that refuses the code is `exchange_failed`; a call that fails altogether raises
`httpx.HTTPError`, which nothing catches, and the answer is 500. Both leave the state as it was (`ExchangeFails`).

## 8. Proofs about mail, consent, pages, budgets and reports

`MailIngestionProofs`. `MailInv` is what a reader of the task has in mind. `RowsHold`: an attachment has at
most one row, and a row was committed. `IngestHolds`: a session that
is past an attachment which is a receipt, or done, has its mail handled. `TaskHolds`: the cursor a task
has read passes handled mail only, as long as its row is there (`PassedAreHandled`: a baseline never goes
back); what it has walked is handled; and its list reaches its push, unless Gmail had forgotten.
`QueueHolds`: no job is ahead of the mailbox or names a row that was not created, so that a row which a
re-connect makes is no old job's. `AdvanceCursor` then needs all three: a mail at or before the push was
before the cursor that was read, or was walked. Results: the four invariants of the mail runs,
`CursorMovedByItsOwnJob`, and `SingleReceiptsAreAll`: where no mail has two receipts, `AttachmentsAreIndependent`,
which `mail_attachments` violates, holds. `OversizedMailIsRefused` is the second half of
`ForwardedMailIsAccepted`; its invariant `NoneOversized` says that no session is past an oversized attachment, no
row is of such a mail and none was accepted.

`GmailConsentProofs`. `ConsentInv` joins `CallbacksHold` (what a callback is about to store is exchanged and
live, or ended with its account), `RowsHold` (the same of a row's token, which is of the row's account),
`RemoversHold` (the token a disconnect has read is in the row it will delete, or in no row) and
`TokensAreApart`. Results: the two properties and the types.

`ExpenseReportsProofs` has three parts. *Pages*: the types and the two promises are inductive together. The
argument is about the order: `Newer` is a strict total order on rows of different ids, `Beyond` a cursor
is `Newer` read backwards, ranks in a list leave no gap (`RanksAreTaken`, by counting), and so a page is
what is not beyond its next cursor (`PageEndsAtCursor`). `PageKeepsPromises` is the step. *Budgets*:
`BudgetsInv` adds that a patch under way knows its budget and a row of it (`RequestsAreReal`);
`UpdatedIsRow` says that a merge of columns is a row again and takes each column from the table or the
patch. *Reports*: `TrendsAgree`, `NoSpendIsLost`, `ScoresStandAlone` and `StatusAgrees` state the four
properties of the reports for every reachable state. They are functions of the table, so that the types
are invariant enough; what is to prove is arithmetic, and that is in the next module.

`InsightsProofs` is about every finite set of expenses.

- Months are counted from year 0. `_months_back` ends and is subtraction, the months of a chart follow
  each other, every row of the window has one of them (`EveryRowHasABucket`), and a cell is the total of
  the rows that the breakdown of its month holds for the category (`CellsAreMonths`).
- Totals: a total is a sum, and grouping a sum loses nothing. So the grand total of a breakdown, which
  the code adds up from its lines, is the month's total (`GrandTotalIsMonth`), and the cells of a chart
  add up to its window (`CellsHoldWindow`).
- The deviation: `Stddev` chooses the number of cents whose half-cent interval holds the square root.
  `DeviationIsRounded` says that there is one, because `Spread` is at most n(n-1) times the square of the
  largest amount. `ReportFailsBelowHalfACent` is the exact condition of the division by zero.
- Scores: the two windows are apart (`WindowsAreApart`), since a day number follows the Gregorian
  calendar (`DaysAreCounted`); so the baseline of a score does not hold the expense that is scored, and
  `ScoresAreIndependent`. The cut of a full report needs that `MoreUnusual` is a strict partial order:
  in such an order a cut at n keeps n elements or all (`CutLeavesEnough`).

`FiniteSetFacts` is what these need of finite sets. The sums of the model are folds, functions that are
defined by recursion over the subsets of a set. `FiniteInduction` has a set of sets for its
hypothesis, and not an operator, so that the provers can use it; it follows from the well-foundedness
of strict inclusion. `SumIsSum` and `SumTakesAny` say that a sum exists and that it does not matter
which element it takes first; `SumOfUnion`, `SumOfGroups`, `SumChanges` and `SumOfNaturals` follow.

All of these assume only the modules' `ASSUME`s and what a theorem names. `ReportsAssumption` has the ranges that
the endpoint's `Query` bounds give the windows.

Every invariant and every action property of a passing run is a theorem, and so is that the pipeline
implements its ledger. What stays with TLC is liveness: `SettlesOrIsGivenUp`, `PushedMailIsHandled` and
the first half of `ForwardedMailIsAccepted` need fairness and ENABLED, which the prover does not have. Their theorems
would start from what is proved above: a row in flight is carried and the work runs out, and a cursor is
behind the work.

## 9. Findings

- `pipeline_retry_race`: `failed` is written on every transient attempt, so POST `/retry` accepts a row
  whose Celery retry is pending. Two jobs run; one books, the other marks the row failed. The
  docstring of `ReceiptNotRetryableError` and ADR 0005 say that only settled failures are retried. A
  worker that dies between sending the categorisation and acknowledging has the same effect without
  any user; `FailedHasNoExpenseRunOnce` says that these two are all.
- `pipeline_child_killed`: a child killed at the hard limit (or for memory) is acknowledged, since
  `task_reject_on_worker_lost` is left unset; `celery_app.py` says that a crash hands the job on.
- `mail_attachments`: all attachments of a mail share its message id under a unique index, so the
  second receipt is rejected and then taken for a duplicate. The docstring and ADR 0008 promise one
  receipt per attachment. Mails with one receipt are safe (`SingleReceiptsAreAll`).
- `expense_stale_write`: `If-Match` is compared with the row as read, and the write names the id only.
  A change that commits in between is overwritten or deleted unseen. ADR 0003 answers a stale
  `If-Match` with 412 and sees race windows only for clients that skip it. It takes a second client
  (`SoleEditorIsSafe`).
- `anomaly_division`: the deviation is compared with zero before it is rounded and divides after. Four
  amounts of 10.00 and one of 10.01 answer 500. Comment and ADR 0007 say the `HAVING` clause prevents
  the division by zero. It fails exactly for deviations below half a cent
  (`ReportFailsBelowHalfACent`).

Read from the code while modelling it, without a run of their own:

- `categorise_receipt` retries on every exception and never writes `failed`, so that a row whose last
  retry fails stays `parsed`, and POST `/retry` answers 409 for it. ADR 0005's diagram has `categorise fails` lead to
  `failed`. `pipeline_recovery` excepts these rows by name (`GivenUp`).
- An attachment above the limit makes `process_inbound_email` raise `PayloadTooLargeError`, which neither it
  nor the route catches. A mail with one before its receipts is answered 500 on every delivery and its other
  attachments are never stored (`OversizedMailIsRefused`). The route's docstring and ADR 0008 list no 500.
- The memory of a mail's delivery is the row it made. When the user deletes that, a late redelivery
  makes it again; the docstring of `process_inbound_email` says it creates nothing.
- An alert threshold of 29, 57, 58, 113, 114, 115 or 116 percent is not reached by exactly that share
  (`RoundsDown`): the double product is below the integer.
- An explicit `null` in a budget's PATCH is answered 409 "already exists".
- `disconnect` revokes the token of the row it read and not of the row it deleted, which
  `delete_connection` returns for that purpose. A re-grant in between leaves a live token nobody has.
  A second disconnect that finds the row gone at the second `SELECT` answers 500 and not 404.

## 10. What is not modelled

Pure functions over text and images (parser, OCR, preprocessing), key formatting, signature checks
(Pub/Sub's tokens, the state's HMAC), configuration, health and logging have no state two actors share.
Users and authentication are stateless tokens and one insert under a unique constraint. Ambiguous commits
(the answer of a commit is lost) are not in the pipeline. The frontend is not modelled: its races are
listed as hazards, and the models end at the API. Missing configuration and malformed input are
answered before any state changes and have no actions. A component's entry in `PROJECT.json` gives
its status.

## 11. Running

    tlc -config pipeline_safety.cfg MCReceiptPipeline.tla
    tlc -config mail_sync.cfg MCMailIngestion.tla
    tlc -config expense_edit.cfg MCExpenseEdit.tla
    tlc -config reports.cfg MCExpenseReports.tla
    tlc -config gmail_consent.cfg MCGmailConsent.tla
    tlapm ReceiptPipelineProofs.tla
    tlapm ExpenseReportsProofs.tla

and `tlapm` likewise for `FiniteSetFacts` and the other modules whose name ends in `Proofs`.
Each configuration names its module's instance. Deadlock checking is off everywhere: the system is at
rest when every message is handled and the bounds are used up. Operators whose comment starts with
"Mutant" are not part of the specification: each is a plausible bug in the definition that follows
it, and replacing that definition by it makes TLC refute one property (`PROJECT.json`, `mutants`).
