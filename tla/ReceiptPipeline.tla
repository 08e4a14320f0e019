--------------------------- MODULE ReceiptPipeline ---------------------------
(***************************************************************************)
(* The receipt pipeline of the backend: an API request stores a blob and   *)
(* a receipts row and hands the row to Celery; process_receipt reads the   *)
(* blob and marks the row parsed or failed; categorise_receipt turns a     *)
(* parsed row into one expense.  Rows, blobs, queued messages and the      *)
(* program counters of the requests and of the workers are the state.      *)
(*                                                                         *)
(* A step is one database transaction, one object-store call or one broker *)
(* call: everything between two of them is local to its process.  Postgres *)
(* runs at READ COMMITTED, and the ORM writes UPDATE ... WHERE id = ...    *)
(* for the columns that changed, so a write has no guard on the status it  *)
(* replaces, and a write to a row that is gone raises StaleDataError.      *)
(*                                                                         *)
(* Celery and its Redis broker are external: messages are a bag (retry     *)
(* countdowns, several workers and redelivery leave no order to rely on).  *)
(***************************************************************************)
EXTENDS Naturals

CONSTANTS
  Receipts,        \* receipt ids that uuid4 may draw; one storage key each
  NoReceipt,       \* the receipt of an idle process
  Workers,         \* Celery worker processes
  Requests,        \* API request handlers that may run at once
  MaxRetries,      \* max_retries of both tasks (3 in the code)
  MaxUserRetries,  \* bound: accepted POST /receipts/{id}/retry calls
  Faults,          \* the kinds of fault that may happen, from FaultKinds
  MaxFaults        \* bound: faults that happen in a behaviour

FaultKinds ==
  { "insert_fails",   \* the INSERT of create_receipt raises
    "delete_fails",   \* the object store refuses a DELETE
    "dispatch_fails", \* .delay() / self.retry() cannot reach the broker
    "api_crash",      \* the API process dies inside a request
    "task_aborts",    \* a database error or the soft limit inside a task
    "worker_dies",    \* the worker's main process or its connection dies
    "child_killed" }    \* the task's child process is killed by task_time_limit

ASSUME NoReceiptAssumption == NoReceipt \notin Receipts
ASSUME BoundsAssumption ==
  /\ MaxRetries \in Nat
  /\ MaxUserRetries \in Nat
  /\ MaxFaults \in Nat
ASSUME FaultsAssumption == Faults \subseteq FaultKinds

VARIABLES
  row,         \* receipts table: status, or "none" / "deleted"
  blobs,       \* receipts whose object is in the bucket
  expenses,    \* expense rows booked from each receipt that still exist
  dropped,     \* receipts one of whose expenses the user deleted
  abandoned,   \* receipts whose categorise_receipt ran out of retries since the
               \* row was last parsed (history; no step reads it)
  queue,       \* messages the broker holds, a bag of jobs
  worker,      \* what each Celery worker runs
  api,         \* what each API request handler runs
  userRetries, \* accepted user retries so far (bounds the model)
  faults       \* faults so far (bounds the model)

vars == <<row, blobs, expenses, dropped, abandoned, queue, worker, api, userRetries, faults>>

-----------------------------------------------------------------------------
Status == {"uploaded", "processing", "parsed", "categorised", "failed"}
RowState == Status \cup {"none", "deleted"}
Jobs == [task: {"process", "categorise"}, receipt: Receipts, tries: 0..MaxRetries]
NoJob == [task |-> "none", receipt |-> NoReceipt, tries |-> 0]

WorkerPc == {"idle", "selected", "ocr", "parsed", "agree", "calling", "retry", "ack"}
ApiPc == {"idle", "insert", "cleanup", "enqueue", "reset", "unblob"}

IdleWorker == [pc |-> "idle", job |-> NoJob, seen |-> "none"]
IdleRequest == [pc |-> "idle", receipt |-> NoReceipt]

\* SELECT ... WHERE id = r finds the row.
Live(r) == row[r] \in Status

ProcessJob(r) == [task |-> "process", receipt |-> r, tries |-> 0]
CategoriseJob(r) == [task |-> "categorise", receipt |-> r, tries |-> 0]

\* Worker w runs task t and stands at pc.
At(w, t, pc) == worker[w].job.task = t /\ worker[w].pc = pc
Of(w) == worker[w].job.receipt

Send(j) == queue' = [queue EXCEPT ![j] = @ + 1]
Goto(w, pc) == worker' = [worker EXCEPT ![w].pc = pc]
SetStatus(r, s) == row' = [row EXCEPT ![r] = s]
Respond(a) == api' = [api EXCEPT ![a] = IdleRequest]

\* A fault of kind f happens in this step.
Fault(f) == f \in Faults /\ faults < MaxFaults /\ faults' = faults + 1

Init ==
  /\ row = [r \in Receipts |-> "none"]
  /\ blobs = {}
  /\ expenses = [r \in Receipts |-> 0]
  /\ dropped = {} /\ abandoned = {}
  /\ queue = [j \in Jobs |-> 0]
  /\ worker = [w \in Workers |-> IdleWorker]
  /\ api = [a \in Requests |-> IdleRequest]
  /\ userRetries = 0
  /\ faults = 0

-----------------------------------------------------------------------------
(* POST /receipts: put_object, then INSERT, then .delay(). *)

\* build_receipt_key draws a key nothing uses yet.
Fresh(r) ==
  /\ row[r] = "none" /\ r \notin blobs
  /\ \A a \in Requests : api[a].receipt # r

UploadPut(a, r) ==
  /\ api[a].pc = "idle" /\ Fresh(r)
  /\ blobs' = blobs \cup {r}
  /\ api' = [api EXCEPT ![a] = [pc |-> "insert", receipt |-> r]]
  /\ UNCHANGED <<row, expenses, dropped, abandoned, queue, worker, userRetries, faults>>

\* Mutant: the message is published before the row is committed.
UploadInsertEnqueueFirst(a) ==
  /\ api[a].pc = "insert"
  /\ Send(ProcessJob(api[a].receipt))
  /\ UNCHANGED <<row, blobs, expenses, dropped, abandoned, worker, api, userRetries, faults>>

UploadInsert(a) ==
  /\ api[a].pc = "insert"
  /\ SetStatus(api[a].receipt, "uploaded")
  /\ api' = [api EXCEPT ![a].pc = "enqueue"]
  /\ UNCHANGED <<blobs, expenses, dropped, abandoned, queue, worker, userRetries, faults>>

\* Mutant: the exception leaves the request without the compensating DELETE.
UploadInsertFailsNoCleanup(a) ==
  /\ api[a].pc = "insert" /\ Fault("insert_fails")
  /\ Respond(a)
  /\ UNCHANGED <<row, blobs, expenses, dropped, abandoned, queue, worker, userRetries>>

UploadInsertFails(a) ==
  /\ api[a].pc = "insert" /\ Fault("insert_fails")
  /\ api' = [api EXCEPT ![a].pc = "cleanup"]
  /\ UNCHANGED <<row, blobs, expenses, dropped, abandoned, queue, worker, userRetries>>

UploadCleanup(a) ==
  /\ api[a].pc = "cleanup"
  /\ blobs' = blobs \ {api[a].receipt}
  /\ Respond(a)
  /\ UNCHANGED <<row, expenses, dropped, abandoned, queue, worker, userRetries, faults>>

\* _enqueue_processing, for an upload and for a retry.
Enqueue(a) ==
  /\ api[a].pc = "enqueue"
  /\ Send(ProcessJob(api[a].receipt))
  /\ Respond(a)
  /\ UNCHANGED <<row, blobs, expenses, dropped, abandoned, worker, userRetries, faults>>

\* session.refresh raises on a row that is gone: no message is sent.
RefreshFails(a) ==
  /\ api[a].pc = "enqueue" /\ ~Live(api[a].receipt)
  /\ Respond(a)
  /\ UNCHANGED <<row, blobs, expenses, dropped, abandoned, queue, worker, userRetries, faults>>

EnqueueFails(a) ==
  /\ api[a].pc = "enqueue" /\ Fault("dispatch_fails")
  /\ Respond(a)
  /\ UNCHANGED <<row, blobs, expenses, dropped, abandoned, queue, worker, userRetries>>

-----------------------------------------------------------------------------
(* POST /receipts/{id}/retry: the status is checked in Python, on the row   *)
(* as it was read; the UPDATE does not check it again.                      *)

\* Mutant: any receipt may be retried.
RetryReadAny(a, r) ==
  /\ api[a].pc = "idle" /\ Live(r)
  /\ userRetries < MaxUserRetries
  /\ userRetries' = userRetries + 1
  /\ api' = [api EXCEPT ![a] = [pc |-> "reset", receipt |-> r]]
  /\ UNCHANGED <<row, blobs, expenses, dropped, abandoned, queue, worker, faults>>

RetryRead(a, r) ==
  /\ api[a].pc = "idle" /\ row[r] = "failed"
  /\ userRetries < MaxUserRetries
  /\ userRetries' = userRetries + 1
  /\ api' = [api EXCEPT ![a] = [pc |-> "reset", receipt |-> r]]
  /\ UNCHANGED <<row, blobs, expenses, dropped, abandoned, queue, worker, faults>>

RetryReset(a) ==
  /\ api[a].pc = "reset"
  /\ IF Live(api[a].receipt)
       THEN /\ SetStatus(api[a].receipt, "uploaded")
            /\ api' = [api EXCEPT ![a].pc = "enqueue"]
       ELSE UNCHANGED row /\ Respond(a)       \* StaleDataError
  /\ UNCHANGED <<blobs, expenses, dropped, abandoned, queue, worker, userRetries, faults>>

-----------------------------------------------------------------------------
(* DELETE /receipts/{id}: the row, then the blob.  DELETE /expenses/{id}.   *)

\* Mutant: the blob goes first.
DeleteBlobFirst(a, r) ==
  /\ api[a].pc = "idle" /\ Live(r)
  /\ blobs' = blobs \ {r}
  /\ api' = [api EXCEPT ![a] = [pc |-> "unblob", receipt |-> r]]
  /\ UNCHANGED <<row, expenses, dropped, abandoned, queue, worker, userRetries, faults>>

\* The SELECT before it only decides on 404: a row that goes between the two makes
\* the DELETE one that changes no row, so the step stands for both.
DeleteRow(a, r) ==
  /\ api[a].pc = "idle" /\ Live(r)
  /\ SetStatus(r, "deleted")
  /\ api' = [api EXCEPT ![a] = [pc |-> "unblob", receipt |-> r]]
  /\ UNCHANGED <<blobs, expenses, dropped, abandoned, queue, worker, userRetries, faults>>

DeleteBlob(a) ==
  /\ api[a].pc = "unblob"
  /\ blobs' = blobs \ {api[a].receipt}
  /\ Respond(a)
  /\ UNCHANGED <<row, expenses, dropped, abandoned, queue, worker, userRetries, faults>>

\* delete_receipt swallows the error; create_receipt's cleanup raises it.
BlobDeleteFails(a) ==
  /\ api[a].pc \in {"unblob", "cleanup"} /\ Fault("delete_fails")
  /\ Respond(a)
  /\ UNCHANGED <<row, blobs, expenses, dropped, abandoned, queue, worker, userRetries>>

ApiCrash(a) ==
  /\ api[a].pc # "idle" /\ Fault("api_crash")
  /\ Respond(a)
  /\ UNCHANGED <<row, blobs, expenses, dropped, abandoned, queue, worker, userRetries>>

DeleteExpense(r) ==
  /\ expenses[r] > 0
  /\ expenses' = [expenses EXCEPT ![r] = @ - 1]
  /\ dropped' = dropped \cup {r}
  /\ UNCHANGED <<row, blobs, abandoned, queue, worker, api, userRetries, faults>>

-----------------------------------------------------------------------------
(* Both tasks start by reading the row; a missing row ends the task.        *)

Deliver(w, j) ==
  /\ worker[w].pc = "idle" /\ queue[j] > 0
  /\ queue' = [queue EXCEPT ![j] = @ - 1]
  /\ worker' = [worker EXCEPT ![w] =
       [pc |-> IF Live(j.receipt) THEN "selected" ELSE "ack",
        job |-> j, seen |-> row[j.receipt]]]
  /\ UNCHANGED <<row, blobs, expenses, dropped, abandoned, api, userRetries, faults>>

(* process_receipt *)

\* The ORM emits no UPDATE when the row it read was "processing" already.
MarkProcessing(w) ==
  /\ At(w, "process", "selected")
  /\ IF worker[w].seen = "processing"
       THEN UNCHANGED row
       ELSE Live(Of(w)) /\ SetStatus(Of(w), "processing")
  /\ Goto(w, "ocr")
  /\ UNCHANGED <<blobs, expenses, dropped, abandoned, queue, api, userRetries, faults>>

OcrSucceeds(w) ==
  /\ At(w, "process", "ocr") /\ Live(Of(w)) /\ Of(w) \in blobs
  /\ SetStatus(Of(w), "parsed")
  /\ abandoned' = abandoned \ {Of(w)}
  /\ Goto(w, "parsed")
  /\ UNCHANGED <<blobs, expenses, dropped, queue, api, userRetries, faults>>

\* Mutant: the domain failure is logged and the row is left as it was.
OcrRejectsSilently(w) ==
  /\ At(w, "process", "ocr") /\ Live(Of(w)) /\ Of(w) \in blobs
  /\ Goto(w, "ack")
  /\ UNCHANGED <<row, blobs, expenses, dropped, abandoned, queue, api, userRetries, faults>>

\* _PipelineError: bytes that do not decode.  Not retried.
OcrRejects(w) ==
  /\ At(w, "process", "ocr") /\ Live(Of(w)) /\ Of(w) \in blobs
  /\ SetStatus(Of(w), "failed")
  /\ Goto(w, "ack")
  /\ UNCHANGED <<blobs, expenses, dropped, abandoned, queue, api, userRetries, faults>>

\* Any other exception, a missing blob included: the row is marked failed
\* and the exception reaches self.retry.
OcrErrors(w) ==
  /\ At(w, "process", "ocr") /\ Live(Of(w))
  /\ SetStatus(Of(w), "failed")
  /\ Goto(w, "retry")
  /\ UNCHANGED <<blobs, expenses, dropped, abandoned, queue, api, userRetries, faults>>

EnqueueCategorisation(w) ==
  /\ At(w, "process", "parsed")
  /\ Send(CategoriseJob(Of(w)))
  /\ Goto(w, "ack")
  /\ UNCHANGED <<row, blobs, expenses, dropped, abandoned, api, userRetries, faults>>

\* The dispatch is inside the try: a parsed row turns failed again.
EnqueueCategorisationFails(w) ==
  /\ At(w, "process", "parsed") /\ Fault("dispatch_fails")
  /\ row' = [row EXCEPT ![Of(w)] = IF Live(Of(w)) THEN "failed" ELSE @]
  /\ Goto(w, "retry")
  /\ UNCHANGED <<blobs, expenses, dropped, abandoned, queue, api, userRetries>>

(* categorise_receipt *)

\* An expense is found by receipt_id, which ON DELETE SET NULL clears.
HasExpense(r) == Live(r) /\ expenses[r] > 0

\* Guard 1: an expense exists; a row that was read as another status is to agree.
AlreadyBooked(w) ==
  /\ At(w, "categorise", "selected") /\ HasExpense(Of(w))
  /\ Goto(w, IF worker[w].seen = "categorised" THEN "ack" ELSE "agree")
  /\ UNCHANGED <<row, blobs, expenses, dropped, abandoned, queue, api, userRetries, faults>>

\* The commit of guard 1, whatever the row and the expense have become.
AgreeWithExpense(w) ==
  /\ At(w, "categorise", "agree") /\ Live(Of(w))
  /\ SetStatus(Of(w), "categorised")
  /\ Goto(w, "ack")
  /\ UNCHANGED <<blobs, expenses, dropped, abandoned, queue, api, userRetries, faults>>

\* Guard 2: the row, as it was read, is not parsed.
NotParsed(w) ==
  /\ At(w, "categorise", "selected") /\ ~HasExpense(Of(w))
  /\ worker[w].seen # "parsed"
  /\ Goto(w, "ack")
  /\ UNCHANGED <<row, blobs, expenses, dropped, abandoned, queue, api, userRetries, faults>>

\* Both guards passed: categorise_merchant is awaited.
CallCategoriser(w) ==
  /\ At(w, "categorise", "selected") /\ ~HasExpense(Of(w))
  /\ worker[w].seen = "parsed"
  /\ Goto(w, "calling")
  /\ UNCHANGED <<row, blobs, expenses, dropped, abandoned, queue, api, userRetries, faults>>

\* Mutant: no unique constraint on expenses.receipt_id.
ReceiptIdUnchecked(r) == TRUE

\* The unique constraint on expenses.receipt_id admits an INSERT for r.
ReceiptIdFree(r) == expenses[r] = 0

\* Mutant: the status is committed and the expense is left to a later commit.
BookStatusOnly(w) ==
  /\ At(w, "categorise", "calling") /\ Live(Of(w)) /\ ReceiptIdFree(Of(w))
  /\ SetStatus(Of(w), "categorised")
  /\ Goto(w, "ack")
  /\ UNCHANGED <<blobs, expenses, dropped, abandoned, queue, api, userRetries, faults>>

\* Mutant: the receipt is not checked when the expense is inserted.
BookBlindly(w) ==
  /\ At(w, "categorise", "calling") /\ ReceiptIdFree(Of(w))
  /\ expenses' = [expenses EXCEPT ![Of(w)] = @ + 1]
  /\ Goto(w, "ack")
  /\ UNCHANGED <<row, blobs, dropped, abandoned, queue, api, userRetries, faults>>

\* One transaction inserts the expense and advances the row.
Book(w) ==
  /\ At(w, "categorise", "calling") /\ Live(Of(w)) /\ ReceiptIdFree(Of(w))
  /\ expenses' = [expenses EXCEPT ![Of(w)] = @ + 1]
  /\ SetStatus(Of(w), "categorised")
  /\ Goto(w, "ack")
  /\ UNCHANGED <<blobs, dropped, abandoned, queue, api, userRetries, faults>>

\* The INSERT violates the unique constraint: nothing is committed.
BookCollides(w) ==
  /\ At(w, "categorise", "calling") /\ Live(Of(w)) /\ ~ReceiptIdFree(Of(w))
  /\ Goto(w, "retry")
  /\ UNCHANGED <<row, blobs, expenses, dropped, abandoned, queue, api, userRetries, faults>>

\* Any exception of the body after the guards (the payload, categorise_merchant, the
\* INSERT): it reaches self.retry with the row as it was, never marked failed.
CategoriseErrors(w) ==
  /\ At(w, "categorise", "calling")
  /\ Goto(w, "retry")
  /\ UNCHANGED <<row, blobs, expenses, dropped, abandoned, queue, api, userRetries, faults>>

(* What both tasks share: failing, retrying, acknowledging, dying. *)

\* The pending UPDATE finds no row: StaleDataError, and the FAILED marker of
\* the except clause fails on the same session.
StaleWrite(w) ==
  /\ \/ At(w, "process", "selected") /\ worker[w].seen # "processing"
     \/ At(w, "process", "ocr")
     \/ At(w, "categorise", "agree") \/ At(w, "categorise", "calling")
  /\ ~Live(Of(w))
  /\ Goto(w, "retry")
  /\ UNCHANGED <<row, blobs, expenses, dropped, abandoned, queue, api, userRetries, faults>>

\* A database error, or SoftTimeLimitExceeded raised into the event loop:
\* the task ends with the row as the last commit left it.
TaskAborts(w) ==
  /\ worker[w].pc \in {"selected", "ocr", "parsed", "agree", "calling"} /\ Fault("task_aborts")
  /\ Goto(w, "retry")
  /\ UNCHANGED <<row, blobs, expenses, dropped, abandoned, queue, api, userRetries>>

\* Mutant: the task is run again in place, with no bound on the attempts.
RetryInPlace(w) ==
  /\ worker[w].pc = "retry"
  /\ worker' = [worker EXCEPT ![w].pc = "selected", ![w].job.tries = @ + 1]
  /\ UNCHANGED <<row, blobs, expenses, dropped, abandoned, queue, api, userRetries, faults>>

\* Mutant: the task is published afresh, which resets request.retries.
RetryAfresh(w) ==
  /\ worker[w].pc = "retry" /\ worker[w].job.tries < MaxRetries
  /\ Send([worker[w].job EXCEPT !.tries = 0])
  /\ Goto(w, "ack")
  /\ UNCHANGED <<row, blobs, expenses, dropped, abandoned, api, userRetries, faults>>

\* self.retry: a new message, then the old one is acknowledged.
Retry(w) ==
  /\ worker[w].pc = "retry" /\ worker[w].job.tries < MaxRetries
  /\ Send([worker[w].job EXCEPT !.tries = @ + 1])
  /\ Goto(w, "ack")
  /\ UNCHANGED <<row, blobs, expenses, dropped, abandoned, api, userRetries, faults>>

\* self.retry raises what it was given: the task has failed, the row is left alone.
GiveUp(w) ==
  /\ worker[w].pc = "retry" /\ worker[w].job.tries = MaxRetries
  /\ abandoned' = abandoned \cup {r \in {Of(w)} : worker[w].job.task = "categorise"}
  /\ Goto(w, "ack")
  /\ UNCHANGED <<row, blobs, expenses, dropped, queue, api, userRetries, faults>>

RetryDispatchFails(w) ==
  /\ worker[w].pc = "retry" /\ Fault("dispatch_fails")
  /\ Goto(w, "ack")
  /\ UNCHANGED <<row, blobs, expenses, dropped, abandoned, queue, api, userRetries>>

Ack(w) ==
  /\ worker[w].pc = "ack"
  /\ worker' = [worker EXCEPT ![w] = IdleWorker]
  /\ UNCHANGED <<row, blobs, expenses, dropped, abandoned, queue, api, userRetries, faults>>

\* Mutant: acknowledged on receipt, task_acks_late = False.
WorkerDiesAckedEarly(w) ==
  /\ worker[w].pc # "idle" /\ Fault("worker_dies")
  /\ worker' = [worker EXCEPT ![w] = IdleWorker]
  /\ UNCHANGED <<row, blobs, expenses, dropped, abandoned, queue, api, userRetries>>

\* task_acks_late: the unacknowledged message is delivered again.
WorkerDies(w) ==
  /\ worker[w].pc # "idle" /\ Fault("worker_dies")
  /\ Send(worker[w].job)
  /\ worker' = [worker EXCEPT ![w] = IdleWorker]
  /\ UNCHANGED <<row, blobs, expenses, dropped, abandoned, api, userRetries>>

\* The pool child that runs the task is killed: the worker acknowledges the
\* message (task_reject_on_worker_lost and task_acks_on_failure_or_timeout are
\* left at their defaults).
ChildKilled(w) ==
  /\ worker[w].pc \notin {"idle", "ack"} /\ Fault("child_killed")
  /\ worker' = [worker EXCEPT ![w] = IdleWorker]
  /\ UNCHANGED <<row, blobs, expenses, dropped, abandoned, queue, api, userRetries>>

-----------------------------------------------------------------------------
UserStep ==
  \/ \E a \in Requests, r \in Receipts :
       UploadPut(a, r) \/ RetryRead(a, r) \/ DeleteRow(a, r)
  \/ \E r \in Receipts : DeleteExpense(r)

RequestStep(a) ==
  \/ UploadInsert(a) \/ UploadCleanup(a) \/ Enqueue(a) \/ RefreshFails(a)
  \/ RetryReset(a) \/ DeleteBlob(a)

ProcessStep(w) ==
  \/ MarkProcessing(w) \/ OcrSucceeds(w) \/ OcrRejects(w) \/ OcrErrors(w)
  \/ EnqueueCategorisation(w)

CategoriseStep(w) ==
  \/ AlreadyBooked(w) \/ AgreeWithExpense(w) \/ NotParsed(w)
  \/ CallCategoriser(w) \/ Book(w) \/ BookCollides(w) \/ CategoriseErrors(w)

WorkerStep(w) ==
  \/ \E j \in Jobs : Deliver(w, j)
  \/ ProcessStep(w) \/ CategoriseStep(w)
  \/ StaleWrite(w) \/ Retry(w) \/ GiveUp(w) \/ Ack(w)

FaultStep ==
  \/ \E a \in Requests :
       UploadInsertFails(a) \/ EnqueueFails(a) \/ BlobDeleteFails(a) \/ ApiCrash(a)
  \/ \E w \in Workers :
       \/ EnqueueCategorisationFails(w) \/ TaskAborts(w) \/ RetryDispatchFails(w)
       \/ WorkerDies(w) \/ ChildKilled(w)

Next ==
  \/ UserStep
  \/ \E a \in Requests : RequestStep(a)
  \/ \E w \in Workers : WorkerStep(w)
  \/ FaultStep

Spec == Init /\ [][Next]_vars

\* A request that started runs on, and a worker takes the messages the broker
\* holds and runs each task to its end.  Users and faults owe nothing.
Fairness ==
  /\ \A a \in Requests : WF_vars(RequestStep(a))
  /\ \A w \in Workers : WF_vars(WorkerStep(w))

FairSpec == Spec /\ Fairness

-----------------------------------------------------------------------------
\* Types: statuses of the enum, tries within max_retries, every worker and request
\* at a point of the code with a job or receipt that fits.
TypeOK ==
  /\ row \in [Receipts -> RowState]
  /\ blobs \in SUBSET Receipts
  /\ expenses \in [Receipts -> Nat]
  /\ dropped \in SUBSET Receipts
  /\ abandoned \in SUBSET Receipts
  /\ queue \in [Jobs -> Nat]
  /\ worker \in [Workers -> [pc: WorkerPc, job: Jobs \cup {NoJob}, seen: RowState]]
  /\ api \in [Requests -> [pc: ApiPc, receipt: Receipts \cup {NoReceipt}]]
  /\ userRetries \in 0..MaxUserRetries
  /\ faults \in 0..MaxFaults

-----------------------------------------------------------------------------
(* Safety under every fault. *)

\* A row never points at an object that is gone: create_receipt writes the
\* object first and delete_receipt deletes it last, whatever fails between.
RowHasBlob == \A r \in Receipts : Live(r) => r \in blobs

\* Two workers on one receipt, a redelivery or a user's retry never leave two
\* expenses for one receipt (unique constraint on expenses.receipt_id).
OneExpensePerReceipt == \A r \in Receipts : expenses[r] <= 1

\* A receipt that reads "categorised" has, or had until its user deleted it,
\* the expense that the status promises (one commit for both).
CategorisedWasBooked ==
  \A r \in Receipts : row[r] = "categorised" => expenses[r] > 0 \/ r \in dropped

\* A task that finds no row may treat it as deleted (process_receipt returns
\* without a retry): no message is published before its row is committed.
JobsNameCommittedRows ==
  \A r \in Receipts : row[r] = "none" =>
    /\ \A j \in Jobs : j.receipt = r => queue[j] = 0
    /\ \A w \in Workers : Of(w) # r

-----------------------------------------------------------------------------
(* Safety when messages are not dropped. *)

QueuedTask(t, r) == \E j \in Jobs : j.task = t /\ j.receipt = r /\ queue[j] > 0
RunningAt(t, r, pcs) ==
  \E w \in Workers : worker[w].job.task = t /\ Of(w) = r /\ worker[w].pc \in pcs

\* The row was parsed, and the categorisation that followed ran out of retries.
GivenUp(r) == row[r] = "parsed" /\ r \in abandoned

\* A row that is not settled is in somebody's hands: a request about to
\* enqueue it, a message, or a worker at a point from which it will move the
\* row on or try again.  The one exception is a parsed row whose categorisation
\* failed at every try: self.retry gives up and nothing marks the row.
InFlightIsCarried ==
  \A r \in Receipts :
    /\ row[r] \in {"uploaded", "processing"} =>
         \/ \E a \in Requests : api[a].pc = "enqueue" /\ api[a].receipt = r
         \/ QueuedTask("process", r)
         \/ RunningAt("process", r, {"selected", "ocr"})
    /\ row[r] = "parsed" =>
         \/ QueuedTask("process", r) \/ QueuedTask("categorise", r)
         \/ RunningAt("process", r, {"selected", "parsed"})
         \/ RunningAt("categorise", r, {"selected", "agree", "calling", "retry"})
         \/ GivenUp(r)

\* An object without a row is one that a request is still to insert the row
\* of or to delete: create_receipt compensates a failed INSERT.
NoOrphanBlob ==
  \A r \in blobs : Live(r) \/
    \E a \in Requests : api[a].receipt = r /\ api[a].pc \in {"insert", "cleanup", "unblob"}

\* What ADR 0005 and the retry endpoint's docstring take for granted: a failed
\* row has produced no expense, so running it again cannot meet one.
FailedHasNoExpense == \A r \in Receipts : row[r] = "failed" => expenses[r] = 0

-----------------------------------------------------------------------------
(* Liveness, and where it ends.  Clients poll until a receipt is settled.   *)

InFlight(r) == row[r] \in {"uploaded", "processing", "parsed"}

\* A receipt in flight reaches "categorised" or "failed" or is deleted, through every
\* retry, rejection and redelivery, or its categorisation has run out of retries.
SettlesOrIsGivenUp == \A r \in Receipts : InFlight(r) ~> ~InFlight(r) \/ GivenUp(r)

\* No request is to reset or enqueue r, no message names it and no task runs on it.
Unattended(r) ==
  /\ \A a \in Requests : api[a].receipt = r => api[a].pc \notin {"reset", "enqueue"}
  /\ \A j \in Jobs : j.receipt = r => queue[j] = 0
  /\ \A w \in Workers : Of(w) # r

\* What is given up in flight is lost to the user: the row is neither marked failed
\* nor taken up again (POST /retry answers 409 for it), only deleted.
StrandedForGood ==
  [][\A r \in Receipts : InFlight(r) /\ Unattended(r) =>
       row'[r] \in {row[r], "deleted"} /\ Unattended(r)']_vars

-----------------------------------------------------------------------------
(* The ledger of receipts and expenses that the pipeline implements. *)

Ledger == INSTANCE ReceiptLedger WITH
  shelf <- [r \in Receipts |-> IF Live(r) THEN "live" ELSE row[r]]

\* The pipeline implements the ledger (ReceiptLedger): an expense is booked
\* only from a receipt that exists at that moment and has none.
ImplementsLedger == Ledger!Spec
=============================================================================
