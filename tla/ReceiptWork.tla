----------------------------- MODULE ReceiptWork ------------------------------
(***************************************************************************)
(* How much work the receipt pipeline still holds: an upper bound on the   *)
(* steps that its requests, messages and running tasks can take before it  *)
(* stands still.  Retries are bounded by max_retries of each message, and  *)
(* process_receipt is the only task that publishes another one.            *)
(***************************************************************************)
EXTENDS ReceiptPipeline, Functions

\* No attempt at a task takes more steps than this, its message's delivery and
\* acknowledgement included.
StepsOfAttempt == 6

\* The attempts that a task at its t-th try has left.
AttemptsWork(t) == StepsOfAttempt * (MaxRetries + 1 - t)

\* A message: its own attempts, and those of the categorise_receipt to follow.
JobWork(j) ==
  AttemptsWork(j.tries) + IF j.task = "process" THEN AttemptsWork(0) ELSE 0

\* The steps of its attempt that a worker at pc has behind it.
StepsTaken(pc) ==
  CASE pc = "selected" -> 1
    [] pc \in {"ocr", "agree", "calling"} -> 2
    [] pc = "parsed" -> 3
    [] pc = "retry" -> 4

\* An upload: its INSERT and its enqueue, and what the message may cost.
UploadWork == 2 * AttemptsWork(0) + 2

\* What a worker or a request in state s holds.
WorkerHolds(s) ==
  CASE s.pc = "idle" -> 0
    [] s.pc = "ack" -> 1
    [] s.pc \notin {"idle", "ack"} -> JobWork(s.job) - StepsTaken(s.pc)
RequestHolds(s) ==
  CASE s.pc = "idle" -> 0
    [] s.pc \in {"cleanup", "unblob"} -> 1
    [] s.pc = "enqueue" -> UploadWork - 1
    [] s.pc \in {"insert", "reset"} -> UploadWork

QueueWork == [j \in Jobs |-> queue[j] * JobWork(j)]
WorkerWork == [w \in Workers |-> WorkerHolds(worker[w])]
RequestWork == [a \in Requests |-> RequestHolds(api[a])]

Work ==
  SumFunctionOnSet(QueueWork, Jobs) + SumFunctionOnSet(WorkerWork, Workers)
    + SumFunctionOnSet(RequestWork, Requests)

\* No message at the broker, no task and no request running.
AtRest ==
  /\ \A j \in Jobs : queue[j] = 0
  /\ \A w \in Workers : worker[w].pc = "idle"
  /\ \A a \in Requests : api[a].pc = "idle"

\* The work left is never negative, since no task tries more often than
\* max_retries allows, and there is none left only when all have come to rest.
WorkMeasures == Work >= 0 /\ (Work = 0 => AtRest)

\* Work comes in only with a call of the API or with a redelivery after a worker
\* died, and then no more than an upload's.
WorkComesIn ==
  /\ UserStep \/ \E w \in Workers : WorkerDies(w)
  /\ Work' <= Work + UploadWork

\* Requests, tasks and the other faults only use work up: however the tasks are
\* retried, publish one another, fail or race, a pipeline that users and
\* redeliveries leave alone comes to rest after at most Work steps.
WorkIsSpent == [][Work' < Work \/ WorkComesIn]_vars
=============================================================================
