------------------------ MODULE ReceiptCarriedProofs -------------------------
(***************************************************************************)
(* What holds of a receipt under some faults and not under others, for     *)
(* every number of receipts, workers and requests: a row in flight is in   *)
(* somebody's hands, no object is left without a row, and a failed row has *)
(* no expense.  Each theorem names the faults that it excludes.            *)
(***************************************************************************)
EXTENDS ReceiptPipelineProofs

-----------------------------------------------------------------------------
(* The inductive invariant behind InFlightIsCarried. *)

Enqueuing(r) == \E a \in Requests : api[a].pc = "enqueue" /\ api[a].receipt = r

\* A process_receipt that will write "processing".
WillMark(r) ==
  \E w \in Workers : At(w, "process", "selected") /\ Of(w) = r /\ worker[w].seen # "processing"

\* A categorise_receipt that will pass guard 2, or has come past it.
WillBook(r) ==
  \E w \in Workers :
    /\ worker[w].job.task = "categorise" /\ Of(w) = r
    /\ \/ worker[w].pc = "selected" /\ worker[w].seen = "parsed"
       \/ worker[w].pc \in {"agree", "calling", "retry"}

CarriedAt(r) ==
  /\ row[r] = "uploaded" =>
       Enqueuing(r) \/ QueuedTask("process", r) \/ WillMark(r)
  /\ row[r] = "processing" =>
       \/ Enqueuing(r) \/ QueuedTask("process", r)
       \/ RunningAt("process", r, {"selected", "ocr"})
  /\ row[r] = "parsed" =>
       \/ QueuedTask("process", r) \/ WillMark(r) \/ RunningAt("process", r, {"parsed"})
       \/ QueuedTask("categorise", r) \/ WillBook(r) \/ r \in abandoned

Carried == \A r \in Receipts : CarriedAt(r)

-----------------------------------------------------------------------------
(* Objects and rows. *)

\* An object without a row stays some request's to insert or to delete.
LEMMA OrphanStep ==
  ASSUME Faults \cap {"api_crash", "delete_fails"} = {}, SafetyInv, NoOrphanBlob, [Next]_vars
  PROVE  NoOrphanBlob'
<1> USE DEF SafetyInv, TypeOK, ProcessesHold, NoOrphanBlob, RowState, Status, ApiPc, Jobs, Live, Of
<1>1. ASSUME NEW a \in Requests, NEW r \in Receipts, UploadPut(a, r)
      PROVE  NoOrphanBlob'
  BY <1>1 DEF UploadPut, Fresh
<1>2. ASSUME NEW a \in Requests, NEW r \in Receipts, RetryRead(a, r)
      PROVE  NoOrphanBlob'
  BY <1>2 DEF RetryRead
<1>3. ASSUME NEW a \in Requests, NEW r \in Receipts, DeleteRow(a, r)
      PROVE  NoOrphanBlob'
  BY <1>3 DEF DeleteRow, SetStatus
<1>4. ASSUME NEW r \in Receipts, DeleteExpense(r)
      PROVE  NoOrphanBlob'
  BY <1>4 DEF DeleteExpense
<1>5. ASSUME NEW a \in Requests, UploadInsert(a)
      PROVE  NoOrphanBlob'
  BY <1>5 DEF UploadInsert, SetStatus
<1>6. ASSUME NEW a \in Requests, UploadCleanup(a)
      PROVE  NoOrphanBlob'
  BY <1>6 DEF UploadCleanup, Respond, IdleRequest
<1>7. ASSUME NEW a \in Requests, Enqueue(a)
      PROVE  NoOrphanBlob'
  BY <1>7 DEF Enqueue, ProcessJob, Send, Respond, IdleRequest
<1>8. ASSUME NEW a \in Requests, RefreshFails(a)
      PROVE  NoOrphanBlob'
  BY <1>8 DEF RefreshFails, Respond, IdleRequest
<1>9. ASSUME NEW a \in Requests, RetryReset(a)
      PROVE  NoOrphanBlob'
  <2>1. CASE Live(api[a].receipt)
    BY <1>9, <2>1 DEF RetryReset, SetStatus
  <2>2. CASE ~Live(api[a].receipt)
    BY <1>9, <2>2 DEF RetryReset, Respond, IdleRequest
  <2> QED
    BY <2>1, <2>2
<1>10. ASSUME NEW a \in Requests, DeleteBlob(a)
       PROVE  NoOrphanBlob'
  BY <1>10 DEF DeleteBlob, Respond, IdleRequest
<1>11. ASSUME NEW w \in Workers, NEW j \in Jobs, Deliver(w, j)
       PROVE  NoOrphanBlob'
  BY <1>11 DEF Deliver
<1>12. ASSUME NEW w \in Workers, MarkProcessing(w)
       PROVE  NoOrphanBlob'
  BY <1>12 DEF MarkProcessing, SetStatus, Goto, At
<1>13. ASSUME NEW w \in Workers, OcrSucceeds(w)
       PROVE  NoOrphanBlob'
  BY <1>13 DEF OcrSucceeds, SetStatus, Goto, At
<1>14. ASSUME NEW w \in Workers, OcrRejects(w)
       PROVE  NoOrphanBlob'
  BY <1>14 DEF OcrRejects, SetStatus, Goto, At
<1>15. ASSUME NEW w \in Workers, OcrErrors(w)
       PROVE  NoOrphanBlob'
  BY <1>15 DEF OcrErrors, SetStatus, Goto, At
<1>16. ASSUME NEW w \in Workers, EnqueueCategorisation(w)
       PROVE  NoOrphanBlob'
  BY <1>16 DEF EnqueueCategorisation, CategoriseJob, Send, Goto, At
<1>17. ASSUME NEW w \in Workers, AlreadyBooked(w)
       PROVE  NoOrphanBlob'
  BY <1>17 DEF AlreadyBooked, HasExpense, Goto, At
<1>17a. ASSUME NEW w \in Workers, AgreeWithExpense(w)
        PROVE  NoOrphanBlob'
  BY <1>17a DEF AgreeWithExpense, SetStatus, Goto, At
<1>18. ASSUME NEW w \in Workers, NotParsed(w)
       PROVE  NoOrphanBlob'
  BY <1>18 DEF NotParsed, HasExpense, Goto, At
<1>19. ASSUME NEW w \in Workers, CallCategoriser(w)
       PROVE  NoOrphanBlob'
  BY <1>19 DEF CallCategoriser, HasExpense, Goto, At
<1>20. ASSUME NEW w \in Workers, Book(w)
       PROVE  NoOrphanBlob'
  BY <1>20 DEF Book, ReceiptIdFree, SetStatus, Goto, At
<1>21. ASSUME NEW w \in Workers, BookCollides(w)
       PROVE  NoOrphanBlob'
  BY <1>21 DEF BookCollides, ReceiptIdFree, Goto, At
<1>21a. ASSUME NEW w \in Workers, CategoriseErrors(w)
        PROVE  NoOrphanBlob'
  BY <1>21a DEF CategoriseErrors, Goto, At
<1>22. ASSUME NEW w \in Workers, StaleWrite(w)
       PROVE  NoOrphanBlob'
  BY <1>22 DEF StaleWrite, Goto, At
<1>23. ASSUME NEW w \in Workers, Retry(w)
       PROVE  NoOrphanBlob'
  BY <1>23 DEF Retry, Send, Goto
<1>24. ASSUME NEW w \in Workers, GiveUp(w)
       PROVE  NoOrphanBlob'
  BY <1>24 DEF GiveUp, Goto
<1>25. ASSUME NEW w \in Workers, Ack(w)
       PROVE  NoOrphanBlob'
  BY <1>25 DEF Ack, IdleWorker, NoJob
<1>26. ASSUME NEW a \in Requests, UploadInsertFails(a)
       PROVE  NoOrphanBlob'
  BY <1>26 DEF UploadInsertFails, Fault
<1>27. ASSUME NEW a \in Requests, EnqueueFails(a)
       PROVE  NoOrphanBlob'
  BY <1>27 DEF EnqueueFails, Respond, Fault, IdleRequest
<1>28. ASSUME NEW a \in Requests, BlobDeleteFails(a)
       PROVE  NoOrphanBlob'
  BY <1>28 DEF BlobDeleteFails, Respond, Fault, IdleRequest
<1>29. ASSUME NEW a \in Requests, ApiCrash(a)
       PROVE  NoOrphanBlob'
  BY <1>29 DEF ApiCrash, Respond, Fault, IdleRequest
<1>30. ASSUME NEW w \in Workers, EnqueueCategorisationFails(w)
       PROVE  NoOrphanBlob'
  BY <1>30 DEF EnqueueCategorisationFails, Goto, At, Fault
<1>31. ASSUME NEW w \in Workers, TaskAborts(w)
       PROVE  NoOrphanBlob'
  BY <1>31 DEF TaskAborts, Goto, Fault
<1>32. ASSUME NEW w \in Workers, RetryDispatchFails(w)
       PROVE  NoOrphanBlob'
  BY <1>32 DEF RetryDispatchFails, Goto, Fault
<1>33. ASSUME NEW w \in Workers, WorkerDies(w)
       PROVE  NoOrphanBlob'
  BY <1>33 DEF WorkerDies, Send, Fault, IdleWorker, NoJob
<1>34. ASSUME NEW w \in Workers, ChildKilled(w)
       PROVE  NoOrphanBlob'
  BY <1>34 DEF ChildKilled, Fault, IdleWorker, NoJob
<1>35. CASE UNCHANGED vars
  BY <1>35 DEF vars
<1> QED
  BY <1>1, <1>2, <1>3, <1>4, <1>5, <1>6, <1>7, <1>8, <1>9, <1>10, <1>11, <1>12, <1>13,
    <1>14, <1>15, <1>16, <1>17, <1>17a, <1>18, <1>19, <1>20, <1>21, <1>21a, <1>22, <1>23,
    <1>24, <1>25, <1>26, <1>27, <1>28, <1>29, <1>30, <1>31, <1>32, <1>33, <1>34, <1>35
    DEF Next, UserStep, RequestStep, ProcessStep, CategoriseStep, WorkerStep,
      FaultStep

-----------------------------------------------------------------------------
(* Messages, workers and rows. *)

\* A message that is sent is queued, and those that were queued still are.
LEMMA Sent ==
  ASSUME TypeOK, NEW j \in Jobs, Send(j)
  PROVE  /\ QueuedTask(j.task, j.receipt)'
         /\ \A t, r : QueuedTask(t, r) => QueuedTask(t, r)'
<1>1. queue'[j] > 0 /\ \A k \in Jobs : queue[k] > 0 => queue'[k] > 0
  BY DEF Send, TypeOK
<1> QED
  BY <1>1 DEF QueuedTask

\* A worker that dies, retries or finishes takes along only what it carried:
\* the other workers keep carrying what they carried.
LEMMA OthersKeep ==
  ASSUME NEW w \in Workers, \A v \in Workers : v # w => worker'[v] = worker[v],
         NEW r \in Receipts
  PROVE  /\ (worker[w].pc # "selected" \/ Of(w) # r) /\ WillMark(r) => WillMark(r)'
         /\ (worker[w].pc \notin {"selected", "ocr"} \/ Of(w) # r)
              /\ RunningAt("process", r, {"selected", "ocr"})
            => RunningAt("process", r, {"selected", "ocr"})'
         /\ (worker[w].pc # "parsed" \/ Of(w) # r) /\ RunningAt("process", r, {"parsed"})
            => RunningAt("process", r, {"parsed"})'
         /\ (\/ worker[w].pc \notin {"selected", "agree", "calling", "retry"}
             \/ worker[w].job.task # "categorise" \/ Of(w) # r) /\ WillBook(r)
            => WillBook(r)'
BY DEF WillMark, RunningAt, WillBook, At, Of

\* Whoever carries a row hands it on: a request to the queue, the queue to a
\* worker, a worker to the queue or to the row's final status.
LEMMA CarriedStep ==
  ASSUME Faults \subseteq {"worker_dies", "insert_fails", "delete_fails"},
         SafetyInv, Carried, [Next]_vars
  PROVE  Carried'
<1> SUFFICES ASSUME NEW q \in Receipts
             PROVE  CarriedAt(q)'
  BY DEF Carried
<1>0. CarriedAt(q)
  BY DEF Carried
<1> USE NoReceiptAssumption DEF SafetyInv, TypeOK, ProcessesHold, RequestsKnow,
    UploadsAreAlone, RowState, Status, WorkerPc, ApiPc, Jobs, Live
<1>1. ASSUME NEW a \in Requests, NEW r \in Receipts, UploadPut(a, r)
      PROVE  CarriedAt(q)'
  BY SMTT(20), <1>1, <1>0
    DEF UploadPut, Fresh, At, Of, CarriedAt, Enqueuing, WillMark, WillBook,
      RunningAt, QueuedTask
<1>2. ASSUME NEW a \in Requests, NEW r \in Receipts, RetryRead(a, r)
      PROVE  CarriedAt(q)'
  BY SMTT(20), <1>2, <1>0
    DEF RetryRead, At, Of, CarriedAt, Enqueuing, WillMark, WillBook, RunningAt,
      QueuedTask
<1>3. ASSUME NEW a \in Requests, NEW r \in Receipts, DeleteRow(a, r)
      PROVE  CarriedAt(q)'
  BY SMTT(20), <1>3, <1>0
    DEF DeleteRow, SetStatus, At, Of, CarriedAt, Enqueuing, WillMark, WillBook,
      RunningAt, QueuedTask
<1>4. ASSUME NEW r \in Receipts, DeleteExpense(r)
      PROVE  CarriedAt(q)'
  BY SMTT(20), <1>4, <1>0
    DEF DeleteExpense, At, Of, CarriedAt, Enqueuing, WillMark, WillBook, RunningAt,
      QueuedTask
<1>5. ASSUME NEW a \in Requests, UploadInsert(a)
      PROVE  CarriedAt(q)'
  BY SMTT(20), <1>5, <1>0
    DEF UploadInsert, SetStatus, At, Of, CarriedAt, Enqueuing, WillMark, WillBook,
      RunningAt, QueuedTask
<1>6. ASSUME NEW a \in Requests, UploadCleanup(a)
      PROVE  CarriedAt(q)'
  BY SMTT(20), <1>6, <1>0
    DEF UploadCleanup, Respond, IdleRequest, At, Of, CarriedAt, Enqueuing, WillMark,
      WillBook, RunningAt, QueuedTask
<1>7. ASSUME NEW a \in Requests, Enqueue(a)
      PROVE  CarriedAt(q)'
  <2>1. UNCHANGED <<row, expenses, abandoned, worker>>
    BY <1>7 DEF Enqueue
  <2>2. PICK r \in Receipts : r = api[a].receipt
    BY <1>7 DEF Enqueue
  <2>3. ProcessJob(r) \in Jobs /\ Send(ProcessJob(r))
    BY <1>7, <2>2, BoundsAssumption DEF Enqueue, ProcessJob
  <2>4. QueuedTask("process", r)' /\ \A t, p : QueuedTask(t, p) => QueuedTask(t, p)'
    BY <2>3, Sent DEF ProcessJob
  <2>5. r # q /\ Enqueuing(q) => Enqueuing(q)'
    BY <1>7, <2>2 DEF Enqueue, Respond, Enqueuing
  <2> QED
    BY <1>0, <2>1, <2>4, <2>5 DEF CarriedAt, WillMark, RunningAt, WillBook, At, Of
<1>8. ASSUME NEW a \in Requests, RefreshFails(a)
      PROVE  CarriedAt(q)'
  BY SMTT(20), <1>8, <1>0
    DEF RefreshFails, Respond, IdleRequest, At, Of, CarriedAt, Enqueuing, WillMark,
      WillBook, RunningAt, QueuedTask
<1>9. ASSUME NEW a \in Requests, RetryReset(a)
      PROVE  CarriedAt(q)'
  <2>1. CASE api[a].receipt = q
    BY SMTT(20), <1>9, <1>0, <2>1
      DEF RetryReset, SetStatus, Respond, IdleRequest, At, Of, CarriedAt, Enqueuing,
        WillMark, WillBook, RunningAt, QueuedTask
  <2>2. CASE api[a].receipt # q
    BY SMTT(20), <1>9, <1>0, <2>2
      DEF RetryReset, SetStatus, Respond, IdleRequest, At, Of, CarriedAt, Enqueuing,
        WillMark, WillBook, RunningAt, QueuedTask
  <2> QED
    BY <2>1, <2>2
<1>10. ASSUME NEW a \in Requests, DeleteBlob(a)
       PROVE  CarriedAt(q)'
  BY SMTT(20), <1>10, <1>0
    DEF DeleteBlob, Respond, IdleRequest, At, Of, CarriedAt, Enqueuing, WillMark,
      WillBook, RunningAt, QueuedTask
<1>11. ASSUME NEW w \in Workers, NEW j \in Jobs, Deliver(w, j)
       PROVE  CarriedAt(q)'
  <2>1. CASE j.receipt = q
    BY SMTT(20), <1>11, <1>0, <2>1
      DEF Deliver, At, Of, CarriedAt, Enqueuing, WillMark, WillBook, RunningAt,
        QueuedTask
  <2>2. CASE j.receipt # q
    BY SMTT(20), <1>11, <1>0, <2>2
      DEF Deliver, At, Of, CarriedAt, Enqueuing, WillMark, WillBook, RunningAt,
        QueuedTask
  <2> QED
    BY <2>1, <2>2
<1>12. ASSUME NEW w \in Workers, MarkProcessing(w)
       PROVE  CarriedAt(q)'
  <2>1. CASE Of(w) = q
    BY SMTT(20), <1>12, <1>0, <2>1
      DEF MarkProcessing, SetStatus, Goto, At, Of, CarriedAt, Enqueuing, WillMark,
        WillBook, RunningAt, QueuedTask
  <2>2. CASE Of(w) # q
    BY SMTT(20), <1>12, <1>0, <2>2
      DEF MarkProcessing, SetStatus, Goto, At, Of, CarriedAt, Enqueuing, WillMark,
        WillBook, RunningAt, QueuedTask
  <2> QED
    BY <2>1, <2>2
<1>13. ASSUME NEW w \in Workers, OcrSucceeds(w)
       PROVE  CarriedAt(q)'
  <2>1. CASE Of(w) = q
    BY SMTT(20), <1>13, <1>0, <2>1
      DEF OcrSucceeds, SetStatus, Goto, At, Of, CarriedAt, Enqueuing, WillMark,
        WillBook, RunningAt, QueuedTask
  <2>2. CASE Of(w) # q
    BY SMTT(20), <1>13, <1>0, <2>2
      DEF OcrSucceeds, SetStatus, Goto, At, Of, CarriedAt, Enqueuing, WillMark,
        WillBook, RunningAt, QueuedTask
  <2> QED
    BY <2>1, <2>2
<1>14. ASSUME NEW w \in Workers, OcrRejects(w)
       PROVE  CarriedAt(q)'
  <2>1. CASE Of(w) = q
    BY SMTT(20), <1>14, <1>0, <2>1
      DEF OcrRejects, SetStatus, Goto, At, Of, CarriedAt, Enqueuing, WillMark,
        WillBook, RunningAt, QueuedTask
  <2>2. CASE Of(w) # q
    BY SMTT(20), <1>14, <1>0, <2>2
      DEF OcrRejects, SetStatus, Goto, At, Of, CarriedAt, Enqueuing, WillMark,
        WillBook, RunningAt, QueuedTask
  <2> QED
    BY <2>1, <2>2
<1>15. ASSUME NEW w \in Workers, OcrErrors(w)
       PROVE  CarriedAt(q)'
  <2>1. \A v \in Workers : v # w => worker'[v] = worker[v]
    BY <1>15, GotoMoves DEF OcrErrors
  <2>2. UNCHANGED <<expenses, abandoned, queue, api>> /\ worker[w].pc = "ocr"
    BY <1>15 DEF OcrErrors, At
  <2>3. row'[q] = IF q = Of(w) THEN "failed" ELSE row[q]
    BY <1>15, SetStatusSets DEF OcrErrors, At, Of
  <2>4. \A t, p : QueuedTask(t, p) => QueuedTask(t, p)'
    BY <2>2 DEF QueuedTask
  <2>5. Enqueuing(q) => Enqueuing(q)'
    BY <2>2 DEF Enqueuing
  <2> QED
    BY <1>0, <2>1, <2>2, <2>3, <2>4, <2>5, OthersKeep DEF CarriedAt
<1>16. ASSUME NEW w \in Workers, EnqueueCategorisation(w)
       PROVE  CarriedAt(q)'
  <2>1. /\ \A v \in Workers : v # w => worker'[v] = worker[v]
        /\ UNCHANGED <<row, expenses, abandoned, api>> /\ worker[w].pc = "parsed"
    BY <1>16 DEF EnqueueCategorisation, Goto, At
  <2>2. PICK r \in Receipts : r = Of(w)
    BY <1>16 DEF EnqueueCategorisation, At, Of
  <2>3. CategoriseJob(r) \in Jobs /\ Send(CategoriseJob(r))
    BY <1>16, <2>2, BoundsAssumption DEF EnqueueCategorisation, CategoriseJob
  <2>4. QueuedTask("categorise", r)' /\ \A t, p : QueuedTask(t, p) => QueuedTask(t, p)'
    BY <2>3, Sent DEF CategoriseJob
  <2>5. Enqueuing(q) => Enqueuing(q)'
    BY <2>1 DEF Enqueuing
  <2> QED
    BY <1>0, <2>1, <2>2, <2>4, <2>5, OthersKeep DEF CarriedAt
<1>17. ASSUME NEW w \in Workers, AlreadyBooked(w)
       PROVE  CarriedAt(q)'
  <2>0. /\ worker[w].pc = "selected"
        /\ worker[w].seen # "categorised" => worker'[w].pc = "agree"
    BY <1>17, GotoMoves DEF AlreadyBooked, At
  <2>1. /\ worker[w].job.task = "categorise"
        /\ \A v \in Workers : worker'[v].job = worker[v].job
        /\ \A v \in Workers : v # w => worker'[v] = worker[v]
    BY <1>17, GotoMoves DEF AlreadyBooked, At
  <2>2. UNCHANGED <<row, abandoned, queue, api>>
    BY <1>17 DEF AlreadyBooked
  <2>3. /\ WillMark(q) => WillMark(q)'
        /\ \A pcs : RunningAt("process", q, pcs) => RunningAt("process", q, pcs)'
    BY <2>1 DEF WillMark, RunningAt, At, Of
  <2>4. WillBook(q) => WillBook(q)'
    BY <2>0, <2>1 DEF WillBook, Of
  <2>5. \A t, p : QueuedTask(t, p) => QueuedTask(t, p)'
    BY <2>2 DEF QueuedTask
  <2>6. Enqueuing(q) => Enqueuing(q)'
    BY <2>2 DEF Enqueuing
  <2> QED
    BY <1>0, <2>2, <2>3, <2>4, <2>5, <2>6 DEF CarriedAt
<1>17a. ASSUME NEW w \in Workers, AgreeWithExpense(w)
        PROVE  CarriedAt(q)'
  <2>1. /\ \A v \in Workers : v # w => worker'[v] = worker[v]
        /\ UNCHANGED <<abandoned, queue, api>> /\ worker[w].pc = "agree"
    BY <1>17a, GotoMoves DEF AgreeWithExpense, At
  <2>2. row'[q] = IF q = Of(w) THEN "categorised" ELSE row[q]
    BY <1>17a, SetStatusSets DEF AgreeWithExpense, At, Of
  <2>3. \A t, p : QueuedTask(t, p) => QueuedTask(t, p)'
    BY <2>1 DEF QueuedTask
  <2>4. Enqueuing(q) => Enqueuing(q)'
    BY <2>1 DEF Enqueuing
  <2> QED
    BY <1>0, <2>1, <2>2, <2>3, <2>4, OthersKeep DEF CarriedAt
<1>18. ASSUME NEW w \in Workers, NotParsed(w)
       PROVE  CarriedAt(q)'
  BY SMTT(20), <1>18, <1>0
    DEF NotParsed, HasExpense, Goto, At, Of, CarriedAt, Enqueuing, WillMark,
      WillBook, RunningAt, QueuedTask
<1>19. ASSUME NEW w \in Workers, CallCategoriser(w)
       PROVE  CarriedAt(q)'
  <2>1. /\ worker[w].job.task = "categorise" /\ worker'[w].pc = "calling"
        /\ \A v \in Workers : worker'[v].job = worker[v].job
        /\ \A v \in Workers : v # w => worker'[v] = worker[v]
    BY <1>19, GotoMoves DEF CallCategoriser, At
  <2>2. UNCHANGED <<row, abandoned, queue, api>>
    BY <1>19 DEF CallCategoriser
  <2>3. /\ WillMark(q) => WillMark(q)'
        /\ \A pcs : RunningAt("process", q, pcs) => RunningAt("process", q, pcs)'
    BY <2>1 DEF WillMark, RunningAt, At, Of
  <2>4. WillBook(q) => WillBook(q)'
    BY <2>1 DEF WillBook, Of
  <2>5. \A t, p : QueuedTask(t, p) => QueuedTask(t, p)'
    BY <2>2 DEF QueuedTask
  <2>6. Enqueuing(q) => Enqueuing(q)'
    BY <2>2 DEF Enqueuing
  <2> QED
    BY <1>0, <2>2, <2>3, <2>4, <2>5, <2>6 DEF CarriedAt
<1>20. ASSUME NEW w \in Workers, Book(w)
       PROVE  CarriedAt(q)'
  <2>1. CASE Of(w) = q
    BY SMTT(20), <1>20, <1>0, <2>1
      DEF Book, ReceiptIdFree, SetStatus, Goto, At, Of, CarriedAt, Enqueuing,
        WillMark, WillBook, RunningAt, QueuedTask
  <2>2. CASE Of(w) # q
    BY SMTT(20), <1>20, <1>0, <2>2
      DEF Book, ReceiptIdFree, SetStatus, Goto, At, Of, CarriedAt, Enqueuing,
        WillMark, WillBook, RunningAt, QueuedTask
  <2> QED
    BY <2>1, <2>2
<1>21. ASSUME NEW w \in Workers, BookCollides(w)
       PROVE  CarriedAt(q)'
  <2>1. /\ worker[w].job.task = "categorise" /\ worker'[w].pc = "retry"
        /\ \A v \in Workers : worker'[v].job = worker[v].job
        /\ \A v \in Workers : v # w => worker'[v] = worker[v]
    BY <1>21, GotoMoves DEF BookCollides, At
  <2>2. UNCHANGED <<row, abandoned, queue, api>>
    BY <1>21 DEF BookCollides
  <2>3. /\ WillMark(q) => WillMark(q)'
        /\ \A pcs : RunningAt("process", q, pcs) => RunningAt("process", q, pcs)'
    BY <2>1 DEF WillMark, RunningAt, At, Of
  <2>4. WillBook(q) => WillBook(q)'
    BY <2>1 DEF WillBook, Of
  <2>5. \A t, p : QueuedTask(t, p) => QueuedTask(t, p)'
    BY <2>2 DEF QueuedTask
  <2>6. Enqueuing(q) => Enqueuing(q)'
    BY <2>2 DEF Enqueuing
  <2> QED
    BY <1>0, <2>2, <2>3, <2>4, <2>5, <2>6 DEF CarriedAt
<1>21a. ASSUME NEW w \in Workers, CategoriseErrors(w)
        PROVE  CarriedAt(q)'
  <2>1. /\ worker[w].job.task = "categorise" /\ worker'[w].pc = "retry"
        /\ \A v \in Workers : worker'[v].job = worker[v].job
        /\ \A v \in Workers : v # w => worker'[v] = worker[v]
    BY <1>21a, GotoMoves DEF CategoriseErrors, At
  <2>2. UNCHANGED <<row, abandoned, queue, api>>
    BY <1>21a DEF CategoriseErrors
  <2>3. /\ WillMark(q) => WillMark(q)'
        /\ \A pcs : RunningAt("process", q, pcs) => RunningAt("process", q, pcs)'
    BY <2>1 DEF WillMark, RunningAt, At, Of
  <2>4. WillBook(q) => WillBook(q)'
    BY <2>1 DEF WillBook, Of
  <2>5. \A t, p : QueuedTask(t, p) => QueuedTask(t, p)'
    BY <2>2 DEF QueuedTask
  <2>6. Enqueuing(q) => Enqueuing(q)'
    BY <2>2 DEF Enqueuing
  <2> QED
    BY <1>0, <2>2, <2>3, <2>4, <2>5, <2>6 DEF CarriedAt
<1>22. ASSUME NEW w \in Workers, StaleWrite(w)
       PROVE  CarriedAt(q)'
  <2>1. /\ \A v \in Workers : v # w => worker'[v] = worker[v]
        /\ UNCHANGED <<row, expenses, abandoned, api>> /\ row[Of(w)] \notin Status
    BY <1>22 DEF StaleWrite, Goto
  <2>2. \A t, p : QueuedTask(t, p) => QueuedTask(t, p)'
    BY <1>22 DEF StaleWrite, QueuedTask
  <2>3. Enqueuing(q) => Enqueuing(q)'
    BY <2>1 DEF Enqueuing
  <2> QED
    BY <1>0, <2>1, <2>2, <2>3, OthersKeep DEF CarriedAt
<1>23. ASSUME NEW w \in Workers, Retry(w)
       PROVE  CarriedAt(q)'
  <2>1. /\ \A v \in Workers : v # w => worker'[v] = worker[v]
        /\ UNCHANGED <<row, abandoned, api>> /\ worker[w].pc = "retry"
    BY <1>23, GotoMoves DEF Retry
  <2>2. /\ \A t, p : QueuedTask(t, p) => QueuedTask(t, p)'
        /\ worker[w].job.task = "categorise" /\ Of(w) = q => QueuedTask("categorise", q)'
    <3>1. PICK j \in Jobs : /\ j = [worker[w].job EXCEPT !.tries = @ + 1]
                            /\ j.task = worker[w].job.task /\ j.receipt = Of(w)
      <4> DEFINE again == [worker[w].job EXCEPT !.tries = @ + 1]
      <4>1. worker[w].job \in Jobs /\ worker[w].job.tries + 1 \in 0..MaxRetries
        BY <1>23, BoundsAssumption DEF Retry
      <4>2. again \in Jobs
        BY <4>1
      <4>3. again.task = worker[w].job.task /\ again.receipt = Of(w)
        BY <4>1 DEF Of
      <4> QED
        BY <4>2, <4>3
    <3>2. QueuedTask(j.task, j.receipt)' /\ \A t, p : QueuedTask(t, p) => QueuedTask(t, p)'
      BY <1>23, <3>1, Sent DEF Retry
    <3> QED
      BY <3>1, <3>2
  <2>3. Enqueuing(q) => Enqueuing(q)'
    BY <2>1 DEF Enqueuing
  <2>4. CASE worker[w].job.task = "categorise" /\ Of(w) = q
    BY <1>0, <2>1, <2>2, <2>3, <2>4, OthersKeep DEF CarriedAt
  <2>5. CASE worker[w].job.task # "categorise" \/ Of(w) # q
    BY <1>0, <2>1, <2>2, <2>3, <2>5, OthersKeep DEF CarriedAt
  <2> QED
    BY <2>4, <2>5
<1>24. ASSUME NEW w \in Workers, GiveUp(w)
       PROVE  CarriedAt(q)'
  <2>1. /\ \A v \in Workers : v # w => worker'[v] = worker[v]
        /\ UNCHANGED <<row, api>> /\ worker[w].pc = "retry"
    BY <1>24, GotoMoves DEF GiveUp
  <2>2. \A t, p : QueuedTask(t, p) => QueuedTask(t, p)'
    BY <1>24 DEF GiveUp, QueuedTask
  <2>3. Enqueuing(q) => Enqueuing(q)'
    BY <2>1 DEF Enqueuing
  <2>4. /\ q \in abandoned => q \in abandoned'
        /\ worker[w].job.task = "categorise" /\ Of(w) = q => q \in abandoned'
    BY <1>24 DEF GiveUp
  <2> QED
    BY <1>0, <2>1, <2>2, <2>3, <2>4, OthersKeep DEF CarriedAt
<1>25. ASSUME NEW w \in Workers, Ack(w)
       PROVE  CarriedAt(q)'
  BY SMTT(20), <1>25, <1>0
    DEF Ack, IdleWorker, NoJob, At, Of, CarriedAt, Enqueuing, WillMark, WillBook,
      RunningAt, QueuedTask
<1>26. ASSUME NEW a \in Requests, UploadInsertFails(a)
       PROVE  CarriedAt(q)'
  BY SMTT(20), <1>26, <1>0
    DEF UploadInsertFails, Fault, At, Of, CarriedAt, Enqueuing, WillMark, WillBook,
      RunningAt, QueuedTask
<1>27. ASSUME NEW a \in Requests, EnqueueFails(a)
       PROVE  CarriedAt(q)'
  BY <1>27 DEF EnqueueFails, Fault
<1>28. ASSUME NEW a \in Requests, BlobDeleteFails(a)
       PROVE  CarriedAt(q)'
  BY SMTT(20), <1>28, <1>0
    DEF BlobDeleteFails, Respond, IdleRequest, Fault, At, Of, CarriedAt, Enqueuing,
      WillMark, WillBook, RunningAt, QueuedTask
<1>29. ASSUME NEW a \in Requests, ApiCrash(a)
       PROVE  CarriedAt(q)'
  BY <1>29 DEF ApiCrash, Fault
<1>30. ASSUME NEW w \in Workers, EnqueueCategorisationFails(w)
       PROVE  CarriedAt(q)'
  BY <1>30 DEF EnqueueCategorisationFails, Fault
<1>31. ASSUME NEW w \in Workers, TaskAborts(w)
       PROVE  CarriedAt(q)'
  BY <1>31 DEF TaskAborts, Fault
<1>32. ASSUME NEW w \in Workers, RetryDispatchFails(w)
       PROVE  CarriedAt(q)'
  BY <1>32 DEF RetryDispatchFails, Fault
<1>33. ASSUME NEW w \in Workers, WorkerDies(w)
       PROVE  CarriedAt(q)'
  <2>1. /\ \A v \in Workers : v # w => worker'[v] = worker[v]
        /\ UNCHANGED <<row, expenses, abandoned, api>>
    BY <1>33 DEF WorkerDies
  <2>2. PICK j \in Jobs : j = worker[w].job
    BY <1>33 DEF WorkerDies
  <2>3. QueuedTask(j.task, j.receipt)' /\ \A t, p : QueuedTask(t, p) => QueuedTask(t, p)'
    BY <1>33, <2>2, Sent DEF WorkerDies
  <2>4. Enqueuing(q) => Enqueuing(q)'
    BY <2>1 DEF Enqueuing
  <2>5. CASE j.receipt # q
    BY <1>0, <2>1, <2>2, <2>3, <2>4, <2>5, OthersKeep DEF CarriedAt, Of
  <2>6. CASE j.receipt = q /\ j.task = "process"
    BY <1>0, <2>1, <2>3, <2>6 DEF CarriedAt
  <2>7. CASE j.receipt = q /\ j.task = "categorise"
    <3>1. /\ WillMark(q) => WillMark(q)'
          /\ \A pcs : RunningAt("process", q, pcs) => RunningAt("process", q, pcs)'
      BY <2>1, <2>2, <2>7 DEF WillMark, RunningAt, At, Of
    <3> QED
      BY <1>0, <2>1, <2>3, <2>4, <2>7, <3>1 DEF CarriedAt
  <2> QED
    BY <2>5, <2>6, <2>7
<1>34. ASSUME NEW w \in Workers, ChildKilled(w)
       PROVE  CarriedAt(q)'
  BY <1>34 DEF ChildKilled, Fault
<1>35. CASE UNCHANGED vars
  BY <1>0, <1>35
    DEF vars, At, Of, CarriedAt, Enqueuing, WillMark, WillBook, RunningAt,
      QueuedTask
<1> QED
  BY <1>1, <1>2, <1>3, <1>4, <1>5, <1>6, <1>7, <1>8, <1>9, <1>10, <1>11, <1>12, <1>13,
    <1>14, <1>15, <1>16, <1>17, <1>17a, <1>18, <1>19, <1>20, <1>21, <1>21a, <1>22, <1>23,
    <1>24, <1>25, <1>26, <1>27, <1>28, <1>29, <1>30, <1>31, <1>32, <1>33, <1>34, <1>35
    DEF Next, UserStep, RequestStep, ProcessStep, CategoriseStep, WorkerStep,
      FaultStep

-----------------------------------------------------------------------------
(* The theorems. *)

\* Initially nothing is stored.
LEMMA CarriedInit == Init => NoOrphanBlob /\ Carried
BY DEF Init, NoOrphanBlob, Carried, CarriedAt

\* The strengthened form says what the property says, and which of the running
\* tasks will act on the row.
LEMMA CarriedSuffices == Carried => InFlightIsCarried
BY DEF Carried, CarriedAt, InFlightIsCarried, GivenUp, Enqueuing, WillMark, WillBook,
  RunningAt, At

\* When the faults are failed INSERTs, refused DELETEs and dying workers, no
\* row is lost.
THEOREM CarriedAlways ==
  ASSUME Faults \subseteq {"worker_dies", "insert_fails", "delete_fails"}
  PROVE  Spec => []Carried
<1>1. SafetyInv /\ Carried /\ [Next]_vars => Carried'
  BY CarriedStep
<1> QED
  BY <1>1, CarriedInit, Safety, PTL DEF Spec

\* task_acks_late does what it is set for: a row that is not settled is always
\* in the hands of a request, the queue or a worker.
THEOREM InFlightRowsAreCarried ==
  ASSUME Faults \subseteq {"worker_dies", "insert_fails", "delete_fails"}
  PROVE  Spec => []InFlightIsCarried
<1> QED
  BY CarriedSuffices, CarriedAlways, PTL

\* A pipeline with no work left has settled every row or given up its categorisation:
\* with WorkRunsOut, what is in flight comes to that unless users and redeliveries go
\* on for ever.
THEOREM RestIsSettled ==
  ASSUME IsFiniteSet(Receipts), IsFiniteSet(Workers), IsFiniteSet(Requests),
         Faults \subseteq {"worker_dies", "insert_fails", "delete_fails"}
  PROVE  Spec => [](Work = 0 => \A r \in Receipts : ~InFlight(r) \/ GivenUp(r))
<1>1. ASSUME AtRest, InFlightIsCarried, NEW r \in Receipts PROVE ~InFlight(r) \/ GivenUp(r)
  <2>1. ~QueuedTask("process", r) /\ ~QueuedTask("categorise", r)
    BY <1>1 DEF AtRest, QueuedTask
  <2>2. ~\E a \in Requests : api[a].pc = "enqueue" /\ api[a].receipt = r
    BY <1>1 DEF AtRest
  <2>3. /\ ~RunningAt("process", r, {"selected", "ocr"})
        /\ ~RunningAt("process", r, {"selected", "parsed"})
        /\ ~RunningAt("categorise", r, {"selected", "agree", "calling", "retry"})
    BY <1>1 DEF AtRest, RunningAt
  <2> QED
    BY <1>1, <2>1, <2>2, <2>3 DEF InFlightIsCarried, InFlight
<1>2. WorkMeasures /\ InFlightIsCarried =>
        (Work = 0 => \A r \in Receipts : ~InFlight(r) \/ GivenUp(r))
  BY <1>1 DEF WorkMeasures
<1> QED
  BY <1>2, WorkIsAMeasure, InFlightRowsAreCarried, PTL

\* The compensating DELETE of create_receipt leaves no object without a row, as
\* long as the store accepts it and the request lives: no failure of a task or
\* of the broker can orphan an object.
THEOREM NoBlobIsOrphaned ==
  ASSUME Faults \cap {"api_crash", "delete_fails"} = {}
  PROVE  Spec => []NoOrphanBlob
<1>1. SafetyInv /\ NoOrphanBlob /\ [Next]_vars => NoOrphanBlob'
  BY OrphanStep
<1> QED
  BY <1>1, CarriedInit, Safety, PTL DEF Spec

-----------------------------------------------------------------------------
(* A receipt that nobody works on. *)

\* No handler but the user's DELETE moves a row in flight that no request, message or
\* task names, and none takes it up again.
LEMMA StrandedStep ==
  ASSUME SafetyInv, [Next]_vars, NEW q \in Receipts, InFlight(q), Unattended(q)
  PROVE  row'[q] \in {row[q], "deleted"} /\ Unattended(q)'
<1> DEFINE Stays == row'[q] \in {row[q], "deleted"} /\ Unattended(q)'
<1> USE NoReceiptAssumption
    DEF SafetyInv, TypeOK, ProcessesHold, RequestsKnow, Unattended, InFlight, Status, Jobs, Of
<1>1. ASSUME NEW a \in Requests, NEW r \in Receipts, UploadPut(a, r)
      PROVE  Stays
  BY <1>1 DEF UploadPut, Fresh
<1>2. ASSUME NEW a \in Requests, NEW r \in Receipts, RetryRead(a, r)
      PROVE  Stays
  BY <1>2 DEF RetryRead
<1>3. ASSUME NEW a \in Requests, NEW r \in Receipts, DeleteRow(a, r)
      PROVE  Stays
  BY <1>3 DEF DeleteRow, SetStatus
<1>4. ASSUME NEW r \in Receipts, DeleteExpense(r)
      PROVE  Stays
  BY <1>4 DEF DeleteExpense
<1>5. ASSUME NEW a \in Requests, UploadInsert(a)
      PROVE  Stays
  BY <1>5 DEF UploadInsert, SetStatus
<1>6. ASSUME NEW a \in Requests, UploadCleanup(a)
      PROVE  Stays
  BY <1>6 DEF UploadCleanup, Respond, IdleRequest
<1>7. ASSUME NEW a \in Requests, Enqueue(a)
      PROVE  Stays
  BY <1>7 DEF Enqueue, ProcessJob, Send, Respond, IdleRequest
<1>8. ASSUME NEW a \in Requests, RefreshFails(a)
      PROVE  Stays
  BY <1>8 DEF RefreshFails, Respond, IdleRequest
<1>9. ASSUME NEW a \in Requests, RetryReset(a)
      PROVE  Stays
  <2>1. CASE Live(api[a].receipt)
    BY <1>9, <2>1 DEF RetryReset, SetStatus
  <2>2. CASE ~Live(api[a].receipt)
    BY <1>9, <2>2 DEF RetryReset, Respond, IdleRequest
  <2> QED
    BY <2>1, <2>2
<1>10. ASSUME NEW a \in Requests, DeleteBlob(a)
       PROVE  Stays
  BY <1>10 DEF DeleteBlob, Respond, IdleRequest
<1>11. ASSUME NEW w \in Workers, NEW j \in Jobs, Deliver(w, j)
       PROVE  Stays
  BY <1>11 DEF Deliver
<1>12. ASSUME NEW w \in Workers, MarkProcessing(w)
       PROVE  Stays
  BY <1>12 DEF MarkProcessing, SetStatus, Goto, At
<1>13. ASSUME NEW w \in Workers, OcrSucceeds(w)
       PROVE  Stays
  BY <1>13 DEF OcrSucceeds, SetStatus, Goto, At
<1>14. ASSUME NEW w \in Workers, OcrRejects(w)
       PROVE  Stays
  BY <1>14 DEF OcrRejects, SetStatus, Goto, At
<1>15. ASSUME NEW w \in Workers, OcrErrors(w)
       PROVE  Stays
  BY <1>15 DEF OcrErrors, SetStatus, Goto, At
<1>16. ASSUME NEW w \in Workers, EnqueueCategorisation(w)
       PROVE  Stays
  BY <1>16 DEF EnqueueCategorisation, CategoriseJob, Send, Goto, At
<1>17. ASSUME NEW w \in Workers, AlreadyBooked(w)
       PROVE  Stays
  BY <1>17 DEF AlreadyBooked, HasExpense, Goto, At
<1>17a. ASSUME NEW w \in Workers, AgreeWithExpense(w)
        PROVE  Stays
  BY <1>17a DEF AgreeWithExpense, SetStatus, Goto, At
<1>18. ASSUME NEW w \in Workers, NotParsed(w)
       PROVE  Stays
  BY <1>18 DEF NotParsed, HasExpense, Goto, At
<1>19. ASSUME NEW w \in Workers, CallCategoriser(w)
       PROVE  Stays
  BY <1>19 DEF CallCategoriser, HasExpense, Goto, At
<1>20. ASSUME NEW w \in Workers, Book(w)
       PROVE  Stays
  BY <1>20 DEF Book, ReceiptIdFree, SetStatus, Goto, At
<1>21. ASSUME NEW w \in Workers, BookCollides(w)
       PROVE  Stays
  BY <1>21 DEF BookCollides, ReceiptIdFree, Goto, At
<1>21a. ASSUME NEW w \in Workers, CategoriseErrors(w)
        PROVE  Stays
  BY <1>21a DEF CategoriseErrors, Goto, At
<1>22. ASSUME NEW w \in Workers, StaleWrite(w)
       PROVE  Stays
  BY <1>22 DEF StaleWrite, Goto, At
<1>23. ASSUME NEW w \in Workers, Retry(w)
       PROVE  Stays
  BY <1>23 DEF Retry, Send, Goto
<1>24. ASSUME NEW w \in Workers, GiveUp(w)
       PROVE  Stays
  BY <1>24 DEF GiveUp, Goto
<1>25. ASSUME NEW w \in Workers, Ack(w)
       PROVE  Stays
  BY <1>25 DEF Ack, IdleWorker, NoJob
<1>26. ASSUME NEW a \in Requests, UploadInsertFails(a)
       PROVE  Stays
  BY <1>26 DEF UploadInsertFails, Fault
<1>27. ASSUME NEW a \in Requests, EnqueueFails(a)
       PROVE  Stays
  BY <1>27 DEF EnqueueFails, Respond, Fault, IdleRequest
<1>28. ASSUME NEW a \in Requests, BlobDeleteFails(a)
       PROVE  Stays
  BY <1>28 DEF BlobDeleteFails, Respond, Fault, IdleRequest
<1>29. ASSUME NEW a \in Requests, ApiCrash(a)
       PROVE  Stays
  BY <1>29 DEF ApiCrash, Respond, Fault, IdleRequest
<1>30. ASSUME NEW w \in Workers, EnqueueCategorisationFails(w)
       PROVE  Stays
  BY <1>30 DEF EnqueueCategorisationFails, Goto, At, Fault
<1>31. ASSUME NEW w \in Workers, TaskAborts(w)
       PROVE  Stays
  BY <1>31 DEF TaskAborts, Goto, Fault
<1>32. ASSUME NEW w \in Workers, RetryDispatchFails(w)
       PROVE  Stays
  BY <1>32 DEF RetryDispatchFails, Goto, Fault
<1>33. ASSUME NEW w \in Workers, WorkerDies(w)
       PROVE  Stays
  BY <1>33 DEF WorkerDies, Send, Fault, IdleWorker, NoJob
<1>34. ASSUME NEW w \in Workers, ChildKilled(w)
       PROVE  Stays
  BY <1>34 DEF ChildKilled, Fault, IdleWorker, NoJob
<1>35. ASSUME UNCHANGED vars PROVE Stays
  <2>1. UNCHANGED <<row, queue, worker, api>>
    BY <1>35 DEF vars
  <2> QED
    BY <2>1
<1> HIDE DEF Stays
<1>36. Stays
  BY <1>1, <1>2, <1>3, <1>4, <1>5, <1>6, <1>7, <1>8, <1>9, <1>10, <1>11, <1>12, <1>13,
    <1>14, <1>15, <1>16, <1>17, <1>17a, <1>18, <1>19, <1>20, <1>21, <1>21a, <1>22, <1>23,
    <1>24, <1>25, <1>26, <1>27, <1>28, <1>29, <1>30, <1>31, <1>32, <1>33, <1>34, <1>35
    DEF Next, UserStep, RequestStep, ProcessStep, CategoriseStep, WorkerStep, FaultStep
<1> QED
  BY <1>36 DEF Stays

\* A receipt in flight that is out of everybody's hands, as one is after its
\* categorisation was given up, stays as it is under every retry, redelivery and fault.
THEOREM StrandedStays == Spec => StrandedForGood
<1>1. SafetyInv /\ [Next]_vars =>
        [\A r \in Receipts : InFlight(r) /\ Unattended(r) =>
           row'[r] \in {row[r], "deleted"} /\ Unattended(r)']_vars
  BY StrandedStep
<1> QED
  BY <1>1, Safety, PTL DEF Spec, StrandedForGood

-----------------------------------------------------------------------------
(* A receipt that is run once. *)

\* A request that is to insert or to enqueue r, a message of it, and a task on
\* it that has not come to its acknowledgement: what a run of r may come from.
Holding(a, r) == api[a].receipt = r /\ api[a].pc \in {"insert", "enqueue"}
Queued(r) == \E j \in Jobs : j.receipt = r /\ queue[j] > 0
Running(w, r) == Of(w) = r /\ worker[w].pc # "ack"

\* There is one of them at most, and no retry of the user's.
OneRun(r) ==
  /\ \A a \in Requests : api[a].receipt = r => api[a].pc # "reset"
  /\ \A a, b \in Requests : Holding(a, r) /\ Holding(b, r) => a = b
  /\ \A v, w \in Workers : Running(v, r) /\ Running(w, r) => v = w
  /\ \A j, k \in Jobs :
       j.receipt = r /\ k.receipt = r /\ queue[j] > 0 /\ queue[k] > 0 => j = k /\ queue[j] = 1
  /\ \A a \in Requests : Holding(a, r) => ~Queued(r) /\ \A w \in Workers : ~Running(w, r)
  /\ \A w \in Workers : Running(w, r) => ~Queued(r)

\* Until its run comes to the categorisation, r has no expense; from then on
\* no task is left that could mark it failed.
BooksLast(r) ==
  /\ row[r] \in {"none", "failed"} => expenses[r] = 0
  /\ \A a \in Requests : Holding(a, r) => expenses[r] = 0
  /\ \A j \in Jobs : j.receipt = r /\ queue[j] > 0 =>
       IF j.task = "process" THEN expenses[r] = 0 ELSE row[r] # "failed"
  /\ \A w \in Workers : Running(w, r) =>
       IF worker[w].job.task = "process"
         THEN expenses[r] = 0 /\ (worker[w].pc = "parsed" => row[r] # "failed")
         ELSE row[r] # "failed"

RunsOnce == \A r \in Receipts : OneRun(r) /\ BooksLast(r)

\* Where no message is sent or taken and no request moves, a run goes on as the
\* same one: a worker moves within its task, and is the only one on its receipt.
LEMMA OneRunGoesOn ==
  ASSUME TypeOK, NEW q \in Receipts, OneRun(q), NEW w \in Workers, worker[w].pc # "ack",
         NEW pc, Goto(w, pc), UNCHANGED <<queue, api>>
  PROVE  /\ OneRun(q)'
         /\ \A v \in Workers : Running(v, q)' => Running(v, q)
         /\ Of(w) = q => /\ ~Queued(q)' /\ \A a \in Requests : ~Holding(a, q)'
                        /\ \A v \in Workers : Running(v, q)' => v = w
<1>1. \A v \in Workers : Running(v, q)' => Running(v, q)
  BY GotoMoves DEF Running, Of
<1>2. OneRun(q)'
  BY <1>1 DEF OneRun, Holding, Queued
<1>3. Of(w) = q => Running(w, q)
  BY DEF Running
<1>4. Of(w) = q => ~Queued(q) /\ \A a \in Requests : ~Holding(a, q)
  BY <1>3 DEF OneRun
<1> QED
  BY <1>1, <1>2, <1>3, <1>4 DEF OneRun, Holding, Queued

\* What worker w may do to the row and the expenses of q in a step to pc.
KeepsBooks(q, w, pc) ==
  /\ Of(w) # q => row'[q] = row[q] /\ expenses'[q] = expenses[q]
  /\ Of(w) = q =>
       /\ row'[q] \in {"none", "failed"} => expenses'[q] = 0
       /\ pc # "ack" => IF worker[w].job.task = "process"
                          THEN expenses'[q] = 0 /\ (pc = "parsed" => row'[q] # "failed")
                          ELSE row'[q] # "failed"

\* ... and the row's status and its expenses are a matter of that worker alone.
LEMMA BooksLastGoesOn ==
  ASSUME TypeOK, NEW q \in Receipts, OneRun(q), BooksLast(q),
         NEW w \in Workers, worker[w].pc # "ack",
         NEW pc, Goto(w, pc), UNCHANGED <<queue, api>>,
         KeepsBooks(q, w, pc)
  PROVE  BooksLast(q)'
<1>1. /\ worker'[w].pc = pc
      /\ \A v \in Workers : worker'[v].job = worker[v].job
      /\ \A v \in Workers : v # w => worker'[v] = worker[v]
  BY GotoMoves
<1>2. CASE Of(w) = q
  <2>1. /\ ~Queued(q)' /\ \A a \in Requests : ~Holding(a, q)'
        /\ \A v \in Workers : Running(v, q)' => v = w
    BY <1>2, OneRunGoesOn
  <2> QED
    BY <1>1, <1>2, <2>1 DEF BooksLast, Queued, Running, KeepsBooks
<1>3. CASE Of(w) # q
  <2>1. \A v \in Workers : Running(v, q)' => Running(v, q) /\ worker'[v] = worker[v]
    BY <1>1, <1>3 DEF Running, Of
  <2> QED
    BY <1>3, <2>1 DEF BooksLast, Holding, KeepsBooks
<1> QED
  BY <1>2, <1>3

\* A run passes from the request to the queue, to a worker and back, and is one
\* of categorise_receipt after it was one of process_receipt.
LEMMA RunStep ==
  ASSUME MaxUserRetries = 0, "worker_dies" \notin Faults,
         SafetyInv, RunsOnce, [Next]_vars
  PROVE  RunsOnce'
<1> SUFFICES ASSUME NEW q \in Receipts
             PROVE  OneRun(q)' /\ BooksLast(q)'
  BY DEF RunsOnce
<1>0. OneRun(q) /\ BooksLast(q)
  BY DEF RunsOnce
<1> USE NoReceiptAssumption DEF SafetyInv, TypeOK, ProcessesHold, RequestsKnow,
    UploadsAreAlone, RowState, Status, WorkerPc, ApiPc, Jobs, Live
<1>1. ASSUME NEW a \in Requests, NEW r \in Receipts, UploadPut(a, r)
      PROVE  OneRun(q)' /\ BooksLast(q)'
  BY <1>1, <1>0
    DEF UploadPut, Fresh, OneRun, BooksLast, Holding, Queued, Running, At, Of,
      JobsNameCommittedRows
<1>2. ASSUME NEW a \in Requests, NEW r \in Receipts, RetryRead(a, r)
      PROVE  OneRun(q)' /\ BooksLast(q)'
  BY <1>2, <1>0, BoundsAssumption
    DEF RetryRead, OneRun, BooksLast, Holding, Queued, Running, At, Of
<1>3. ASSUME NEW a \in Requests, NEW r \in Receipts, DeleteRow(a, r)
      PROVE  OneRun(q)' /\ BooksLast(q)'
  BY <1>3, <1>0
    DEF DeleteRow, SetStatus, OneRun, BooksLast, Holding, Queued, Running, At, Of
<1>4. ASSUME NEW r \in Receipts, DeleteExpense(r)
      PROVE  OneRun(q)' /\ BooksLast(q)'
  BY <1>4, <1>0 DEF DeleteExpense, OneRun, BooksLast, Holding, Queued, Running, At, Of
<1>5. ASSUME NEW a \in Requests, UploadInsert(a)
      PROVE  OneRun(q)' /\ BooksLast(q)'
  BY <1>5, <1>0
    DEF UploadInsert, SetStatus, OneRun, BooksLast, Holding, Queued, Running, At, Of
<1>6. ASSUME NEW a \in Requests, UploadCleanup(a)
      PROVE  OneRun(q)' /\ BooksLast(q)'
  BY <1>6, <1>0
    DEF UploadCleanup, Respond, IdleRequest, OneRun, BooksLast, Holding, Queued,
      Running, At, Of
<1>7. ASSUME NEW a \in Requests, Enqueue(a)
      PROVE  OneRun(q)' /\ BooksLast(q)'
  BY <1>7, <1>0
    DEF Enqueue, ProcessJob, Send, Respond, IdleRequest, OneRun, BooksLast, Holding,
      Queued, Running, At, Of
<1>8. ASSUME NEW a \in Requests, RefreshFails(a)
      PROVE  OneRun(q)' /\ BooksLast(q)'
  BY <1>8, <1>0
    DEF RefreshFails, Respond, IdleRequest, OneRun, BooksLast, Holding, Queued,
      Running, At, Of
<1>9. ASSUME NEW a \in Requests, RetryReset(a)
      PROVE  OneRun(q)' /\ BooksLast(q)'
  <2>1. api[a].receipt \in Receipts /\ api[a].pc = "reset"
    BY <1>9 DEF RetryReset
  <2> QED
    BY <2>1 DEF RunsOnce, OneRun
<1>10. ASSUME NEW a \in Requests, DeleteBlob(a)
       PROVE  OneRun(q)' /\ BooksLast(q)'
  BY <1>10, <1>0
    DEF DeleteBlob, Respond, IdleRequest, OneRun, BooksLast, Holding, Queued,
      Running, At, Of
<1>11. ASSUME NEW w \in Workers, NEW j \in Jobs, Deliver(w, j)
       PROVE  OneRun(q)' /\ BooksLast(q)'
  <2>1. CASE j.receipt = q
    <3>1. /\ \A a \in Requests : ~Holding(a, q)
          /\ \A v \in Workers : ~Running(v, q)
          /\ \A k \in Jobs : k.receipt = q /\ queue[k] > 0 => k = j
          /\ queue[j] = 1
      BY <1>11, <1>0, <2>1 DEF Deliver, OneRun, Queued
    <3>2. /\ \A k \in Jobs : k.receipt = q => queue'[k] = 0
          /\ worker'[w].job = j /\ worker'[w].pc \in {"selected", "ack"}
          /\ \A v \in Workers : v # w => worker'[v] = worker[v]
          /\ UNCHANGED <<row, expenses, abandoned, api>>
      <4>1. \A k \in Jobs : queue'[k] = IF k = j THEN queue[j] - 1 ELSE queue[k]
        BY <1>11 DEF Deliver
      <4>2. ASSUME NEW k \in Jobs, k.receipt = q PROVE queue'[k] = 0
        <5>1. queue[k] \in Nat /\ (queue[k] > 0 => k = j)
          BY <3>1, <4>2
        <5> QED
          BY <4>1, <3>1, <5>1
      <4> QED
        BY <1>11, <4>2 DEF Deliver
    <3>3. OneRun(q)'
      BY <1>0, <3>1, <3>2 DEF OneRun, Holding, Queued, Running, Of
    <3>4. BooksLast(q)'
      BY <1>11, <1>0, <2>1, <3>1, <3>2 DEF Deliver, BooksLast, Holding, Running, Of
    <3> QED
      BY <3>3, <3>4
  <2>2. CASE j.receipt # q
    BY SMTT(20), <1>11, <1>0, <2>2
      DEF Deliver, OneRun, BooksLast, Holding, Queued, Running, At, Of
  <2> QED
    BY <2>1, <2>2
<1>12. ASSUME NEW w \in Workers, MarkProcessing(w)
       PROVE  OneRun(q)' /\ BooksLast(q)'
  <2>1. OneRun(q)'
    BY <1>12, <1>0, OneRunGoesOn DEF MarkProcessing, At
  <2>2. KeepsBooks(q, w, "ocr")
    BY <1>12, <1>0 DEF MarkProcessing, SetStatus, KeepsBooks, BooksLast, Running, At, Of
  <2>3. BooksLast(q)'
    BY <1>12, <1>0, <2>2, BooksLastGoesOn DEF MarkProcessing, At
  <2> QED
    BY <2>1, <2>3
<1>13. ASSUME NEW w \in Workers, OcrSucceeds(w)
       PROVE  OneRun(q)' /\ BooksLast(q)'
  <2>1. OneRun(q)'
    BY <1>13, <1>0, OneRunGoesOn DEF OcrSucceeds, At
  <2>2. KeepsBooks(q, w, "parsed")
    BY <1>13, <1>0 DEF OcrSucceeds, SetStatus, KeepsBooks, BooksLast, Running, At, Of
  <2>3. BooksLast(q)'
    BY <1>13, <1>0, <2>2, BooksLastGoesOn DEF OcrSucceeds, At
  <2> QED
    BY <2>1, <2>3
<1>14. ASSUME NEW w \in Workers, OcrRejects(w)
       PROVE  OneRun(q)' /\ BooksLast(q)'
  <2>1. OneRun(q)'
    BY <1>14, <1>0, OneRunGoesOn DEF OcrRejects, At
  <2>2. KeepsBooks(q, w, "ack")
    BY <1>14, <1>0 DEF OcrRejects, SetStatus, KeepsBooks, BooksLast, Running, At, Of
  <2>3. BooksLast(q)'
    BY <1>14, <1>0, <2>2, BooksLastGoesOn DEF OcrRejects, At
  <2> QED
    BY <2>1, <2>3
<1>15. ASSUME NEW w \in Workers, OcrErrors(w)
       PROVE  OneRun(q)' /\ BooksLast(q)'
  <2>1. OneRun(q)'
    BY <1>15, <1>0, OneRunGoesOn DEF OcrErrors, At
  <2>2. KeepsBooks(q, w, "retry")
    BY <1>15, <1>0 DEF OcrErrors, SetStatus, KeepsBooks, BooksLast, Running, At, Of
  <2>3. BooksLast(q)'
    BY <1>15, <1>0, <2>2, BooksLastGoesOn DEF OcrErrors, At
  <2> QED
    BY <2>1, <2>3
<1>16. ASSUME NEW w \in Workers, EnqueueCategorisation(w)
       PROVE  OneRun(q)' /\ BooksLast(q)'
  BY <1>16, <1>0
    DEF EnqueueCategorisation, CategoriseJob, Send, Goto, OneRun, BooksLast,
      Holding, Queued, Running, At, Of
<1>17. ASSUME NEW w \in Workers, AlreadyBooked(w)
       PROVE  OneRun(q)' /\ BooksLast(q)'
  <2> DEFINE to == IF worker[w].seen = "categorised" THEN "ack" ELSE "agree"
  <2>0. worker[w].pc # "ack" /\ Goto(w, to) /\ UNCHANGED <<row, expenses, queue, api>>
    BY <1>17 DEF AlreadyBooked, At
  <2>2. KeepsBooks(q, w, to)
    BY <1>17, <1>0, <2>0 DEF AlreadyBooked, KeepsBooks, BooksLast, Running, At, Of
  <2> HIDE DEF to
  <2>1. OneRun(q)'
    BY <1>0, <2>0, OneRunGoesOn
  <2>3. BooksLast(q)'
    BY <1>0, <2>0, <2>2, BooksLastGoesOn
  <2> QED
    BY <2>1, <2>3
<1>17a. ASSUME NEW w \in Workers, AgreeWithExpense(w)
        PROVE  OneRun(q)' /\ BooksLast(q)'
  <2>1. OneRun(q)'
    BY <1>17a, <1>0, OneRunGoesOn DEF AgreeWithExpense, At
  <2>2. KeepsBooks(q, w, "ack")
    BY <1>17a, <1>0 DEF AgreeWithExpense, SetStatus, KeepsBooks, BooksLast, Running, At, Of
  <2>3. BooksLast(q)'
    BY <1>17a, <1>0, <2>2, BooksLastGoesOn DEF AgreeWithExpense, At
  <2> QED
    BY <2>1, <2>3
<1>18. ASSUME NEW w \in Workers, NotParsed(w)
       PROVE  OneRun(q)' /\ BooksLast(q)'
  <2>1. OneRun(q)'
    BY <1>18, <1>0, OneRunGoesOn DEF NotParsed, At
  <2>2. KeepsBooks(q, w, "ack")
    BY <1>18, <1>0 DEF NotParsed, HasExpense, KeepsBooks, BooksLast, Running, At, Of
  <2>3. BooksLast(q)'
    BY <1>18, <1>0, <2>2, BooksLastGoesOn DEF NotParsed, At
  <2> QED
    BY <2>1, <2>3
<1>19. ASSUME NEW w \in Workers, CallCategoriser(w)
       PROVE  OneRun(q)' /\ BooksLast(q)'
  <2>1. OneRun(q)'
    BY <1>19, <1>0, OneRunGoesOn DEF CallCategoriser, At
  <2>2. KeepsBooks(q, w, "calling")
    BY <1>19, <1>0 DEF CallCategoriser, HasExpense, KeepsBooks, BooksLast, Running, At, Of
  <2>3. BooksLast(q)'
    BY <1>19, <1>0, <2>2, BooksLastGoesOn DEF CallCategoriser, At
  <2> QED
    BY <2>1, <2>3
<1>20. ASSUME NEW w \in Workers, Book(w)
       PROVE  OneRun(q)' /\ BooksLast(q)'
  <2>1. OneRun(q)'
    BY <1>20, <1>0, OneRunGoesOn DEF Book, At
  <2>2. KeepsBooks(q, w, "ack")
    BY <1>20, <1>0 DEF Book, ReceiptIdFree, SetStatus, KeepsBooks, BooksLast, Running, At, Of
  <2>3. BooksLast(q)'
    BY <1>20, <1>0, <2>2, BooksLastGoesOn DEF Book, At
  <2> QED
    BY <2>1, <2>3
<1>21. ASSUME NEW w \in Workers, BookCollides(w)
       PROVE  OneRun(q)' /\ BooksLast(q)'
  <2>1. OneRun(q)'
    BY <1>21, <1>0, OneRunGoesOn DEF BookCollides, At
  <2>2. KeepsBooks(q, w, "retry")
    BY <1>21, <1>0 DEF BookCollides, ReceiptIdFree, KeepsBooks, BooksLast, Running, At, Of
  <2>3. BooksLast(q)'
    BY <1>21, <1>0, <2>2, BooksLastGoesOn DEF BookCollides, At
  <2> QED
    BY <2>1, <2>3
<1>21a. ASSUME NEW w \in Workers, CategoriseErrors(w)
        PROVE  OneRun(q)' /\ BooksLast(q)'
  <2>1. OneRun(q)'
    BY <1>21a, <1>0, OneRunGoesOn DEF CategoriseErrors, At
  <2>2. KeepsBooks(q, w, "retry")
    BY <1>21a, <1>0 DEF CategoriseErrors, KeepsBooks, BooksLast, Running, At, Of
  <2>3. BooksLast(q)'
    BY <1>21a, <1>0, <2>2, BooksLastGoesOn DEF CategoriseErrors, At
  <2> QED
    BY <2>1, <2>3
<1>22. ASSUME NEW w \in Workers, StaleWrite(w)
       PROVE  OneRun(q)' /\ BooksLast(q)'
  <2>1. OneRun(q)'
    BY <1>22, <1>0, OneRunGoesOn DEF StaleWrite, At
  <2>2. KeepsBooks(q, w, "retry")
    BY <1>22, <1>0 DEF StaleWrite, KeepsBooks, BooksLast, Running, At, Of
  <2>3. BooksLast(q)'
    BY <1>22, <1>0, <2>2, BooksLastGoesOn DEF StaleWrite, At
  <2> QED
    BY <2>1, <2>3
<1>23. ASSUME NEW w \in Workers, Retry(w)
       PROVE  OneRun(q)' /\ BooksLast(q)'
  <2>1. CASE Of(w) = q
    <3>1. PICK j \in Jobs : /\ j = [worker[w].job EXCEPT !.tries = @ + 1]
                            /\ j.receipt = q /\ j.task = worker[w].job.task
      <4>1. worker[w].job \in Jobs /\ worker[w].job.tries + 1 \in 0..MaxRetries
        BY <1>23, BoundsAssumption DEF Retry
      <4> DEFINE again == [worker[w].job EXCEPT !.tries = @ + 1]
      <4>2. again \in Jobs
        BY <4>1
      <4>3. again.receipt = q /\ again.task = worker[w].job.task
        BY <4>1, <2>1 DEF Of
      <4> QED
        BY <4>2, <4>3
    <3>2. /\ Running(w, q) /\ ~Queued(q)
          /\ \A a \in Requests : ~Holding(a, q)
          /\ \A v \in Workers : Running(v, q) => v = w
      BY <1>23, <1>0, <2>1 DEF Retry, Running, OneRun
    <3>3. \A k \in Jobs : queue'[k] = IF k = j THEN queue[j] + 1 ELSE queue[k]
      BY <1>23, <3>1 DEF Retry, Send
    <3> HIDE DEF Jobs
    <3>4. ASSUME NEW k \in Jobs, k.receipt = q PROVE queue'[k] = IF k = j THEN 1 ELSE 0
      <4>1. queue[k] \in Nat /\ queue[j] \in Nat
        OBVIOUS
      <4>2. ~(queue[k] > 0) /\ ~(queue[j] > 0)
        BY <3>1, <3>2, <3>4 DEF Queued
      <4> QED
        BY <3>3, <4>1, <4>2
    <3>5. /\ \A v \in Workers : ~Running(v, q)'
          /\ UNCHANGED <<row, expenses, abandoned, api>>
      BY <1>23, <3>2 DEF Retry, Goto, Running, Of
    <3>6. OneRun(q)'
      BY <1>0, <3>2, <3>4, <3>5 DEF OneRun, Holding, Queued
    <3>7. IF j.task = "process" THEN expenses[q] = 0 ELSE row[q] # "failed"
      BY <1>0, <3>1, <3>2 DEF BooksLast
    <3>8. BooksLast(q)'
      BY <1>0, <3>2, <3>4, <3>5, <3>7 DEF BooksLast, Holding
    <3> QED
      BY <3>6, <3>8
  <2>2. CASE Of(w) # q
    BY SMTT(20), <1>23, <1>0, <2>2
      DEF Retry, Send, Goto, OneRun, BooksLast, Holding, Queued, Running, At, Of
  <2> QED
    BY <2>1, <2>2
<1>24. ASSUME NEW w \in Workers, GiveUp(w)
       PROVE  OneRun(q)' /\ BooksLast(q)'
  <2>1. OneRun(q)'
    BY <1>24, <1>0, OneRunGoesOn DEF GiveUp, At
  <2>2. KeepsBooks(q, w, "ack")
    BY <1>24, <1>0 DEF GiveUp, KeepsBooks, BooksLast, Running, At, Of
  <2>3. BooksLast(q)'
    BY <1>24, <1>0, <2>2, BooksLastGoesOn DEF GiveUp, At
  <2> QED
    BY <2>1, <2>3
<1>25. ASSUME NEW w \in Workers, Ack(w)
       PROVE  OneRun(q)' /\ BooksLast(q)'
  BY <1>25, <1>0
    DEF Ack, IdleWorker, NoJob, OneRun, BooksLast, Holding, Queued, Running, At, Of
<1>26. ASSUME NEW a \in Requests, UploadInsertFails(a)
       PROVE  OneRun(q)' /\ BooksLast(q)'
  BY <1>26, <1>0
    DEF UploadInsertFails, Fault, OneRun, BooksLast, Holding, Queued, Running, At,
      Of
<1>27. ASSUME NEW a \in Requests, EnqueueFails(a)
       PROVE  OneRun(q)' /\ BooksLast(q)'
  BY <1>27, <1>0
    DEF EnqueueFails, Respond, Fault, IdleRequest, OneRun, BooksLast, Holding,
      Queued, Running, At, Of
<1>28. ASSUME NEW a \in Requests, BlobDeleteFails(a)
       PROVE  OneRun(q)' /\ BooksLast(q)'
  BY <1>28, <1>0
    DEF BlobDeleteFails, Respond, Fault, IdleRequest, OneRun, BooksLast, Holding,
      Queued, Running, At, Of
<1>29. ASSUME NEW a \in Requests, ApiCrash(a)
       PROVE  OneRun(q)' /\ BooksLast(q)'
  BY <1>29, <1>0
    DEF ApiCrash, Respond, Fault, IdleRequest, OneRun, BooksLast, Holding, Queued,
      Running, At, Of
<1>30. ASSUME NEW w \in Workers, EnqueueCategorisationFails(w)
       PROVE  OneRun(q)' /\ BooksLast(q)'
  <2>1. OneRun(q)'
    BY <1>30, <1>0, OneRunGoesOn DEF EnqueueCategorisationFails, At
  <2>2. KeepsBooks(q, w, "retry")
    BY <1>30, <1>0 DEF EnqueueCategorisationFails, KeepsBooks, BooksLast, Running, At, Of
  <2>3. BooksLast(q)'
    BY <1>30, <1>0, <2>2, BooksLastGoesOn DEF EnqueueCategorisationFails, At
  <2> QED
    BY <2>1, <2>3
<1>31. ASSUME NEW w \in Workers, TaskAborts(w)
       PROVE  OneRun(q)' /\ BooksLast(q)'
  <2>1. OneRun(q)'
    BY <1>31, <1>0, OneRunGoesOn DEF TaskAborts, At
  <2>2. KeepsBooks(q, w, "retry")
    BY <1>31, <1>0 DEF TaskAborts, KeepsBooks, BooksLast, Running, At, Of
  <2>3. BooksLast(q)'
    BY <1>31, <1>0, <2>2, BooksLastGoesOn DEF TaskAborts, At
  <2> QED
    BY <2>1, <2>3
<1>32. ASSUME NEW w \in Workers, RetryDispatchFails(w)
       PROVE  OneRun(q)' /\ BooksLast(q)'
  <2>1. OneRun(q)'
    BY <1>32, <1>0, OneRunGoesOn DEF RetryDispatchFails, At
  <2>2. KeepsBooks(q, w, "ack")
    BY <1>32, <1>0 DEF RetryDispatchFails, KeepsBooks, BooksLast, Running, At, Of
  <2>3. BooksLast(q)'
    BY <1>32, <1>0, <2>2, BooksLastGoesOn DEF RetryDispatchFails, At
  <2> QED
    BY <2>1, <2>3
<1>33. ASSUME NEW w \in Workers, WorkerDies(w)
       PROVE  OneRun(q)' /\ BooksLast(q)'
  BY <1>33, <1>0, BoundsAssumption
    DEF WorkerDies, Fault, OneRun, BooksLast, Holding, Queued, Running, At, Of
<1>34. ASSUME NEW w \in Workers, ChildKilled(w)
       PROVE  OneRun(q)' /\ BooksLast(q)'
  BY <1>34, <1>0
    DEF ChildKilled, Fault, IdleWorker, NoJob, OneRun, BooksLast, Holding, Queued,
      Running, At, Of
<1>35. CASE UNCHANGED vars
  BY <1>0, <1>35 DEF vars, OneRun, BooksLast, Holding, Queued, Running, Of
<1> QED
  BY <1>1, <1>2, <1>3, <1>4, <1>5, <1>6, <1>7, <1>8, <1>9, <1>10, <1>11, <1>12, <1>13,
    <1>14, <1>15, <1>16, <1>17, <1>17a, <1>18, <1>19, <1>20, <1>21, <1>21a, <1>22, <1>23,
    <1>24, <1>25, <1>26, <1>27, <1>28, <1>29, <1>30, <1>31, <1>32, <1>33, <1>34, <1>35
    DEF Next, UserStep, RequestStep, ProcessStep, CategoriseStep, WorkerStep,
      FaultStep

\* A failed row is final, as its retry takes for granted, unless the receipt is
\* run twice: with no retry by the user and no redelivery it has no expense.
THEOREM FailedHasNoExpenseRunOnce ==
  ASSUME MaxUserRetries = 0, "worker_dies" \notin Faults
  PROVE  Spec => []FailedHasNoExpense
<1>1. Init => RunsOnce
  <2> SUFFICES ASSUME Init, NEW r \in Receipts PROVE OneRun(r) /\ BooksLast(r)
    BY DEF RunsOnce
  <2>1. /\ \A a \in Requests : ~Holding(a, r) /\ api[a].pc = "idle"
        /\ \A w \in Workers : ~Running(w, r)
        /\ \A j \in Jobs : ~(queue[j] > 0)
        /\ expenses[r] = 0
    BY NoReceiptAssumption
      DEF Init, Holding, Running, Of, IdleRequest, IdleWorker, NoJob
  <2> QED
    BY <2>1 DEF OneRun, BooksLast, Queued
<1>2. SafetyInv /\ RunsOnce /\ [Next]_vars => RunsOnce'
  BY RunStep
<1>3. RunsOnce => FailedHasNoExpense
  BY DEF RunsOnce, BooksLast, FailedHasNoExpense
<1> QED
  BY <1>1, <1>2, <1>3, Safety, PTL DEF Spec
=============================================================================
