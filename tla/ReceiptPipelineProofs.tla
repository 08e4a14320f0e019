------------------------ MODULE ReceiptPipelineProofs ------------------------
(***************************************************************************)
(* Theorems about ReceiptPipeline, for every number of receipts, workers   *)
(* and requests, every retry budget and every set of faults.               *)
(***************************************************************************)
EXTENDS ReceiptWork, FiniteSetFacts

-----------------------------------------------------------------------------
(* The inductive invariant behind the safety properties. *)

\* A busy process holds a real message or a real receipt, an idle one none.
ProcessesHold ==
  /\ \A w \in Workers :
       IF worker[w].pc = "idle" THEN worker[w].job = NoJob ELSE worker[w].job \in Jobs
  /\ \A a \in Requests :
       IF api[a].pc = "idle" THEN api[a].receipt = NoReceipt
                             ELSE api[a].receipt \in Receipts

\* What a request knows of its receipt between its own steps.
RequestsKnow ==
  \A a \in Requests :
    /\ api[a].pc \in {"insert", "cleanup"} => row[api[a].receipt] = "none"
    /\ api[a].pc = "insert" => api[a].receipt \in blobs
    /\ api[a].pc = "unblob" => row[api[a].receipt] = "deleted"
    /\ api[a].pc \in {"enqueue", "reset"} => row[api[a].receipt] # "none"

\* Nobody else works on a receipt that an upload has not committed.
UploadsAreAlone ==
  \A a, b \in Requests :
    api[a].pc \in {"insert", "cleanup"} /\ api[a].receipt = api[b].receipt => a = b

\* A worker that is to make a row agree with its expense has seen one.
AgreementsHaveExpense ==
  \A w \in Workers : worker[w].pc = "agree" => expenses[Of(w)] > 0 \/ Of(w) \in dropped

SafetyInv ==
  /\ TypeOK
  /\ ProcessesHold
  /\ RequestsKnow
  /\ UploadsAreAlone
  /\ AgreementsHaveExpense
  /\ RowHasBlob
  /\ OneExpensePerReceipt
  /\ CategorisedWasBooked
  /\ JobsNameCommittedRows

-----------------------------------------------------------------------------
(* Type correctness. *)

\* Counting one up, in or outside the domain, keeps a function to Nat: what
\* Send does to the queue and Book to the expenses.
LEMMA CountUp ==
  ASSUME NEW S, NEW f \in [S -> Nat], NEW x
  PROVE  [f EXCEPT ![x] = @ + 1] \in [S -> Nat]
<1>1. CASE x \in S
  BY <1>1
<1>2. CASE x \notin S
  BY <1>2
<1> QED
  BY <1>1, <1>2

\* A worker that moves to another program counter keeps its message.
LEMMA GotoType ==
  ASSUME TypeOK, NEW w \in Workers, NEW pc \in WorkerPc, Goto(w, pc)
  PROVE  worker' \in [Workers -> [pc: WorkerPc, job: Jobs \cup {NoJob}, seen: RowState]]
BY DEF TypeOK, Goto

\* ... and the other workers stay where they are.
LEMMA GotoMoves ==
  ASSUME TypeOK, NEW w \in Workers, NEW pc, Goto(w, pc)
  PROVE  /\ worker'[w].pc = pc
         /\ \A v \in Workers : worker'[v].job = worker[v].job /\ worker'[v].seen = worker[v].seen
         /\ \A v \in Workers : v # w => worker'[v] = worker[v]
BY DEF TypeOK, Goto

\* An UPDATE of one row's status leaves the other rows alone.
LEMMA SetStatusSets ==
  ASSUME TypeOK, NEW r \in Receipts, NEW s \in Status, SetStatus(r, s)
  PROVE  /\ row' \in [Receipts -> RowState]
         /\ \A q \in Receipts : row'[q] = IF q = r THEN s ELSE row[q]
BY DEF TypeOK, SetStatus, RowState

\* No handler and no task step takes a variable out of its type; a retry stays
\* within max_retries because self.retry raises beyond it.
LEMMA TypeStep == TypeOK /\ [Next]_vars => TypeOK'
<1> SUFFICES ASSUME TypeOK, [Next]_vars
             PROVE  TypeOK'
  OBVIOUS
<1> USE BoundsAssumption DEF TypeOK, RowState, Status, WorkerPc, ApiPc
<1>1. ASSUME NEW a \in Requests, NEW r \in Receipts, UploadPut(a, r)
      PROVE  TypeOK'
  BY <1>1 DEF UploadPut, Fresh
<1>2. ASSUME NEW a \in Requests, NEW r \in Receipts, RetryRead(a, r)
      PROVE  TypeOK'
  BY <1>2 DEF RetryRead
<1>3. ASSUME NEW a \in Requests, NEW r \in Receipts, DeleteRow(a, r)
      PROVE  TypeOK'
  BY <1>3 DEF DeleteRow, SetStatus, Live
<1>4. ASSUME NEW r \in Receipts, DeleteExpense(r)
      PROVE  TypeOK'
  BY <1>4 DEF DeleteExpense
<1>5. ASSUME NEW a \in Requests, UploadInsert(a)
      PROVE  TypeOK'
  <2>1. row' \in [Receipts -> RowState]
    BY <1>5 DEF UploadInsert, SetStatus
  <2>2. api' \in [Requests -> [pc: ApiPc, receipt: Receipts \cup {NoReceipt}]]
    BY <1>5 DEF UploadInsert
  <2> QED
    BY <1>5, <2>1, <2>2 DEF UploadInsert
<1>6. ASSUME NEW a \in Requests, UploadCleanup(a)
      PROVE  TypeOK'
  BY <1>6 DEF UploadCleanup, Respond, IdleRequest
<1>7. ASSUME NEW a \in Requests, Enqueue(a)
      PROVE  TypeOK'
  <2>1. queue' \in [Jobs -> Nat]
    BY <1>7, CountUp DEF Enqueue, Send
  <2> QED
    BY <1>7, <2>1 DEF Enqueue, Respond, IdleRequest
<1>8. ASSUME NEW a \in Requests, RefreshFails(a)
      PROVE  TypeOK'
  BY <1>8 DEF RefreshFails, Live, Respond, IdleRequest
<1>9. ASSUME NEW a \in Requests, RetryReset(a)
      PROVE  TypeOK'
  <2>1. CASE Live(api[a].receipt)
    <3>1. row' \in [Receipts -> RowState]
      BY <1>9, <2>1 DEF RetryReset, SetStatus
    <3>2. api' \in [Requests -> [pc: ApiPc, receipt: Receipts \cup {NoReceipt}]]
      BY <1>9, <2>1 DEF RetryReset
    <3> QED
      BY <1>9, <3>1, <3>2 DEF RetryReset
  <2>2. CASE ~Live(api[a].receipt)
    BY <1>9, <2>2 DEF RetryReset, Respond, IdleRequest
  <2> QED
    BY <2>1, <2>2
<1>10. ASSUME NEW a \in Requests, DeleteBlob(a)
       PROVE  TypeOK'
  BY <1>10 DEF DeleteBlob, Respond, IdleRequest
<1>11. ASSUME NEW w \in Workers, NEW j \in Jobs, Deliver(w, j)
       PROVE  TypeOK'
  <2>1. queue' \in [Jobs -> Nat]
    BY <1>11 DEF Deliver
  <2>2. row[j.receipt] \in RowState /\ j \in Jobs \cup {NoJob}
    BY DEF Jobs
  <2>3. worker' \in [Workers -> [pc: WorkerPc, job: Jobs \cup {NoJob}, seen: RowState]]
    BY <1>11, <2>2 DEF Deliver
  <2> QED
    BY <1>11, <2>1, <2>3 DEF Deliver
<1>12. ASSUME NEW w \in Workers, MarkProcessing(w)
       PROVE  TypeOK'
  BY <1>12 DEF MarkProcessing, SetStatus, Goto, At, Of, Live
<1>13. ASSUME NEW w \in Workers, OcrSucceeds(w)
       PROVE  TypeOK'
  <2>1. worker' \in [Workers -> [pc: WorkerPc, job: Jobs \cup {NoJob}, seen: RowState]]
    BY <1>13, GotoType DEF OcrSucceeds
  <2>2. row' \in [Receipts -> RowState]
    BY <1>13 DEF OcrSucceeds, SetStatus
  <2> QED
    BY <1>13, <2>1, <2>2 DEF OcrSucceeds
<1>14. ASSUME NEW w \in Workers, OcrRejects(w)
       PROVE  TypeOK'
  <2>1. worker' \in [Workers -> [pc: WorkerPc, job: Jobs \cup {NoJob}, seen: RowState]]
    BY <1>14, GotoType DEF OcrRejects
  <2>2. row' \in [Receipts -> RowState]
    BY <1>14 DEF OcrRejects, SetStatus
  <2> QED
    BY <1>14, <2>1, <2>2 DEF OcrRejects
<1>15. ASSUME NEW w \in Workers, OcrErrors(w)
       PROVE  TypeOK'
  <2>1. worker' \in [Workers -> [pc: WorkerPc, job: Jobs \cup {NoJob}, seen: RowState]]
    BY <1>15, GotoType DEF OcrErrors
  <2>2. row' \in [Receipts -> RowState]
    BY <1>15 DEF OcrErrors, SetStatus
  <2> QED
    BY <1>15, <2>1, <2>2 DEF OcrErrors
<1>16. ASSUME NEW w \in Workers, EnqueueCategorisation(w)
       PROVE  TypeOK'
  <2>1. queue' \in [Jobs -> Nat]
    BY <1>16, CountUp DEF EnqueueCategorisation, Send
  <2>2. worker' \in [Workers -> [pc: WorkerPc, job: Jobs \cup {NoJob}, seen: RowState]]
    BY <1>16, GotoType DEF EnqueueCategorisation
  <2> QED
    BY <1>16, <2>1, <2>2 DEF EnqueueCategorisation
<1>17. ASSUME NEW w \in Workers, AlreadyBooked(w)
       PROVE  TypeOK'
  <2>1. worker' \in [Workers -> [pc: WorkerPc, job: Jobs \cup {NoJob}, seen: RowState]]
    <3> DEFINE to == IF worker[w].seen = "categorised" THEN "ack" ELSE "agree"
    <3>1. to \in WorkerPc /\ Goto(w, to)
      BY <1>17 DEF AlreadyBooked
    <3> HIDE DEF to
    <3> QED
      BY <3>1, GotoType
  <2> QED
    BY <1>17, <2>1 DEF AlreadyBooked
<1>17a. ASSUME NEW w \in Workers, AgreeWithExpense(w)
        PROVE  TypeOK'
  <2>1. worker' \in [Workers -> [pc: WorkerPc, job: Jobs \cup {NoJob}, seen: RowState]]
    BY <1>17a, GotoType DEF AgreeWithExpense
  <2>2. row' \in [Receipts -> RowState]
    BY <1>17a DEF AgreeWithExpense, SetStatus
  <2> QED
    BY <1>17a, <2>1, <2>2 DEF AgreeWithExpense
<1>18. ASSUME NEW w \in Workers, NotParsed(w)
       PROVE  TypeOK'
  BY <1>18 DEF NotParsed, HasExpense, Goto, At, Of, Live
<1>19. ASSUME NEW w \in Workers, CallCategoriser(w)
       PROVE  TypeOK'
  BY <1>19 DEF CallCategoriser, HasExpense, Goto, At, Of, Live
<1>20. ASSUME NEW w \in Workers, Book(w)
       PROVE  TypeOK'
  <2>1. expenses' \in [Receipts -> Nat]
    BY <1>20, CountUp DEF Book
  <2>2. worker' \in [Workers -> [pc: WorkerPc, job: Jobs \cup {NoJob}, seen: RowState]]
    BY <1>20, GotoType DEF Book
  <2> QED
    BY <1>20, <2>1, <2>2 DEF Book, SetStatus
<1>21. ASSUME NEW w \in Workers, BookCollides(w)
       PROVE  TypeOK'
  BY <1>21 DEF BookCollides, ReceiptIdFree, Goto, At, Of, Live
<1>21a. ASSUME NEW w \in Workers, CategoriseErrors(w)
        PROVE  TypeOK'
  BY <1>21a DEF CategoriseErrors, Goto, At
<1>22. ASSUME NEW w \in Workers, StaleWrite(w)
       PROVE  TypeOK'
  BY <1>22 DEF StaleWrite, Goto, At, Of, Live
<1>23. ASSUME NEW w \in Workers, Retry(w)
       PROVE  TypeOK'
  <2>1. queue' \in [Jobs -> Nat]
    BY <1>23, CountUp DEF Retry, Send
  <2> QED
    BY <1>23, <2>1 DEF Retry, Goto
<1>24. ASSUME NEW w \in Workers, GiveUp(w)
       PROVE  TypeOK'
  <2>1. worker' \in [Workers -> [pc: WorkerPc, job: Jobs \cup {NoJob}, seen: RowState]]
    BY <1>24, GotoType DEF GiveUp
  <2>2. worker[w].job.task = "categorise" => Of(w) \in Receipts
    BY DEF NoJob, Jobs, Of
  <2>3. abandoned' \in SUBSET Receipts
    BY <1>24, <2>2 DEF GiveUp
  <2> QED
    BY <1>24, <2>1, <2>3 DEF GiveUp
<1>25. ASSUME NEW w \in Workers, Ack(w)
       PROVE  TypeOK'
  BY <1>25 DEF Ack, IdleWorker
<1>26. ASSUME NEW a \in Requests, UploadInsertFails(a)
       PROVE  TypeOK'
  BY <1>26 DEF UploadInsertFails, Fault
<1>27. ASSUME NEW a \in Requests, EnqueueFails(a)
       PROVE  TypeOK'
  BY <1>27 DEF EnqueueFails, Respond, Fault, IdleRequest
<1>28. ASSUME NEW a \in Requests, BlobDeleteFails(a)
       PROVE  TypeOK'
  BY <1>28 DEF BlobDeleteFails, Respond, Fault, IdleRequest
<1>29. ASSUME NEW a \in Requests, ApiCrash(a)
       PROVE  TypeOK'
  BY <1>29 DEF ApiCrash, Respond, Fault, IdleRequest
<1>30. ASSUME NEW w \in Workers, EnqueueCategorisationFails(w)
       PROVE  TypeOK'
  <2>1. worker' \in [Workers -> [pc: WorkerPc, job: Jobs \cup {NoJob}, seen: RowState]]
    BY <1>30, GotoType DEF EnqueueCategorisationFails
  <2>2. row' \in [Receipts -> RowState]
    BY <1>30 DEF EnqueueCategorisationFails
  <2> QED
    BY <1>30, <2>1, <2>2 DEF EnqueueCategorisationFails, Fault
<1>31. ASSUME NEW w \in Workers, TaskAborts(w)
       PROVE  TypeOK'
  <2>1. worker' \in [Workers -> [pc: WorkerPc, job: Jobs \cup {NoJob}, seen: RowState]]
    BY <1>31, GotoType DEF TaskAborts
  <2> QED
    BY <1>31, <2>1 DEF TaskAborts, Fault
<1>32. ASSUME NEW w \in Workers, RetryDispatchFails(w)
       PROVE  TypeOK'
  BY <1>32 DEF RetryDispatchFails, Goto, Fault
<1>33. ASSUME NEW w \in Workers, WorkerDies(w)
       PROVE  TypeOK'
  <2>1. queue' \in [Jobs -> Nat]
    BY <1>33, CountUp DEF WorkerDies, Send
  <2> QED
    BY <1>33, <2>1 DEF WorkerDies, Fault, IdleWorker
<1>34. ASSUME NEW w \in Workers, ChildKilled(w)
       PROVE  TypeOK'
  BY <1>34 DEF ChildKilled, Fault, IdleWorker
<1>35. CASE UNCHANGED vars
  BY <1>35 DEF vars
<1> QED
  BY <1>1, <1>2, <1>3, <1>4, <1>5, <1>6, <1>7, <1>8, <1>9, <1>10, <1>11, <1>12, <1>13,
    <1>14, <1>15, <1>16, <1>17, <1>17a, <1>18, <1>19, <1>20, <1>21, <1>21a, <1>22, <1>23,
    <1>24, <1>25, <1>26, <1>27, <1>28, <1>29, <1>30, <1>31, <1>32, <1>33, <1>34, <1>35
    DEF Next, UserStep, RequestStep, ProcessStep, CategoriseStep, WorkerStep,
      FaultStep

-----------------------------------------------------------------------------
(* The safety invariant is inductive. *)

\* The empty system satisfies the safety invariant.
LEMMA SafetyInit == Init => SafetyInv
BY NoReceiptAssumption, BoundsAssumption
DEF Init, SafetyInv, TypeOK, ProcessesHold, RequestsKnow, UploadsAreAlone,
  AgreementsHaveExpense, RowHasBlob,
  OneExpensePerReceipt, CategorisedWasBooked, JobsNameCommittedRows, RowState, Status,
  WorkerPc, ApiPc, Jobs, NoJob, IdleWorker, IdleRequest, Live, Of

\* Every step of every request and of every worker, and every fault, keeps the
\* safety invariant.  The order of the writes carries the argument: the blob
\* before the row, the row before the message, and back in the reverse order.
LEMMA SafetyStep == SafetyInv /\ [Next]_vars => SafetyInv'
<1> SUFFICES ASSUME SafetyInv, [Next]_vars
             PROVE  SafetyInv'
  OBVIOUS
<1>0. TypeOK'
  BY TypeStep DEF SafetyInv
<1> USE <1>0, NoReceiptAssumption
    DEF SafetyInv, TypeOK, ProcessesHold, RequestsKnow, UploadsAreAlone,
        AgreementsHaveExpense, RowHasBlob,
        OneExpensePerReceipt, CategorisedWasBooked, JobsNameCommittedRows,
        RowState, Status, WorkerPc, ApiPc, Jobs, Live, Of
<1>1. ASSUME NEW a \in Requests, NEW r \in Receipts, UploadPut(a, r)
      PROVE  SafetyInv'
  BY <1>1 DEF UploadPut, Fresh
<1>2. ASSUME NEW a \in Requests, NEW r \in Receipts, RetryRead(a, r)
      PROVE  SafetyInv'
  BY <1>2 DEF RetryRead
<1>3. ASSUME NEW a \in Requests, NEW r \in Receipts, DeleteRow(a, r)
      PROVE  SafetyInv'
  BY <1>3 DEF DeleteRow, SetStatus
<1>4. ASSUME NEW r \in Receipts, DeleteExpense(r)
      PROVE  SafetyInv'
  BY <1>4 DEF DeleteExpense
<1>5. ASSUME NEW a \in Requests, UploadInsert(a)
      PROVE  SafetyInv'
  BY <1>5 DEF UploadInsert, SetStatus
<1>6. ASSUME NEW a \in Requests, UploadCleanup(a)
      PROVE  SafetyInv'
  BY <1>6 DEF UploadCleanup, Respond, IdleRequest
<1>7. ASSUME NEW a \in Requests, Enqueue(a)
      PROVE  SafetyInv'
  BY <1>7 DEF Enqueue, ProcessJob, Send, Respond, IdleRequest
<1>8. ASSUME NEW a \in Requests, RefreshFails(a)
      PROVE  SafetyInv'
  BY <1>8 DEF RefreshFails, Respond, IdleRequest
<1>9. ASSUME NEW a \in Requests, RetryReset(a)
      PROVE  SafetyInv'
  <2>1. CASE Live(api[a].receipt)
    <3>1. /\ row' = [row EXCEPT ![api[a].receipt] = "uploaded"]
          /\ api' = [api EXCEPT ![a].pc = "enqueue"]
          /\ UNCHANGED <<blobs, expenses, dropped, queue, worker>>
          /\ api[a].receipt \in Receipts /\ row[api[a].receipt] # "none"
      BY <1>9, <2>1 DEF RetryReset, SetStatus
    <3> QED
      BY <2>1, <3>1
  <2>2. CASE ~Live(api[a].receipt)
    <3>1. /\ api' = [api EXCEPT ![a] = IdleRequest]
          /\ UNCHANGED <<row, blobs, expenses, dropped, queue, worker>>
      BY <1>9, <2>2 DEF RetryReset, Respond
    <3> QED
      BY <3>1 DEF IdleRequest
  <2> QED
    BY <2>1, <2>2
<1>10. ASSUME NEW a \in Requests, DeleteBlob(a)
       PROVE  SafetyInv'
  BY <1>10 DEF DeleteBlob, Respond, IdleRequest
<1>11. ASSUME NEW w \in Workers, NEW j \in Jobs, Deliver(w, j)
       PROVE  SafetyInv'
  BY <1>11 DEF Deliver
<1>12. ASSUME NEW w \in Workers, MarkProcessing(w)
       PROVE  SafetyInv'
  BY <1>12 DEF MarkProcessing, SetStatus, Goto, At
<1>13. ASSUME NEW w \in Workers, OcrSucceeds(w)
       PROVE  SafetyInv'
  BY <1>13 DEF OcrSucceeds, SetStatus, Goto, At
<1>14. ASSUME NEW w \in Workers, OcrRejects(w)
       PROVE  SafetyInv'
  BY <1>14 DEF OcrRejects, SetStatus, Goto, At
<1>15. ASSUME NEW w \in Workers, OcrErrors(w)
       PROVE  SafetyInv'
  BY <1>15 DEF OcrErrors, SetStatus, Goto, At
<1>16. ASSUME NEW w \in Workers, EnqueueCategorisation(w)
       PROVE  SafetyInv'
  BY <1>16 DEF EnqueueCategorisation, CategoriseJob, Send, Goto, At
<1>17. ASSUME NEW w \in Workers, AlreadyBooked(w)
       PROVE  SafetyInv'
  BY <1>17 DEF AlreadyBooked, HasExpense, Goto, At
<1>17a. ASSUME NEW w \in Workers, AgreeWithExpense(w)
        PROVE  SafetyInv'
  BY <1>17a DEF AgreeWithExpense, SetStatus, Goto, At
<1>18. ASSUME NEW w \in Workers, NotParsed(w)
       PROVE  SafetyInv'
  BY <1>18 DEF NotParsed, HasExpense, Goto, At
<1>19. ASSUME NEW w \in Workers, CallCategoriser(w)
       PROVE  SafetyInv'
  BY <1>19 DEF CallCategoriser, HasExpense, Goto, At
<1>20. ASSUME NEW w \in Workers, Book(w)
       PROVE  SafetyInv'
  BY <1>20 DEF Book, ReceiptIdFree, SetStatus, Goto, At
<1>21. ASSUME NEW w \in Workers, BookCollides(w)
       PROVE  SafetyInv'
  BY <1>21 DEF BookCollides, ReceiptIdFree, Goto, At
<1>21a. ASSUME NEW w \in Workers, CategoriseErrors(w)
        PROVE  SafetyInv'
  BY <1>21a DEF CategoriseErrors, Goto, At
<1>22. ASSUME NEW w \in Workers, StaleWrite(w)
       PROVE  SafetyInv'
  BY <1>22 DEF StaleWrite, Goto, At
<1>23. ASSUME NEW w \in Workers, Retry(w)
       PROVE  SafetyInv'
  <2>1. worker[w].job \in Jobs /\ row[Of(w)] # "none"
    BY <1>23 DEF Retry
  <2>2. PICK j : /\ j = [worker[w].job EXCEPT !.tries = @ + 1] /\ j.receipt = Of(w)
                 /\ queue' = [queue EXCEPT ![j] = @ + 1]
    BY <1>23, <2>1 DEF Retry, Send
  <2>3. JobsNameCommittedRows'
    BY <1>23, <2>1, <2>2 DEF Retry, Goto
  <2>4. ProcessesHold'
    BY <1>23 DEF Retry, Goto
  <2>5. AgreementsHaveExpense'
    BY <1>23 DEF Retry, Goto
  <2> QED
    BY <1>23, <2>3, <2>4, <2>5 DEF Retry
<1>24. ASSUME NEW w \in Workers, GiveUp(w)
       PROVE  SafetyInv'
  BY <1>24 DEF GiveUp, Goto
<1>25. ASSUME NEW w \in Workers, Ack(w)
       PROVE  SafetyInv'
  BY <1>25 DEF Ack, IdleWorker, NoJob
<1>26. ASSUME NEW a \in Requests, UploadInsertFails(a)
       PROVE  SafetyInv'
  BY <1>26 DEF UploadInsertFails, Fault
<1>27. ASSUME NEW a \in Requests, EnqueueFails(a)
       PROVE  SafetyInv'
  BY <1>27 DEF EnqueueFails, Respond, Fault, IdleRequest
<1>28. ASSUME NEW a \in Requests, BlobDeleteFails(a)
       PROVE  SafetyInv'
  BY <1>28 DEF BlobDeleteFails, Respond, Fault, IdleRequest
<1>29. ASSUME NEW a \in Requests, ApiCrash(a)
       PROVE  SafetyInv'
  BY <1>29 DEF ApiCrash, Respond, Fault, IdleRequest
<1>30. ASSUME NEW w \in Workers, EnqueueCategorisationFails(w)
       PROVE  SafetyInv'
  <2>1. CASE Live(Of(w))
    BY SMTT(20), <1>30, <2>1 DEF EnqueueCategorisationFails, Goto, At
  <2>2. CASE ~Live(Of(w))
    <3>1. UNCHANGED <<row, blobs, expenses, dropped, queue, api>> /\ worker[w].pc = "parsed"
      BY <1>30, <2>2 DEF EnqueueCategorisationFails, At
    <3>2. /\ worker'[w].pc = "retry"
          /\ \A v \in Workers : worker'[v].job = worker[v].job
          /\ \A v \in Workers : v # w => worker'[v] = worker[v]
      BY <1>30, GotoMoves DEF EnqueueCategorisationFails
    <3>3. ProcessesHold' /\ JobsNameCommittedRows' /\ AgreementsHaveExpense'
      BY <3>1, <3>2
    <3> QED
      BY <3>1, <3>3
  <2> QED
    BY <2>1, <2>2
<1>31. ASSUME NEW w \in Workers, TaskAborts(w)
       PROVE  SafetyInv'
  BY <1>31 DEF TaskAborts, Goto, Fault
<1>32. ASSUME NEW w \in Workers, RetryDispatchFails(w)
       PROVE  SafetyInv'
  BY <1>32 DEF RetryDispatchFails, Goto, Fault
<1>33. ASSUME NEW w \in Workers, WorkerDies(w)
       PROVE  SafetyInv'
  BY <1>33 DEF WorkerDies, Send, Fault, IdleWorker, NoJob
<1>34. ASSUME NEW w \in Workers, ChildKilled(w)
       PROVE  SafetyInv'
  BY <1>34 DEF ChildKilled, Fault, IdleWorker, NoJob
<1>35. CASE UNCHANGED vars
  BY <1>35 DEF vars
<1> QED
  BY <1>1, <1>2, <1>3, <1>4, <1>5, <1>6, <1>7, <1>8, <1>9, <1>10, <1>11, <1>12, <1>13,
    <1>14, <1>15, <1>16, <1>17, <1>17a, <1>18, <1>19, <1>20, <1>21, <1>21a, <1>22, <1>23,
    <1>24, <1>25, <1>26, <1>27, <1>28, <1>29, <1>30, <1>31, <1>32, <1>33, <1>34, <1>35
    DEF Next, UserStep, RequestStep, ProcessStep, CategoriseStep, WorkerStep,
      FaultStep

\* In every behaviour, with any faults, the whole safety invariant holds.
THEOREM Safety == Spec => []SafetyInv
<1> QED
  BY SafetyInit, SafetyStep, PTL DEF Spec

\* Every variable stays in its type; no message exceeds its retry budget.
THEOREM TypeCorrect == Spec => []TypeOK
<1>1. SafetyInv => TypeOK
  BY DEF SafetyInv
<1> QED
  BY <1>1, Safety, PTL

\* A committed row's object is in the bucket: put before INSERT, DELETE before
\* the object's deletion, whatever fails between (create_receipt, delete_receipt).
THEOREM RowsHaveBlobs == Spec => []RowHasBlob
<1>1. SafetyInv => RowHasBlob
  BY DEF SafetyInv
<1> QED
  BY <1>1, Safety, PTL

\* No interleaving of tasks, redeliveries and user retries books a receipt twice.
THEOREM AtMostOneExpense == Spec => []OneExpensePerReceipt
<1>1. SafetyInv => OneExpensePerReceipt
  BY DEF SafetyInv
<1> QED
  BY <1>1, Safety, PTL

\* A row reads "categorised" only with its expense, or after the user deleted it
\* (categorise_receipt commits both in one transaction).
THEOREM CategorisedIsBooked == Spec => []CategorisedWasBooked
<1>1. SafetyInv => CategorisedWasBooked
  BY DEF SafetyInv
<1> QED
  BY <1>1, Safety, PTL

\* A message names a row that was committed, so a task that finds none may
\* conclude that it was deleted.
THEOREM JobsFollowRows == Spec => []JobsNameCommittedRows
<1>1. SafetyInv => JobsNameCommittedRows
  BY DEF SafetyInv
<1> QED
  BY <1>1, Safety, PTL

-----------------------------------------------------------------------------
(* The pipeline implements the ledger. *)

\* The pipeline starts as an empty ledger.
LEMMA LedgerInit == Init => Ledger!Init
BY DEF Init, Ledger!Init, Live, Status

\* A step of the pipeline is one of the ledger (the INSERT of the row, its
\* DELETE, the booking, the user's deletion of an expense) or none.
LEMMA LedgerStep == SafetyInv /\ [Next]_vars => [Ledger!Next]_(Ledger!vars)
<1> SUFFICES ASSUME SafetyInv, [Next]_vars
             PROVE  [Ledger!Next]_(Ledger!vars)
  OBVIOUS
<1> USE DEF SafetyInv, TypeOK, ProcessesHold, RequestsKnow, OneExpensePerReceipt,
        Ledger!Next, Ledger!vars, Ledger!Store, Ledger!Discard, RowState, Status, Jobs, Live, Of
<1>1. ASSUME NEW a \in Requests, NEW r \in Receipts, UploadPut(a, r)
      PROVE  [Ledger!Next]_(Ledger!vars)
  BY <1>1 DEF UploadPut, Fresh
<1>2. ASSUME NEW a \in Requests, NEW r \in Receipts, RetryRead(a, r)
      PROVE  [Ledger!Next]_(Ledger!vars)
  BY <1>2 DEF RetryRead
<1>3. ASSUME NEW a \in Requests, NEW r \in Receipts, DeleteRow(a, r)
      PROVE  [Ledger!Next]_(Ledger!vars)
  BY <1>3 DEF DeleteRow, SetStatus
<1>4. ASSUME NEW r \in Receipts, DeleteExpense(r)
      PROVE  [Ledger!Next]_(Ledger!vars)
  <2>1. expenses[r] = 1 /\ UNCHANGED row
    BY <1>4 DEF DeleteExpense
  <2>2. expenses' = [expenses EXCEPT ![r] = 0]
    BY <1>4, <2>1 DEF DeleteExpense
  <2>3. Ledger!RemoveExpense(r)
    BY <2>1, <2>2 DEF Ledger!RemoveExpense
  <2> QED
    BY <2>3
<1>5. ASSUME NEW a \in Requests, UploadInsert(a)
      PROVE  [Ledger!Next]_(Ledger!vars)
  <2> DEFINE r == api[a].receipt
  <2>1. r \in Receipts /\ row[r] = "none" /\ UNCHANGED expenses
    BY <1>5 DEF UploadInsert
  <2>2. row' = [row EXCEPT ![r] = "uploaded"]
    BY <1>5 DEF UploadInsert, SetStatus
  <2>3. Ledger!Store(r)
    BY <2>1, <2>2
  <2> QED
    BY <2>1, <2>3
<1>6. ASSUME NEW a \in Requests, UploadCleanup(a)
      PROVE  [Ledger!Next]_(Ledger!vars)
  BY <1>6 DEF UploadCleanup, Respond, IdleRequest
<1>7. ASSUME NEW a \in Requests, Enqueue(a)
      PROVE  [Ledger!Next]_(Ledger!vars)
  BY <1>7 DEF Enqueue, ProcessJob, Send, Respond, IdleRequest
<1>8. ASSUME NEW a \in Requests, RefreshFails(a)
      PROVE  [Ledger!Next]_(Ledger!vars)
  BY <1>8 DEF RefreshFails, Respond, IdleRequest
<1>9. ASSUME NEW a \in Requests, RetryReset(a)
      PROVE  [Ledger!Next]_(Ledger!vars)
  BY <1>9 DEF RetryReset, SetStatus, Respond, IdleRequest
<1>10. ASSUME NEW a \in Requests, DeleteBlob(a)
       PROVE  [Ledger!Next]_(Ledger!vars)
  BY <1>10 DEF DeleteBlob, Respond, IdleRequest
<1>11. ASSUME NEW w \in Workers, NEW j \in Jobs, Deliver(w, j)
       PROVE  [Ledger!Next]_(Ledger!vars)
  BY <1>11 DEF Deliver
<1>12. ASSUME NEW w \in Workers, MarkProcessing(w)
       PROVE  [Ledger!Next]_(Ledger!vars)
  BY <1>12 DEF MarkProcessing, SetStatus, Goto, At
<1>13. ASSUME NEW w \in Workers, OcrSucceeds(w)
       PROVE  [Ledger!Next]_(Ledger!vars)
  BY <1>13 DEF OcrSucceeds, SetStatus, Goto, At
<1>14. ASSUME NEW w \in Workers, OcrRejects(w)
       PROVE  [Ledger!Next]_(Ledger!vars)
  BY <1>14 DEF OcrRejects, SetStatus, Goto, At
<1>15. ASSUME NEW w \in Workers, OcrErrors(w)
       PROVE  [Ledger!Next]_(Ledger!vars)
  BY <1>15 DEF OcrErrors, SetStatus, Goto, At
<1>16. ASSUME NEW w \in Workers, EnqueueCategorisation(w)
       PROVE  [Ledger!Next]_(Ledger!vars)
  BY <1>16 DEF EnqueueCategorisation, CategoriseJob, Send, Goto, At
<1>17. ASSUME NEW w \in Workers, AlreadyBooked(w)
       PROVE  [Ledger!Next]_(Ledger!vars)
  BY <1>17 DEF AlreadyBooked, HasExpense, Goto, At
<1>17a. ASSUME NEW w \in Workers, AgreeWithExpense(w)
        PROVE  [Ledger!Next]_(Ledger!vars)
  BY <1>17a DEF AgreeWithExpense, SetStatus, Goto, At
<1>18. ASSUME NEW w \in Workers, NotParsed(w)
       PROVE  [Ledger!Next]_(Ledger!vars)
  BY <1>18 DEF NotParsed, HasExpense, Goto, At
<1>19. ASSUME NEW w \in Workers, CallCategoriser(w)
       PROVE  [Ledger!Next]_(Ledger!vars)
  BY <1>19 DEF CallCategoriser, HasExpense, Goto, At
<1>20. ASSUME NEW w \in Workers, Book(w)
       PROVE  [Ledger!Next]_(Ledger!vars)
  <2> DEFINE r == Of(w)
  <2>1. r \in Receipts /\ expenses[r] = 0 /\ Live(r)
    BY <1>20 DEF Book, ReceiptIdFree, At
  <2>2. expenses' = [expenses EXCEPT ![r] = 1]
    BY <1>20, <2>1 DEF Book
  <2>3. row' = [row EXCEPT ![r] = "categorised"]
    BY <1>20 DEF Book, SetStatus
  <2>4. \A q \in Receipts : (IF Live(q) THEN "live" ELSE row[q])
                            = (IF Live(q) THEN "live" ELSE row[q])'
    BY <2>1, <2>3
  <2>5. Ledger!BookExpense(r)
    BY <2>1, <2>2, <2>4 DEF Ledger!BookExpense
  <2> QED
    BY <2>1, <2>5
<1>21. ASSUME NEW w \in Workers, BookCollides(w)
       PROVE  [Ledger!Next]_(Ledger!vars)
  BY <1>21 DEF BookCollides, ReceiptIdFree, Goto, At
<1>21a. ASSUME NEW w \in Workers, CategoriseErrors(w)
        PROVE  [Ledger!Next]_(Ledger!vars)
  BY <1>21a DEF CategoriseErrors, Goto, At
<1>22. ASSUME NEW w \in Workers, StaleWrite(w)
       PROVE  [Ledger!Next]_(Ledger!vars)
  BY <1>22 DEF StaleWrite, Goto, At
<1>23. ASSUME NEW w \in Workers, Retry(w)
       PROVE  [Ledger!Next]_(Ledger!vars)
  BY <1>23 DEF Retry, Send, Goto
<1>24. ASSUME NEW w \in Workers, GiveUp(w)
       PROVE  [Ledger!Next]_(Ledger!vars)
  BY <1>24 DEF GiveUp, Goto
<1>25. ASSUME NEW w \in Workers, Ack(w)
       PROVE  [Ledger!Next]_(Ledger!vars)
  BY <1>25 DEF Ack, IdleWorker, NoJob
<1>26. ASSUME NEW a \in Requests, UploadInsertFails(a)
       PROVE  [Ledger!Next]_(Ledger!vars)
  BY <1>26 DEF UploadInsertFails, Fault
<1>27. ASSUME NEW a \in Requests, EnqueueFails(a)
       PROVE  [Ledger!Next]_(Ledger!vars)
  BY <1>27 DEF EnqueueFails, Respond, Fault, IdleRequest
<1>28. ASSUME NEW a \in Requests, BlobDeleteFails(a)
       PROVE  [Ledger!Next]_(Ledger!vars)
  BY <1>28 DEF BlobDeleteFails, Respond, Fault, IdleRequest
<1>29. ASSUME NEW a \in Requests, ApiCrash(a)
       PROVE  [Ledger!Next]_(Ledger!vars)
  BY <1>29 DEF ApiCrash, Respond, Fault, IdleRequest
<1>30. ASSUME NEW w \in Workers, EnqueueCategorisationFails(w)
       PROVE  [Ledger!Next]_(Ledger!vars)
  BY <1>30 DEF EnqueueCategorisationFails, Goto, At, Fault
<1>31. ASSUME NEW w \in Workers, TaskAborts(w)
       PROVE  [Ledger!Next]_(Ledger!vars)
  BY <1>31 DEF TaskAborts, Goto, Fault
<1>32. ASSUME NEW w \in Workers, RetryDispatchFails(w)
       PROVE  [Ledger!Next]_(Ledger!vars)
  BY <1>32 DEF RetryDispatchFails, Goto, Fault
<1>33. ASSUME NEW w \in Workers, WorkerDies(w)
       PROVE  [Ledger!Next]_(Ledger!vars)
  BY <1>33 DEF WorkerDies, Send, Fault, IdleWorker, NoJob
<1>34. ASSUME NEW w \in Workers, ChildKilled(w)
       PROVE  [Ledger!Next]_(Ledger!vars)
  BY <1>34 DEF ChildKilled, Fault, IdleWorker, NoJob
<1>35. CASE UNCHANGED vars
  BY <1>35 DEF vars
<1> QED
  BY <1>1, <1>2, <1>3, <1>4, <1>5, <1>6, <1>7, <1>8, <1>9, <1>10, <1>11, <1>12, <1>13,
    <1>14, <1>15, <1>16, <1>17, <1>17a, <1>18, <1>19, <1>20, <1>21, <1>21a, <1>22, <1>23,
    <1>24, <1>25, <1>26, <1>27, <1>28, <1>29, <1>30, <1>31, <1>32, <1>33, <1>34, <1>35
    DEF Next, UserStep, RequestStep, ProcessStep, CategoriseStep, WorkerStep,
      FaultStep

\* Every behaviour of the pipeline is one of the ledger: a receipt is booked only
\* while it exists and has no expense, and a deleted receipt stays deleted.
THEOREM PipelineImplementsLedger == Spec => ImplementsLedger
<1> QED
  BY LedgerInit, LedgerStep, Safety, PTL DEF Spec, ImplementsLedger, Ledger!Spec

-----------------------------------------------------------------------------
(* The work that is left runs out. *)

\* Receipts, workers and requests can be counted.
FiniteSystem == IsFiniteSet(Receipts) /\ IsFiniteSet(Workers) /\ IsFiniteSet(Requests)

\* There are finitely many messages when there are finitely many receipts.
LEMMA JobsAreFinite ==
  ASSUME IsFiniteSet(Receipts)
  PROVE  IsFiniteSet(Jobs)
<1> DEFINE tasks == {"process", "categorise"}
           S == tasks \X (Receipts \X (0..MaxRetries))
           f == [s \in S |-> [task |-> s[1], receipt |-> s[2][1], tries |-> s[2][2]]]
<1>1. IsFiniteSet(tasks) /\ IsFiniteSet(0..MaxRetries)
  <2>1. IsFiniteSet({"process"}) /\ tasks = {"process"} \cup {"categorise"}
    BY FS_Singleton
  <2>2. IsFiniteSet({"categorise"})
    BY FS_Singleton
  <2>3. 0 \in Int /\ MaxRetries \in Int
    BY BoundsAssumption
  <2>4. IsFiniteSet(tasks)
    BY <2>1, <2>2, FS_Union
  <2> QED
    BY <2>3, <2>4, FS_Interval
<1>2. IsFiniteSet(S)
  <2>1. IsFiniteSet(Receipts \X (0..MaxRetries))
    BY <1>1, FS_Product
  <2> HIDE DEF tasks
  <2> QED
    BY <1>1, <2>1, FS_Product
<1>3. f \in Surjection(S, Jobs)
  <2>1. f \in [S -> Jobs]
    BY DEF Jobs
  <2>2. ASSUME NEW j \in Jobs PROVE \E s \in S : f[s] = j
    <3>1. <<j.task, <<j.receipt, j.tries>>>> \in S
      BY DEF Jobs
    <3>2. f[<<j.task, <<j.receipt, j.tries>>>>] = j
      BY <3>1 DEF Jobs
    <3> QED
      BY <3>1, <3>2
  <2> HIDE DEF f, S
  <2> QED
    BY <2>1, <2>2 DEF Surjection
<1> HIDE DEF f, S
<1> QED
  BY <1>2, <1>3, FS_Surjection

\* A message is worth an attempt at least; a retry is worth an attempt less, and
\* the categorise_receipt that follows one less than any process_receipt.
LEMMA JobsAreWorth ==
  ASSUME NEW j \in Jobs
  PROVE  /\ JobWork(j) \in Nat /\ JobWork(j) >= 6 /\ JobWork(j) <= UploadWork - 2
         /\ \A r \in Receipts : /\ JobWork(ProcessJob(r)) = UploadWork - 2
                                /\ j.task = "process" =>
                                     JobWork(CategoriseJob(r)) + 6 <= JobWork(j)
         /\ JobWork([j EXCEPT !.tries = @ + 1]) = JobWork(j) - 6
         /\ UploadWork \in Nat /\ UploadWork >= 14
<1>1. MaxRetries \in Nat /\ j.tries \in 0..MaxRetries /\ j.task \in {"process", "categorise"}
  BY BoundsAssumption DEF Jobs
<1>2. /\ [j EXCEPT !.tries = @ + 1].tries = j.tries + 1
      /\ [j EXCEPT !.tries = @ + 1].task = j.task
  BY DEF Jobs
<1> QED
  BY <1>1, <1>2 DEF JobWork, AttemptsWork, StepsOfAttempt, UploadWork, ProcessJob, CategoriseJob

\* What the points of a task and of a request are worth.
LEMMA PointsAreWorth ==
  ASSUME NEW s
  PROVE  /\ s.pc = "idle" => WorkerHolds(s) = 0
         /\ s.pc = "ack" => WorkerHolds(s) = 1
         /\ s.pc = "selected" => WorkerHolds(s) = JobWork(s.job) - 1
         /\ s.pc \in {"ocr", "agree", "calling"} => WorkerHolds(s) = JobWork(s.job) - 2
         /\ s.pc = "parsed" => WorkerHolds(s) = JobWork(s.job) - 3
         /\ s.pc = "retry" => WorkerHolds(s) = JobWork(s.job) - 4
         /\ s.pc = "idle" => RequestHolds(s) = 0
         /\ s.pc \in {"cleanup", "unblob"} => RequestHolds(s) = 1
         /\ s.pc = "enqueue" => RequestHolds(s) = UploadWork - 1
         /\ s.pc \in {"insert", "reset"} => RequestHolds(s) = UploadWork
  BY DEF WorkerHolds, StepsTaken, RequestHolds

\* The parts of the work.
QueueTotal == Sum(QueueWork, Jobs)
WorkerTotal == Sum(WorkerWork, Workers)
RequestTotal == Sum(RequestWork, Requests)

\* The work that is left is what the messages, the workers and the requests hold,
\* all of it numbers.
WorkIsCounted ==
  /\ Work = QueueTotal + WorkerTotal + RequestTotal
  /\ \A j \in Jobs : QueueWork[j] \in Int
  /\ \A w \in Workers : WorkerWork[w] \in Int
  /\ \A a \in Requests : RequestWork[a] \in Int

\* ... in every state that the safety invariant allows.
LEMMA WorkCounts == SafetyInv => WorkIsCounted
<1> SUFFICES ASSUME SafetyInv PROVE WorkIsCounted
  OBVIOUS
<1>1. ASSUME NEW j \in Jobs PROVE QueueWork[j] \in Int
  <2>1. queue[j] \in Nat /\ JobWork(j) \in Nat
    BY JobsAreWorth DEF SafetyInv, TypeOK
  <2> QED
    BY <2>1 DEF QueueWork
<1>2. ASSUME NEW w \in Workers PROVE WorkerWork[w] \in Int
  <2>1. worker[w].pc \in WorkerPc
    BY DEF SafetyInv, TypeOK
  <2>2. worker[w].pc # "idle" => JobWork(worker[w].job) \in Nat
    BY JobsAreWorth DEF SafetyInv, ProcessesHold
  <2> QED
    BY <2>1, <2>2, PointsAreWorth DEF WorkerWork, WorkerPc
<1>3. ASSUME NEW a \in Requests PROVE RequestWork[a] \in Int
  <2>1. UploadWork \in Int /\ api[a].pc \in ApiPc
    BY BoundsAssumption DEF UploadWork, AttemptsWork, StepsOfAttempt, SafetyInv, TypeOK
  <2> QED
    BY <2>1, PointsAreWorth DEF RequestWork, ApiPc
<1>4. Work = QueueTotal + WorkerTotal + RequestTotal
  BY SumFunctionIsSum DEF Work, QueueTotal, WorkerTotal, RequestTotal
<1> QED
  BY <1>1, <1>2, <1>3, <1>4 DEF WorkIsCounted

\* A step that moves messages, workers and requests changes the work by what it
\* changes of each.
LEMMA QueueMoves ==
  ASSUME IsFiniteSet(Receipts), SafetyInv, SafetyInv', NEW j \in Jobs, NEW n \in Int,
         queue' = [queue EXCEPT ![j] = @ + n]
  PROVE  /\ QueueTotal \in Int /\ QueueTotal' \in Int
         /\ QueueTotal' = QueueTotal + n * JobWork(j)
<1>1. WorkIsCounted /\ WorkIsCounted'
  BY WorkCounts, PTL
<1>0. JobWork(j) \in Int
  <2>1. JobWork(j) \in Nat
    BY JobsAreWorth
  <2> QED
    BY <2>1
<1>2. \A i \in Jobs : i # j => QueueWork'[i] = QueueWork[i]
  BY DEF QueueWork, SafetyInv, TypeOK
<1>3. QueueWork'[j] = QueueWork[j] + n * JobWork(j)
  <2>1. queue[j] \in Int /\ queue'[j] = queue[j] + n
    BY DEF SafetyInv, TypeOK
  <2>2. (queue[j] + n) * JobWork(j) = queue[j] * JobWork(j) + n * JobWork(j)
    BY <1>0, <2>1
  <2> QED
    BY <1>0, <2>1, <2>2 DEF QueueWork
<1>4. \A i \in Jobs : QueueWork[i] \in Int /\ QueueWork'[i] \in Int
  BY <1>1 DEF WorkIsCounted
<1>5. /\ Sum(QueueWork, Jobs) \in Int /\ Sum(QueueWork', Jobs) \in Int
      /\ Sum(QueueWork', Jobs) = Sum(QueueWork, Jobs) - QueueWork[j] + QueueWork'[j]
  BY <1>2, <1>4, JobsAreFinite, SumChanges
<1>6. n * JobWork(j) \in Int
  BY <1>0
<1> QED
  BY <1>3, <1>4, <1>5, <1>6 DEF QueueTotal

\* ... of one worker.
LEMMA WorkerMoves ==
  ASSUME IsFiniteSet(Workers), SafetyInv, SafetyInv', NEW w \in Workers,
         \A v \in Workers : v # w => worker'[v] = worker[v]
  PROVE  /\ WorkerTotal \in Int /\ WorkerTotal' \in Int
         /\ WorkerWork[w] \in Int /\ WorkerWork'[w] \in Int
         /\ WorkerTotal' = WorkerTotal - WorkerWork[w] + WorkerWork'[w]
<1>1. WorkIsCounted /\ WorkIsCounted'
  BY WorkCounts, PTL
<1>2. \A v \in Workers : v # w => WorkerWork'[v] = WorkerWork[v]
  BY DEF WorkerWork
<1>3. \A v \in Workers : WorkerWork[v] \in Int /\ WorkerWork'[v] \in Int
  BY <1>1 DEF WorkIsCounted
<1> QED
  BY <1>2, <1>3, SumChanges DEF WorkerTotal

\* ... of one request.
LEMMA RequestMoves ==
  ASSUME IsFiniteSet(Requests), SafetyInv, SafetyInv', NEW a \in Requests,
         \A b \in Requests : b # a => api'[b] = api[b]
  PROVE  /\ RequestTotal \in Int /\ RequestTotal' \in Int
         /\ RequestWork[a] \in Int /\ RequestWork'[a] \in Int
         /\ RequestTotal' = RequestTotal - RequestWork[a] + RequestWork'[a]
<1>1. WorkIsCounted /\ WorkIsCounted'
  BY WorkCounts, PTL
<1>2. \A b \in Requests : b # a => RequestWork'[b] = RequestWork[b]
  BY DEF RequestWork
<1>3. \A b \in Requests : RequestWork[b] \in Int /\ RequestWork'[b] \in Int
  BY <1>1 DEF WorkIsCounted
<1> QED
  BY <1>2, <1>3, SumChanges DEF RequestTotal

\* A worker's step that sends nothing changes the work by what it does to its own.
LEMMA WorkerBalance ==
  ASSUME FiniteSystem, SafetyInv, SafetyInv', NEW w \in Workers, UNCHANGED <<queue, api>>,
         \A v \in Workers : v # w => worker'[v] = worker[v]
  PROVE  /\ Work \in Int /\ WorkerHolds(worker[w]) \in Int /\ WorkerHolds(worker'[w]) \in Int
         /\ Work' = Work - WorkerHolds(worker[w]) + WorkerHolds(worker'[w])
<1>1. WorkIsCounted /\ WorkIsCounted'
  BY WorkCounts, PTL
<1>2. /\ WorkerTotal \in Int /\ WorkerTotal' \in Int
      /\ WorkerWork[w] \in Int /\ WorkerWork'[w] \in Int
      /\ WorkerTotal' = WorkerTotal - WorkerWork[w] + WorkerWork'[w]
  BY WorkerMoves DEF FiniteSystem
<1>3. WorkerWork[w] = WorkerHolds(worker[w]) /\ WorkerWork'[w] = WorkerHolds(worker'[w])
  BY DEF WorkerWork
<1>4. QueueTotal' = QueueTotal /\ RequestTotal' = RequestTotal
  BY DEF QueueTotal, QueueWork, RequestTotal, RequestWork
<1>5. QueueTotal \in Int /\ RequestTotal \in Int
  BY <1>1, JobsAreFinite, SumTakesAny DEF WorkIsCounted, QueueTotal, RequestTotal, FiniteSystem
<1> QED
  BY <1>1, <1>2, <1>3, <1>4, <1>5 DEF WorkIsCounted

\* One that sends or takes a message changes it by the message too.
LEMMA WorkerQueueBalance ==
  ASSUME FiniteSystem, SafetyInv, SafetyInv', NEW w \in Workers, UNCHANGED api,
         \A v \in Workers : v # w => worker'[v] = worker[v],
         NEW j \in Jobs, NEW n \in Int, queue' = [queue EXCEPT ![j] = @ + n]
  PROVE  /\ Work \in Int /\ WorkerHolds(worker[w]) \in Int /\ WorkerHolds(worker'[w]) \in Int
         /\ Work' = Work + n * JobWork(j) - WorkerHolds(worker[w]) + WorkerHolds(worker'[w])
<1>1. WorkIsCounted /\ WorkIsCounted'
  BY WorkCounts, PTL
<1>2. /\ WorkerTotal \in Int /\ WorkerTotal' \in Int
      /\ WorkerWork[w] \in Int /\ WorkerWork'[w] \in Int
      /\ WorkerTotal' = WorkerTotal - WorkerWork[w] + WorkerWork'[w]
  BY WorkerMoves DEF FiniteSystem
<1>3. WorkerWork[w] = WorkerHolds(worker[w]) /\ WorkerWork'[w] = WorkerHolds(worker'[w])
  BY DEF WorkerWork
<1>4. /\ QueueTotal \in Int /\ QueueTotal' \in Int
      /\ QueueTotal' = QueueTotal + n * JobWork(j)
  BY QueueMoves DEF FiniteSystem
<1>5. RequestTotal' = RequestTotal
  BY DEF RequestTotal, RequestWork
<1>6. RequestTotal \in Int
  BY <1>1, SumTakesAny DEF WorkIsCounted, RequestTotal, FiniteSystem
<1>7. n * JobWork(j) \in Int
  <2>1. JobWork(j) \in Nat
    BY JobsAreWorth
  <2> QED
    BY <2>1
<1> DEFINE m == n * JobWork(j)
<1> HIDE DEF m
<1> QED
  BY <1>1, <1>2, <1>3, <1>4, <1>5, <1>6, <1>7 DEF WorkIsCounted, m

\* ... as when it sends one.
LEMMA WorkerSends ==
  ASSUME FiniteSystem, SafetyInv, SafetyInv', NEW w \in Workers, UNCHANGED api,
         \A v \in Workers : v # w => worker'[v] = worker[v],
         NEW j \in Jobs, Send(j)
  PROVE  /\ Work \in Int /\ WorkerHolds(worker[w]) \in Int /\ WorkerHolds(worker'[w]) \in Int
         /\ Work' = Work + JobWork(j) - WorkerHolds(worker[w]) + WorkerHolds(worker'[w])
<1>1. queue' = [queue EXCEPT ![j] = @ + 1] /\ 1 \in Int
  BY DEF Send
<1>2. JobWork(j) \in Nat /\ 1 * JobWork(j) = JobWork(j)
  <2>1. JobWork(j) \in Nat
    BY JobsAreWorth
  <2> QED
    BY <2>1
<1> QED
  BY <1>1, <1>2, WorkerQueueBalance

\* A request's step changes the work by what it does to its own ...
LEMMA RequestBalance ==
  ASSUME FiniteSystem, SafetyInv, SafetyInv', NEW a \in Requests, UNCHANGED <<queue, worker>>,
         \A b \in Requests : b # a => api'[b] = api[b]
  PROVE  /\ Work \in Int /\ RequestHolds(api[a]) \in Int /\ RequestHolds(api'[a]) \in Int
         /\ Work' = Work - RequestHolds(api[a]) + RequestHolds(api'[a])
<1>1. WorkIsCounted /\ WorkIsCounted'
  BY WorkCounts, PTL
<1>2. /\ RequestTotal \in Int /\ RequestTotal' \in Int
      /\ RequestWork[a] \in Int /\ RequestWork'[a] \in Int
      /\ RequestTotal' = RequestTotal - RequestWork[a] + RequestWork'[a]
  BY RequestMoves DEF FiniteSystem
<1>3. RequestWork[a] = RequestHolds(api[a]) /\ RequestWork'[a] = RequestHolds(api'[a])
  BY DEF RequestWork
<1>4. QueueTotal' = QueueTotal /\ WorkerTotal' = WorkerTotal
  BY DEF QueueTotal, QueueWork, WorkerTotal, WorkerWork
<1>5. QueueTotal \in Int /\ WorkerTotal \in Int
  BY <1>1, JobsAreFinite, SumTakesAny DEF WorkIsCounted, QueueTotal, WorkerTotal, FiniteSystem
<1> QED
  BY <1>1, <1>2, <1>3, <1>4, <1>5 DEF WorkIsCounted

\* ... and, when it enqueues, by the message.
LEMMA RequestQueueBalance ==
  ASSUME FiniteSystem, SafetyInv, SafetyInv', NEW a \in Requests, UNCHANGED worker,
         \A b \in Requests : b # a => api'[b] = api[b],
         NEW j \in Jobs, Send(j)
  PROVE  /\ Work \in Int /\ RequestHolds(api[a]) \in Int /\ RequestHolds(api'[a]) \in Int
         /\ Work' = Work + JobWork(j) - RequestHolds(api[a]) + RequestHolds(api'[a])
<1>1. WorkIsCounted /\ WorkIsCounted'
  BY WorkCounts, PTL
<1>2. /\ RequestTotal \in Int /\ RequestTotal' \in Int
      /\ RequestWork[a] \in Int /\ RequestWork'[a] \in Int
      /\ RequestTotal' = RequestTotal - RequestWork[a] + RequestWork'[a]
  BY RequestMoves DEF FiniteSystem
<1>3. RequestWork[a] = RequestHolds(api[a]) /\ RequestWork'[a] = RequestHolds(api'[a])
  BY DEF RequestWork
<1>4. /\ QueueTotal \in Int /\ QueueTotal' \in Int
      /\ QueueTotal' = QueueTotal + 1 * JobWork(j)
  <2>1. queue' = [queue EXCEPT ![j] = @ + 1] /\ 1 \in Int
    BY DEF Send
  <2> QED
    BY <2>1, QueueMoves DEF FiniteSystem
<1>5. WorkerTotal' = WorkerTotal
  BY DEF WorkerTotal, WorkerWork
<1>6. WorkerTotal \in Int
  BY <1>1, SumTakesAny DEF WorkIsCounted, WorkerTotal, FiniteSystem
<1>7. JobWork(j) \in Int /\ 1 * JobWork(j) = JobWork(j)
  <2>1. JobWork(j) \in Nat
    BY JobsAreWorth
  <2> QED
    BY <2>1
<1> QED
  BY <1>1, <1>2, <1>3, <1>4, <1>5, <1>6, <1>7 DEF WorkIsCounted

\* A task that goes on, fails or ends has less to do.
LEMMA GotoSpends ==
  ASSUME FiniteSystem, SafetyInv, SafetyInv', NEW w \in Workers, NEW pc,
         Goto(w, pc), UNCHANGED <<queue, api>>,
         \/ pc \in {"ocr", "agree", "calling"} /\ worker[w].pc = "selected"
         \/ pc = "parsed" /\ worker[w].pc = "ocr"
         \/ pc = "retry" /\ worker[w].pc \in {"selected", "ocr", "agree", "calling", "parsed"}
         \/ pc = "ack" /\ worker[w].pc \notin {"idle", "ack"}
  PROVE  Work' < Work
<1>1. /\ worker'[w].pc = pc /\ worker'[w].job = worker[w].job
      /\ \A v \in Workers : v # w => worker'[v] = worker[v]
  BY GotoMoves DEF SafetyInv
<1>2. worker[w].pc \in WorkerPc /\ worker[w].job \in Jobs
  BY DEF SafetyInv, TypeOK, ProcessesHold
<1>3. JobWork(worker[w].job) \in Nat /\ JobWork(worker[w].job) >= 6
  BY <1>2, JobsAreWorth
<1>4. WorkerHolds(worker'[w]) < WorkerHolds(worker[w])
  <2> DEFINE s == worker[w]
             t == worker'[w]
  <2>1. t.pc = pc /\ t.job = s.job /\ s.pc \in WorkerPc
    BY <1>1, <1>2
  <2> HIDE DEF s, t
  <2>2. CASE pc = "ack" /\ s.pc \notin {"idle", "ack"}
    BY <1>3, <2>1, <2>2, PointsAreWorth DEF WorkerPc, s, t
  <2>3. CASE pc = "retry" /\ s.pc \in {"selected", "ocr", "agree", "calling", "parsed"}
    BY <1>3, <2>1, <2>3, PointsAreWorth DEF s, t
  <2>4. CASE pc \in {"ocr", "agree", "calling"} /\ s.pc = "selected"
    BY <1>3, <2>1, <2>4, PointsAreWorth DEF s, t
  <2>5. CASE pc = "parsed" /\ s.pc = "ocr"
    BY <1>3, <2>1, <2>5, PointsAreWorth DEF s, t
  <2> QED
    BY <2>2, <2>3, <2>4, <2>5 DEF s
<1>5. /\ Work \in Int /\ WorkerHolds(worker[w]) \in Int /\ WorkerHolds(worker'[w]) \in Int
      /\ Work' = Work - WorkerHolds(worker[w]) + WorkerHolds(worker'[w])
  BY <1>1, WorkerBalance
<1> QED
  BY <1>4, <1>5

\* What is left of a task, whatever its point, is less than its message was worth.
LEMMA BusyWorkerHolds ==
  ASSUME SafetyInv, NEW w \in Workers, worker[w].pc # "idle"
  PROVE  /\ worker[w].job \in Jobs
         /\ WorkerHolds(worker[w]) >= 1 /\ WorkerHolds(worker[w]) <= JobWork(worker[w].job)
<1>1. worker[w].pc \in WorkerPc /\ worker[w].job \in Jobs
  BY DEF SafetyInv, TypeOK, ProcessesHold
<1>2. JobWork(worker[w].job) \in Nat /\ JobWork(worker[w].job) >= 6
  BY <1>1, JobsAreWorth
<1> QED
  BY <1>1, <1>2, PointsAreWorth DEF WorkerPc

\* A request that answers has nothing left.
LEMMA RespondSpends ==
  ASSUME FiniteSystem, SafetyInv, SafetyInv', NEW a \in Requests,
         api[a].pc # "idle", Respond(a), UNCHANGED <<queue, worker>>
  PROVE  Work' < Work
<1>1. api'[a].pc = "idle" /\ \A b \in Requests : b # a => api'[b] = api[b]
  BY DEF Respond, IdleRequest, SafetyInv, TypeOK
<1>2. RequestHolds(api'[a]) = 0
  BY <1>1, PointsAreWorth
<1>3. UploadWork \in Nat /\ UploadWork >= 14
  BY BoundsAssumption DEF UploadWork, AttemptsWork, StepsOfAttempt
<1>4. RequestHolds(api[a]) >= 1
  <2>1. api[a].pc \in ApiPc
    BY DEF SafetyInv, TypeOK
  <2> QED
    BY <1>3, <2>1, PointsAreWorth DEF ApiPc
<1>5. /\ Work \in Int /\ RequestHolds(api[a]) \in Int /\ RequestHolds(api'[a]) \in Int
      /\ Work' = Work - RequestHolds(api[a]) + RequestHolds(api'[a])
  BY <1>1, RequestBalance
<1> QED
  BY <1>2, <1>4, <1>5

\* A call of the API brings in no more than an upload's work.
LEMMA CallComesIn ==
  ASSUME FiniteSystem, SafetyInv, SafetyInv', NEW a \in Requests, NEW s,
         api[a].pc = "idle", api' = [api EXCEPT ![a] = s],
         s.pc \in {"insert", "reset", "unblob"}, UNCHANGED <<queue, worker>>
  PROVE  Work' <= Work + UploadWork
<1>1. api'[a] = s /\ \A b \in Requests : b # a => api'[b] = api[b]
  BY DEF SafetyInv, TypeOK
<1>2. UploadWork \in Nat /\ UploadWork >= 14
  BY BoundsAssumption DEF UploadWork, AttemptsWork, StepsOfAttempt
<1>3. RequestHolds(api[a]) = 0 /\ RequestHolds(api'[a]) <= UploadWork
  BY <1>1, <1>2, PointsAreWorth
<1>4. /\ Work \in Int /\ RequestHolds(api[a]) \in Int /\ RequestHolds(api'[a]) \in Int
      /\ Work' = Work - RequestHolds(api[a]) + RequestHolds(api'[a])
  BY <1>1, RequestBalance
<1> QED
  BY <1>2, <1>3, <1>4

\* Whatever still has steps to take holds some work.
LEMMA WorkIsLeft == FiniteSystem /\ SafetyInv => WorkMeasures
<1> SUFFICES ASSUME FiniteSystem, SafetyInv PROVE WorkMeasures
  OBVIOUS
<1>1. ASSUME NEW j \in Jobs PROVE QueueWork[j] \in Nat /\ (QueueWork[j] = 0 => queue[j] = 0)
  <2>1. queue[j] \in Nat /\ JobWork(j) \in Nat /\ JobWork(j) >= 6
    BY JobsAreWorth DEF SafetyInv, TypeOK
  <2> DEFINE m == JobWork(j)
             n == queue[j]
  <2>2. QueueWork[j] = n * m
    BY DEF QueueWork
  <2> HIDE DEF m, n
  <2>3. m \in Nat /\ n \in Nat /\ m >= 6
    BY <2>1 DEF m, n
  <2>4. n * m \in Nat /\ (n * m = 0 => n = 0)
    BY <2>3
  <2> QED
    BY <2>2, <2>4 DEF n
<1>2. ASSUME NEW w \in Workers
      PROVE  WorkerWork[w] \in Nat /\ (WorkerWork[w] = 0 => worker[w].pc = "idle")
  <2>1. WorkerWork[w] = WorkerHolds(worker[w]) /\ WorkerWork[w] \in Int
    BY WorkCounts DEF WorkerWork, WorkIsCounted
  <2>2. CASE worker[w].pc = "idle"
    BY <2>1, <2>2, PointsAreWorth
  <2>3. CASE worker[w].pc # "idle"
    BY <2>1, <2>3, BusyWorkerHolds
  <2> QED
    BY <2>2, <2>3
<1>3. ASSUME NEW a \in Requests
      PROVE  RequestWork[a] \in Nat /\ (RequestWork[a] = 0 => api[a].pc = "idle")
  <2>1. UploadWork \in Nat /\ UploadWork >= 14
    BY BoundsAssumption DEF UploadWork, AttemptsWork, StepsOfAttempt
  <2>2. RequestWork[a] = RequestHolds(api[a]) /\ api[a].pc \in ApiPc
    BY DEF RequestWork, SafetyInv, TypeOK
  <2> QED
    BY <2>1, <2>2, PointsAreWorth DEF ApiPc
<1>4. QueueTotal \in Nat /\ \A j \in Jobs : QueueWork[j] <= QueueTotal
  <2>1. \A j \in Jobs : QueueWork[j] \in Nat
    BY <1>1
  <2> QED
    BY <2>1, JobsAreFinite, SumOfNaturals DEF QueueTotal, FiniteSystem
<1>5. WorkerTotal \in Nat /\ \A w \in Workers : WorkerWork[w] <= WorkerTotal
  <2>1. \A w \in Workers : WorkerWork[w] \in Nat
    BY <1>2
  <2> QED
    BY <2>1, SumOfNaturals DEF WorkerTotal, FiniteSystem
<1>6. RequestTotal \in Nat /\ \A a \in Requests : RequestWork[a] <= RequestTotal
  <2>1. \A a \in Requests : RequestWork[a] \in Nat
    BY <1>3
  <2> QED
    BY <2>1, SumOfNaturals DEF RequestTotal, FiniteSystem
<1>7. Work = QueueTotal + WorkerTotal + RequestTotal
  BY WorkCounts DEF WorkIsCounted
<1>8. Work >= 0
  BY <1>4, <1>5, <1>6, <1>7
<1>9. ASSUME Work = 0 PROVE AtRest
  <2>1. QueueTotal = 0 /\ WorkerTotal = 0 /\ RequestTotal = 0
    BY <1>4, <1>5, <1>6, <1>7, <1>9
  <2>2. ASSUME NEW j \in Jobs PROVE queue[j] = 0
    <3>1. QueueWork[j] \in Nat /\ QueueWork[j] <= 0
      BY <1>1, <1>4, <2>1
    <3> QED
      BY <1>1, <3>1
  <2>3. ASSUME NEW w \in Workers PROVE worker[w].pc = "idle"
    <3>1. WorkerWork[w] \in Nat /\ WorkerWork[w] <= 0
      BY <1>2, <1>5, <2>1
    <3> QED
      BY <1>2, <3>1
  <2>4. ASSUME NEW a \in Requests PROVE api[a].pc = "idle"
    <3>1. RequestWork[a] \in Nat /\ RequestWork[a] <= 0
      BY <1>3, <1>6, <2>1
    <3> QED
      BY <1>3, <3>1
  <2> QED
    BY <2>2, <2>3, <2>4 DEF AtRest
<1> QED
  BY <1>8, <1>9 DEF WorkMeasures

\* The work left is never negative, and a pipeline that has none is at rest.
THEOREM WorkIsAMeasure ==
  ASSUME IsFiniteSet(Receipts), IsFiniteSet(Workers), IsFiniteSet(Requests)
  PROVE  Spec => []WorkMeasures
<1>1. FiniteSystem
  BY DEF FiniteSystem
<1>2. SafetyInv => WorkMeasures
  BY <1>1, WorkIsLeft
<1> QED
  BY <1>2, Safety, PTL

\* A step uses work up, or brings some in from outside.
LEMMA SpendStep ==
  ASSUME FiniteSystem, SafetyInv, SafetyInv', Next
  PROVE  Work' < Work \/ WorkComesIn
<1> DEFINE Spends == Work' < Work \/ WorkComesIn
<1>0. UploadWork \in Nat /\ UploadWork >= 14
  BY BoundsAssumption DEF UploadWork, AttemptsWork, StepsOfAttempt
<1>1. ASSUME NEW a \in Requests, NEW r \in Receipts, UploadPut(a, r) PROVE Spends
  <2> DEFINE s == [pc |-> "insert", receipt |-> r]
  <2>1. /\ api[a].pc = "idle" /\ api' = [api EXCEPT ![a] = s] /\ UNCHANGED <<queue, worker>>
        /\ s.pc \in {"insert", "reset", "unblob"}
    BY <1>1 DEF UploadPut
  <2>2. UserStep
    BY <1>1 DEF UserStep
  <2> HIDE DEF s
  <2>3. Work' <= Work + UploadWork
    BY <2>1, CallComesIn
  <2> QED
    BY <2>2, <2>3 DEF WorkComesIn
<1>2. ASSUME NEW a \in Requests, NEW r \in Receipts, RetryRead(a, r) PROVE Spends
  <2> DEFINE s == [pc |-> "reset", receipt |-> r]
  <2>1. /\ api[a].pc = "idle" /\ api' = [api EXCEPT ![a] = s] /\ UNCHANGED <<queue, worker>>
        /\ s.pc \in {"insert", "reset", "unblob"}
    BY <1>2 DEF RetryRead
  <2>2. UserStep
    BY <1>2 DEF UserStep
  <2> HIDE DEF s
  <2>3. Work' <= Work + UploadWork
    BY <2>1, CallComesIn
  <2> QED
    BY <2>2, <2>3 DEF WorkComesIn
<1>3. ASSUME NEW a \in Requests, NEW r \in Receipts, DeleteRow(a, r) PROVE Spends
  <2> DEFINE s == [pc |-> "unblob", receipt |-> r]
  <2>1. /\ api[a].pc = "idle" /\ api' = [api EXCEPT ![a] = s] /\ UNCHANGED <<queue, worker>>
        /\ s.pc \in {"insert", "reset", "unblob"}
    BY <1>3 DEF DeleteRow
  <2>2. UserStep
    BY <1>3 DEF UserStep
  <2> HIDE DEF s
  <2>3. Work' <= Work + UploadWork
    BY <2>1, CallComesIn
  <2> QED
    BY <2>2, <2>3 DEF WorkComesIn
<1>4. ASSUME NEW r \in Receipts, DeleteExpense(r) PROVE Spends
  <2>1. UserStep /\ UNCHANGED <<queue, worker, api>>
    BY <1>4 DEF UserStep, DeleteExpense
  <2>2. Work' = Work
    BY <2>1 DEF Work, QueueWork, WorkerWork, RequestWork
  <2>3. Work \in Int
    <3>1. WorkIsCounted
      BY WorkCounts
    <3>2. QueueTotal \in Int /\ WorkerTotal \in Int /\ RequestTotal \in Int
      BY <3>1, JobsAreFinite, SumTakesAny
      DEF WorkIsCounted, QueueTotal, WorkerTotal, RequestTotal, FiniteSystem
    <3> QED
      BY <3>1, <3>2 DEF WorkIsCounted
  <2> QED
    BY <1>0, <2>1, <2>2, <2>3 DEF WorkComesIn
<1>5. ASSUME NEW a \in Requests, UploadInsert(a) PROVE Spends
  <2>1. /\ api[a].pc = "insert" /\ api'[a].pc = "enqueue" /\ UNCHANGED <<queue, worker>>
        /\ \A b \in Requests : b # a => api'[b] = api[b]
    BY <1>5 DEF UploadInsert, SafetyInv, TypeOK
  <2>2. RequestHolds(api'[a]) < RequestHolds(api[a])
    BY <1>0, <2>1, PointsAreWorth
  <2> QED
    BY <2>1, <2>2, RequestBalance
<1>6. ASSUME NEW a \in Requests, UploadCleanup(a) PROVE Spends
  <2>1. api[a].pc # "idle" /\ Respond(a) /\ UNCHANGED <<queue, worker>>
    BY <1>6 DEF UploadCleanup
  <2> QED
    BY <2>1, RespondSpends
<1>7. ASSUME NEW a \in Requests, Enqueue(a) PROVE Spends
  <2> DEFINE j == ProcessJob(api[a].receipt)
  <2>1. api[a].pc = "enqueue" /\ Respond(a) /\ UNCHANGED worker /\ Send(j)
    BY <1>7 DEF Enqueue
  <2>2. api[a].receipt \in Receipts
    BY <2>1 DEF SafetyInv, ProcessesHold
  <2>3. api'[a].pc = "idle" /\ \A b \in Requests : b # a => api'[b] = api[b]
    BY <2>1 DEF Respond, IdleRequest, SafetyInv, TypeOK
  <2>4. j \in Jobs
    BY <2>2, BoundsAssumption DEF ProcessJob, Jobs
  <2>5. JobWork(j) = UploadWork - 2
    BY <2>2, <2>4, JobsAreWorth
  <2>6. RequestHolds(api[a]) = UploadWork - 1 /\ RequestHolds(api'[a]) = 0
    BY <2>1, <2>3, PointsAreWorth
  <2> HIDE DEF j
  <2>7. Work \in Int /\ Work' = Work + JobWork(j) - RequestHolds(api[a]) + RequestHolds(api'[a])
    BY <2>1, <2>3, <2>4, RequestQueueBalance
  <2> QED
    BY <1>0, <2>5, <2>6, <2>7
<1>8. ASSUME NEW a \in Requests, RefreshFails(a) PROVE Spends
  <2>1. api[a].pc # "idle" /\ Respond(a) /\ UNCHANGED <<queue, worker>>
    BY <1>8 DEF RefreshFails
  <2> QED
    BY <2>1, RespondSpends
<1>9. ASSUME NEW a \in Requests, RetryReset(a) PROVE Spends
  <2>1. CASE Live(api[a].receipt)
    <3>1. /\ api[a].pc = "reset" /\ api'[a].pc = "enqueue" /\ UNCHANGED <<queue, worker>>
          /\ \A b \in Requests : b # a => api'[b] = api[b]
      BY <1>9, <2>1 DEF RetryReset, SafetyInv, TypeOK
    <3>2. RequestHolds(api'[a]) < RequestHolds(api[a])
      BY <1>0, <3>1, PointsAreWorth
    <3> QED
      BY <3>1, <3>2, RequestBalance
  <2>2. CASE ~Live(api[a].receipt)
    <3>1. api[a].pc # "idle" /\ Respond(a) /\ UNCHANGED <<queue, worker>>
      BY <1>9, <2>2 DEF RetryReset
    <3> QED
      BY <3>1, RespondSpends
  <2> QED
    BY <2>1, <2>2
<1>10. ASSUME NEW a \in Requests, DeleteBlob(a) PROVE Spends
  <2>1. api[a].pc # "idle" /\ Respond(a) /\ UNCHANGED <<queue, worker>>
    BY <1>10 DEF DeleteBlob
  <2> QED
    BY <2>1, RespondSpends
<1>11. ASSUME NEW w \in Workers, NEW j \in Jobs, Deliver(w, j) PROVE Spends
  <2>1. /\ worker[w].pc = "idle" /\ UNCHANGED api
        /\ worker'[w].pc \in {"selected", "ack"} /\ worker'[w].job = j
        /\ \A v \in Workers : v # w => worker'[v] = worker[v]
    BY <1>11 DEF Deliver, SafetyInv, TypeOK
  <2>2. queue' = [queue EXCEPT ![j] = @ + (-1)] /\ -1 \in Int
    <3> DEFINE k == queue[j] - 1
    <3>1. queue' = [queue EXCEPT ![j] = k]
      BY <1>11 DEF Deliver
    <3>2. queue[j] \in Nat
      BY DEF SafetyInv, TypeOK
    <3>3. k = queue[j] + (-1) /\ -1 \in Int
      BY <3>2
    <3> HIDE DEF k
    <3> QED
      BY <3>1, <3>3
  <2>3. JobWork(j) \in Nat /\ JobWork(j) >= 6 /\ (-1) * JobWork(j) = 0 - JobWork(j)
    <3>1. JobWork(j) \in Nat /\ JobWork(j) >= 6
      BY JobsAreWorth
    <3> QED
      BY <3>1
  <2>4. WorkerHolds(worker[w]) = 0 /\ WorkerHolds(worker'[w]) <= JobWork(j) - 1
    BY <2>1, <2>3, PointsAreWorth
  <2>5. /\ Work \in Int /\ WorkerHolds(worker'[w]) \in Int
        /\ Work' = Work + (-1) * JobWork(j) - WorkerHolds(worker[w]) + WorkerHolds(worker'[w])
    BY <2>1, <2>2, WorkerQueueBalance
  <2> QED
    BY <2>3, <2>4, <2>5
<1>12. ASSUME NEW w \in Workers, MarkProcessing(w) PROVE Spends
  <2>1. Goto(w, "ocr") /\ worker[w].pc = "selected" /\ UNCHANGED <<queue, api>>
    BY <1>12 DEF MarkProcessing, At
  <2> QED
    BY <2>1, GotoSpends
<1>13. ASSUME NEW w \in Workers, OcrSucceeds(w) PROVE Spends
  <2>1. Goto(w, "parsed") /\ worker[w].pc = "ocr" /\ UNCHANGED <<queue, api>>
    BY <1>13 DEF OcrSucceeds, At
  <2> QED
    BY <2>1, GotoSpends
<1>14. ASSUME NEW w \in Workers, OcrRejects(w) PROVE Spends
  <2>1. Goto(w, "ack") /\ worker[w].pc = "ocr" /\ UNCHANGED <<queue, api>>
    BY <1>14 DEF OcrRejects, At
  <2> QED
    BY <2>1, GotoSpends
<1>15. ASSUME NEW w \in Workers, OcrErrors(w) PROVE Spends
  <2>1. Goto(w, "retry") /\ worker[w].pc = "ocr" /\ UNCHANGED <<queue, api>>
    BY <1>15 DEF OcrErrors, At
  <2> QED
    BY <2>1, GotoSpends
<1>16. ASSUME NEW w \in Workers, EnqueueCategorisation(w) PROVE Spends
  <2> DEFINE i == worker[w].job
             j == CategoriseJob(Of(w))
  <2>1. /\ worker[w].pc = "parsed" /\ i.task = "process" /\ Goto(w, "ack") /\ UNCHANGED api /\ Send(j)
    BY <1>16 DEF EnqueueCategorisation, At
  <2>2. i \in Jobs /\ Of(w) \in Receipts
    BY <2>1 DEF SafetyInv, ProcessesHold, Jobs, Of
  <2>3. /\ j \in Jobs /\ JobWork(i) \in Nat /\ JobWork(j) \in Nat
        /\ JobWork(j) + 6 <= JobWork(i)
    <3>1. j \in Jobs
      BY <2>2, BoundsAssumption DEF CategoriseJob, Jobs
    <3> HIDE DEF i
    <3>2. JobWork(i) \in Nat /\ JobWork(j) + 6 <= JobWork(i)
      BY <2>1, <2>2, JobsAreWorth
    <3> HIDE DEF j
    <3> QED
      BY <3>1, <3>2, JobsAreWorth
  <2>4. /\ worker'[w].pc = "ack"
        /\ \A v \in Workers : v # w => worker'[v] = worker[v]
    BY <2>1, GotoMoves DEF SafetyInv
  <2>5. WorkerHolds(worker'[w]) = 1 /\ WorkerHolds(worker[w]) = JobWork(i) - 3
    BY <2>1, <2>4, PointsAreWorth
  <2> HIDE DEF i, j
  <2>6. Work \in Int /\ Work' = Work + JobWork(j) - WorkerHolds(worker[w]) + WorkerHolds(worker'[w])
    BY <2>1, <2>3, <2>4, WorkerSends
  <2> QED
    BY <2>3, <2>5, <2>6
<1>17. ASSUME NEW w \in Workers, AlreadyBooked(w) PROVE Spends
  <2>1. Goto(w, "ack") \/ Goto(w, "agree")
    BY <1>17 DEF AlreadyBooked
  <2>2. worker[w].pc = "selected" /\ UNCHANGED <<queue, api>>
    BY <1>17 DEF AlreadyBooked, At
  <2> QED
    BY <2>1, <2>2, GotoSpends
<1>17a. ASSUME NEW w \in Workers, AgreeWithExpense(w) PROVE Spends
  <2>1. Goto(w, "ack") /\ worker[w].pc = "agree" /\ UNCHANGED <<queue, api>>
    BY <1>17a DEF AgreeWithExpense, At
  <2> QED
    BY <2>1, GotoSpends
<1>18. ASSUME NEW w \in Workers, NotParsed(w) PROVE Spends
  <2>1. Goto(w, "ack") /\ worker[w].pc = "selected" /\ UNCHANGED <<queue, api>>
    BY <1>18 DEF NotParsed, At
  <2> QED
    BY <2>1, GotoSpends
<1>19. ASSUME NEW w \in Workers, CallCategoriser(w) PROVE Spends
  <2>1. Goto(w, "calling") /\ worker[w].pc = "selected" /\ UNCHANGED <<queue, api>>
    BY <1>19 DEF CallCategoriser, At
  <2> QED
    BY <2>1, GotoSpends
<1>20. ASSUME NEW w \in Workers, Book(w) PROVE Spends
  <2>1. Goto(w, "ack") /\ worker[w].pc = "calling" /\ UNCHANGED <<queue, api>>
    BY <1>20 DEF Book, At
  <2> QED
    BY <2>1, GotoSpends
<1>21. ASSUME NEW w \in Workers, BookCollides(w) PROVE Spends
  <2>1. Goto(w, "retry") /\ worker[w].pc = "calling" /\ UNCHANGED <<queue, api>>
    BY <1>21 DEF BookCollides, At
  <2> QED
    BY <2>1, GotoSpends
<1>21a. ASSUME NEW w \in Workers, CategoriseErrors(w) PROVE Spends
  <2>1. Goto(w, "retry") /\ worker[w].pc = "calling" /\ UNCHANGED <<queue, api>>
    BY <1>21a DEF CategoriseErrors, At
  <2> QED
    BY <2>1, GotoSpends
<1>22. ASSUME NEW w \in Workers, StaleWrite(w) PROVE Spends
  <2>1. /\ Goto(w, "retry") /\ worker[w].pc \in {"selected", "ocr", "agree", "calling"}
        /\ UNCHANGED <<queue, api>>
    BY <1>22 DEF StaleWrite, At
  <2> QED
    BY <2>1, GotoSpends
<1>23. ASSUME NEW w \in Workers, Retry(w) PROVE Spends
  <2> DEFINE i == worker[w].job
             j == [i EXCEPT !.tries = @ + 1]
  <2>1. /\ worker[w].pc = "retry" /\ i.tries < MaxRetries /\ Goto(w, "ack") /\ UNCHANGED api /\ Send(j)
    BY <1>23 DEF Retry
  <2>2. i \in Jobs
    BY <2>1 DEF SafetyInv, ProcessesHold
  <2>3. j \in Jobs /\ JobWork(i) \in Nat /\ JobWork(j) = JobWork(i) - 6
    <3> HIDE DEF i
    <3>1. JobWork(i) \in Nat /\ JobWork(j) = JobWork(i) - 6
      BY <2>2, JobsAreWorth
    <3>2. j \in Jobs
      BY <2>1, <2>2, BoundsAssumption DEF Jobs
    <3> QED
      BY <3>1, <3>2
  <2>4. /\ worker'[w].pc = "ack"
        /\ \A v \in Workers : v # w => worker'[v] = worker[v]
    BY <2>1, GotoMoves DEF SafetyInv
  <2>5. WorkerHolds(worker'[w]) = 1 /\ WorkerHolds(worker[w]) = JobWork(i) - 4
    BY <2>1, <2>4, PointsAreWorth
  <2> HIDE DEF i, j
  <2>6. Work \in Int /\ Work' = Work + JobWork(j) - WorkerHolds(worker[w]) + WorkerHolds(worker'[w])
    BY <2>1, <2>3, <2>4, WorkerSends
  <2> QED
    BY <2>3, <2>5, <2>6
<1>24. ASSUME NEW w \in Workers, GiveUp(w) PROVE Spends
  <2>1. Goto(w, "ack") /\ worker[w].pc = "retry" /\ UNCHANGED <<queue, api>>
    BY <1>24 DEF GiveUp
  <2> QED
    BY <2>1, GotoSpends
<1>25. ASSUME NEW w \in Workers, Ack(w) PROVE Spends
  <2>1. worker[w].pc # "idle" /\ UNCHANGED <<queue, api>>
    BY <1>25 DEF Ack
  <2>2. worker'[w].pc = "idle" /\ \A v \in Workers : v # w => worker'[v] = worker[v]
    BY <1>25 DEF Ack, IdleWorker, SafetyInv, TypeOK
  <2>3. WorkerHolds(worker'[w]) = 0 /\ WorkerHolds(worker[w]) >= 1
    BY <2>1, <2>2, PointsAreWorth, BusyWorkerHolds
  <2>4. /\ Work \in Int /\ WorkerHolds(worker[w]) \in Int
        /\ Work' = Work - WorkerHolds(worker[w]) + WorkerHolds(worker'[w])
    BY <2>1, <2>2, WorkerBalance
  <2> QED
    BY <2>3, <2>4
<1>26. ASSUME NEW a \in Requests, UploadInsertFails(a) PROVE Spends
  <2>1. /\ api[a].pc = "insert" /\ api'[a].pc = "cleanup" /\ UNCHANGED <<queue, worker>>
        /\ \A b \in Requests : b # a => api'[b] = api[b]
    BY <1>26 DEF UploadInsertFails, SafetyInv, TypeOK
  <2>2. RequestHolds(api'[a]) < RequestHolds(api[a])
    BY <1>0, <2>1, PointsAreWorth
  <2> QED
    BY <2>1, <2>2, RequestBalance
<1>27. ASSUME NEW a \in Requests, EnqueueFails(a) PROVE Spends
  <2>1. api[a].pc # "idle" /\ Respond(a) /\ UNCHANGED <<queue, worker>>
    BY <1>27 DEF EnqueueFails
  <2> QED
    BY <2>1, RespondSpends
<1>28. ASSUME NEW a \in Requests, BlobDeleteFails(a) PROVE Spends
  <2>1. api[a].pc # "idle" /\ Respond(a) /\ UNCHANGED <<queue, worker>>
    BY <1>28 DEF BlobDeleteFails
  <2> QED
    BY <2>1, RespondSpends
<1>29. ASSUME NEW a \in Requests, ApiCrash(a) PROVE Spends
  <2>1. api[a].pc # "idle" /\ Respond(a) /\ UNCHANGED <<queue, worker>>
    BY <1>29 DEF ApiCrash
  <2> QED
    BY <2>1, RespondSpends
<1>30. ASSUME NEW w \in Workers, EnqueueCategorisationFails(w) PROVE Spends
  <2>1. Goto(w, "retry") /\ worker[w].pc = "parsed" /\ UNCHANGED <<queue, api>>
    BY <1>30 DEF EnqueueCategorisationFails, At
  <2> QED
    BY <2>1, GotoSpends
<1>31. ASSUME NEW w \in Workers, TaskAborts(w) PROVE Spends
  <2>1. /\ Goto(w, "retry") /\ worker[w].pc \in {"selected", "ocr", "parsed", "agree", "calling"}
        /\ UNCHANGED <<queue, api>>
    BY <1>31 DEF TaskAborts
  <2> QED
    BY <2>1, GotoSpends
<1>32. ASSUME NEW w \in Workers, RetryDispatchFails(w) PROVE Spends
  <2>1. Goto(w, "ack") /\ worker[w].pc = "retry" /\ UNCHANGED <<queue, api>>
    BY <1>32 DEF RetryDispatchFails
  <2> QED
    BY <2>1, GotoSpends
<1>33. ASSUME NEW w \in Workers, WorkerDies(w) PROVE Spends
  <2> DEFINE j == worker[w].job
  <2>1. worker[w].pc # "idle" /\ Send(j) /\ UNCHANGED api
    BY <1>33 DEF WorkerDies
  <2>2. worker'[w].pc = "idle" /\ \A v \in Workers : v # w => worker'[v] = worker[v]
    BY <1>33 DEF WorkerDies, IdleWorker, SafetyInv, TypeOK
  <2>3. j \in Jobs /\ WorkerHolds(worker[w]) >= 1 /\ WorkerHolds(worker'[w]) = 0
    BY <2>1, <2>2, BusyWorkerHolds, PointsAreWorth
  <2> HIDE DEF j
  <2>4. JobWork(j) \in Nat /\ JobWork(j) <= UploadWork - 2
    BY <2>3, JobsAreWorth
  <2>5. /\ Work \in Int /\ WorkerHolds(worker[w]) \in Int
        /\ Work' = Work + JobWork(j) - WorkerHolds(worker[w]) + WorkerHolds(worker'[w])
    BY <2>1, <2>2, <2>3, WorkerSends
  <2>6. Work' <= Work + UploadWork
    BY <1>0, <2>3, <2>4, <2>5
  <2> QED
    BY <1>33, <2>6 DEF WorkComesIn
<1>34. ASSUME NEW w \in Workers, ChildKilled(w) PROVE Spends
  <2>1. worker[w].pc # "idle" /\ UNCHANGED <<queue, api>>
    BY <1>34 DEF ChildKilled
  <2>2. worker'[w].pc = "idle" /\ \A v \in Workers : v # w => worker'[v] = worker[v]
    BY <1>34 DEF ChildKilled, IdleWorker, SafetyInv, TypeOK
  <2>3. WorkerHolds(worker'[w]) = 0 /\ WorkerHolds(worker[w]) >= 1
    BY <2>1, <2>2, PointsAreWorth, BusyWorkerHolds
  <2>4. /\ Work \in Int /\ WorkerHolds(worker[w]) \in Int
        /\ Work' = Work - WorkerHolds(worker[w]) + WorkerHolds(worker'[w])
    BY <2>1, <2>2, WorkerBalance
  <2> QED
    BY <2>3, <2>4
<1> HIDE DEF Spends
<1>35. Spends
  BY <1>1, <1>2, <1>3, <1>4, <1>5, <1>6, <1>7, <1>8, <1>9, <1>10, <1>11, <1>12, <1>13,
    <1>14, <1>15, <1>16, <1>17, <1>17a, <1>18, <1>19, <1>20, <1>21, <1>21a, <1>22, <1>23,
    <1>24, <1>25, <1>26, <1>27, <1>28, <1>29, <1>30, <1>31, <1>32, <1>33, <1>34
    DEF Next, UserStep, RequestStep, ProcessStep, CategoriseStep, WorkerStep,
      FaultStep
<1> QED
  BY <1>35 DEF Spends

\* However tasks are retried, publish one another, fail or race, the work that is
\* left goes down at every step but a call of the API and a redelivery: the
\* retries of process_receipt and categorise_receipt come to an end.
THEOREM WorkRunsOut ==
  ASSUME IsFiniteSet(Receipts), IsFiniteSet(Workers), IsFiniteSet(Requests)
  PROVE  Spec => WorkIsSpent
<1>1. FiniteSystem
  BY DEF FiniteSystem
<1>2. SafetyInv /\ SafetyInv' /\ [Next]_vars => [Work' < Work \/ WorkComesIn]_vars
  BY <1>1, SpendStep
<1> QED
  BY <1>2, Safety, PTL DEF Spec, WorkIsSpent
=============================================================================
