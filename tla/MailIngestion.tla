---------------------------- MODULE MailIngestion ----------------------------
(***************************************************************************)
(* Both channels of mail into one receipts table: the webhook's handlers   *)
(* and the Gmail tasks run process_inbound_email concurrently.             *)
(***************************************************************************)
EXTENDS GmailSync, InboundWebhook

ASSUME SessionsAssumption ==
  /\ Sessions = Handlers \cup Syncers /\ Handlers \cap Syncers = {}
  /\ Forwarded \cap 1..MaxMailbox = {}

mailVars == <<rows, stored, ingest, faults, mailbox, forgotten, binned, pushes,
              connection, created, jobs, sync, abandoned, provider>>

Init == InboundInit /\ WebhookInit /\ SyncInit

Next ==
  \/ \E s \in Sessions : (IngestStep(s) \/ IngestFault(s)) /\ UNCHANGED <<syncVars, provider>>
  \/ \E x \in Attachments : UserDeletesReceipt(x) /\ UNCHANGED <<syncVars, provider>>
  \/ \E h \in Handlers : (WebhookStep(h) \/ HandlerFails(h)) /\ UNCHANGED syncVars
  \/ (MailboxStep \/ PushStep \/ SyncFault) /\ UNCHANGED provider
  \/ \E w \in Syncers : SyncStep(w) /\ UNCHANGED provider

Spec == Init /\ [][Next]_mailVars

\* Celery runs what it holds, Pub/Sub and the mail provider go on delivering,
\* and a request or task that started runs to its end.  A delivery finds a
\* handler in the end although others are repeated for ever: hence SF.
Fairness ==
  /\ \A h \in Handlers :
       WF_mailVars(\/ IngestStep(h) /\ UNCHANGED <<syncVars, provider>>
                   \/ Respond(h) /\ UNCHANGED syncVars)
  /\ \A w \in Syncers :
       WF_mailVars(\/ IngestStep(w) /\ UNCHANGED <<syncVars, provider>>
                   \/ SyncStep(w) /\ UNCHANGED provider)
  /\ \A m \in Forwarded : SF_mailVars(\E h \in Handlers : PostMail(h, m) /\ UNCHANGED syncVars)
  /\ \A p \in HistoryIds :
       WF_mailVars((PushDelivered(p) \/ PushUnmatched(p)) /\ UNCHANGED provider)

FairSpec == Spec /\ Fairness

-----------------------------------------------------------------------------
\* Type invariant of both channels and of what they share.
TypeOK == InboundTypeOK /\ WebhookTypeOK /\ SyncTypeOK

\* However often a mail is delivered, and by however many sessions at once, no
\* attachment is stored twice: deliveries that all pass the look-up before one
\* of them inserts have only the partial unique index between them.
OneReceiptPerAttachment == \A x \in Attachments : rows[x] <= 1

\* The cursor stands at m or beyond it, and m came after the baseline.
CursorPassed(m) ==
  connection.cursor # NoCursor /\ connection.baseline < m /\ m <= connection.cursor

\* The cursor never passes a mail that has not been handled, unless it
\* is below the baseline (a first push, or a resync after Gmail's 404): a crash
\* or a failure anywhere in the walk leaves the mail to a later push.
CursorPassesHandledMail ==
  \A m \in 1..MaxMailbox :
    CursorPassed(m) => Handled(m)

\* The provider stops delivering a mail only when it has been handled.
AcceptedMailIsHandled == \A m \in Forwarded : provider[m] = "accepted" => Handled(m)

\* A job of a connection that the user removed never moves the cursor of the
\* row that a re-connect created.
CursorMovedByItsOwnJob ==
  [][connection'.id = connection.id /\ connection'.cursor # connection.cursor
       => \E w \in Syncers : sync[w].job.conn = connection.id
                               /\ connection'.cursor = sync[w].job.push]_mailVars

\* A mail whose push finds a primed cursor is handled in the end, unless its
\* job ran out of retries, the user disconnected or Gmail forgot the cursor.
PushedMailIsHandled ==
  \A m \in 1..MaxMailbox :
    (m \in pushes /\ Connected /\ connection.cursor # NoCursor)
      ~> \/ Handled(m) \/ m \in abandoned \/ ~Connected \/ m <= connection.baseline

\* The provider's retries come to an end: whatever a delivery left behind, a
\* later one is answered 202, save for a mail that has an attachment above the
\* limit before one that can be stored.  PayloadTooLargeError is not caught, so
\* that each delivery of such a mail is answered 500.
ForwardedMailIsAccepted ==
  \A m \in Forwarded :
    /\ ~Oversized(m) => <>(provider[m] = "accepted")
    /\ Oversized(m) => [](provider[m] = "pending")

-----------------------------------------------------------------------------
(* What the documents say of a mail with several attachments. *)

\* One receipt for each attachment that is one, by the time the mail is
\* answered 202 or passed by the cursor.
AttachmentsAreIndependent ==
  /\ \A m \in Forwarded : provider[m] = "accepted" => FullyHandled(m)
  /\ \A m \in 1..MaxMailbox :
       CursorPassed(m) => FullyHandled(m)
=============================================================================
