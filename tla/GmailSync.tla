------------------------------ MODULE GmailSync ------------------------------
(***************************************************************************)
(* Gmail push to receipts: Pub/Sub posts the mailbox's history id to       *)
(* POST /integrations/gmail/push, which enqueues gmail_history_sync; the   *)
(* task lists what was added since the connection's cursor, ingests each   *)
(* mail and then moves the cursor to the push's history id.                *)
(*                                                                         *)
(* Gmail and Pub/Sub are external.  The history id of a mail is its place  *)
(* in the mailbox, so mails are 1, 2, ...; users.watch, which the operator *)
(* calls, announces history id 0.  Pub/Sub delivers at least once and in   *)
(* any order.                                                              *)
(***************************************************************************)
EXTENDS InboundEmail

CONSTANTS
  MaxMailbox,     \* bound: mails that arrive in the mailbox, 1..MaxMailbox
  Syncers,        \* Celery workers, each with its session
  MaxRetries,     \* max_retries of gmail_history_sync (3 in the code)
  MaxConnections, \* bound: gmail_connections rows created
  NoCursor        \* NULL in last_history_id

ASSUME SyncAssumption ==
  /\ MaxMailbox \in Nat /\ 1..MaxMailbox \subseteq Mails
  /\ Syncers \subseteq Sessions
  /\ MaxRetries \in Nat /\ MaxConnections \in Nat
  /\ NoCursor \notin Nat

VARIABLES
  mailbox,    \* Gmail's current history id
  forgotten,  \* history ids up to here are past Gmail's retention
  binned,     \* mails that the user deleted at Gmail
  pushes,     \* history ids that Pub/Sub has still to deliver
  connection, \* the gmail_connections row; id 0 when there is none
  created,    \* rows created so far
  jobs,       \* messages of gmail_history_sync at the broker, a bag
  sync,       \* what each worker runs
  abandoned   \* pushes whose job ran out of retries

mailboxVars == <<mailbox, forgotten, binned>>
syncVars == <<mailbox, forgotten, binned, pushes, connection, created, jobs, sync, abandoned>>

HistoryIds == 0..MaxMailbox
SyncJobs == [conn: 1..MaxConnections, push: HistoryIds, tries: 0..MaxRetries]
NoJob == [conn |-> 0, push |-> 0, tries |-> 0]
SyncPc == {"idle", "loaded", "walk", "ingest", "retry", "ack"}

\* baseline: mails up to it are not this connection's to ingest, because the
\* cursor was seeded with it or went there after Gmail had forgotten the old one.
NoConnection == [id |-> 0, cursor |-> NoCursor, baseline |-> 0]
IdleSync == [pc |-> "idle", job |-> NoJob, seen |-> NoCursor, at |-> 0, upto |-> 0]

SyncInit ==
  /\ mailbox = 0 /\ forgotten = 0 /\ binned = {}
  /\ pushes = {0}
  /\ connection = NoConnection /\ created = 0
  /\ jobs = [j \in SyncJobs |-> 0]
  /\ sync = [w \in Syncers |-> IdleSync]
  /\ abandoned = {}

Later(p, q) == IF p > q THEN p ELSE q
Connected == connection.id # 0
Syncing(w, pc) == sync[w].pc = pc
SyncGoto(w, pc) == sync' = [sync EXCEPT ![w].pc = pc]
SendJob(j) == jobs' = [jobs EXCEPT ![j] = @ + 1]

-----------------------------------------------------------------------------
(* Gmail, Pub/Sub and the user. *)

MailArrives ==
  /\ mailbox < MaxMailbox
  /\ mailbox' = mailbox + 1
  /\ pushes' = pushes \cup {mailbox + 1}
  /\ UNCHANGED <<forgotten, binned, connection, created, jobs, sync, abandoned, inboundVars,
                 faults>>

HistoryExpires ==
  /\ forgotten < mailbox /\ Fault
  /\ forgotten' = forgotten + 1
  /\ UNCHANGED <<mailbox, binned, pushes, connection, created, jobs, sync, abandoned, inboundVars>>

MailBinned(m) ==
  /\ m <= mailbox /\ m \notin binned /\ Fault
  /\ binned' = binned \cup {m}
  /\ UNCHANGED <<mailbox, forgotten, pushes, connection, created, jobs, sync, abandoned,
                 inboundVars>>

\* The OAuth callback's upsert.  A re-grant of a connected account replaces the
\* token only, which this model does not show, so it is a stutter.
Connect ==
  /\ ~Connected /\ created < MaxConnections
  /\ connection' = [id |-> created + 1, cursor |-> NoCursor, baseline |-> 0]
  /\ created' = created + 1
  /\ UNCHANGED <<mailboxVars, pushes, jobs, sync, abandoned, inboundVars, faults>>

Disconnect ==
  /\ Connected
  /\ connection' = NoConnection
  /\ UNCHANGED <<mailboxVars, pushes, created, jobs, sync, abandoned, inboundVars, faults>>

\* POST /integrations/gmail/push.
PushDelivered(p) ==
  /\ p \in pushes /\ Connected
  /\ SendJob([conn |-> connection.id, push |-> p, tries |-> 0])
  /\ pushes' = pushes \ {p}
  /\ UNCHANGED <<mailboxVars, connection, created, sync, abandoned, inboundVars, faults>>

\* Pub/Sub does not see the answer and will deliver p again.
PushDuplicated(p) ==
  /\ p \in pushes /\ Connected /\ Fault
  /\ SendJob([conn |-> connection.id, push |-> p, tries |-> 0])
  /\ UNCHANGED <<mailboxVars, pushes, connection, created, sync, abandoned, inboundVars>>

\* No connection has this address: acknowledged, so that Pub/Sub stops.
PushUnmatched(p) ==
  /\ p \in pushes /\ ~Connected
  /\ pushes' = pushes \ {p}
  /\ UNCHANGED <<mailboxVars, connection, created, jobs, sync, abandoned, inboundVars, faults>>

-----------------------------------------------------------------------------
(* gmail_history_sync: one transaction or one group of Google calls a step. *)

\* The row is loaded with its cursor; a row that is gone ends the task.
LoadConnection(w, j) ==
  /\ Syncing(w, "idle") /\ jobs[j] > 0
  /\ jobs' = [jobs EXCEPT ![j] = @ - 1]
  /\ sync' = [sync EXCEPT ![w] =
       [pc |-> IF connection.id = j.conn THEN "loaded" ELSE "ack", job |-> j,
        seen |-> IF connection.id = j.conn THEN connection.cursor ELSE NoCursor,
        at |-> 0, upto |-> 0]]
  /\ UNCHANGED <<mailboxVars, pushes, connection, created, abandoned, inboundVars, faults>>

\* Mutant: the row is looked up by its address, not by its id.
StillThereByAddress(w) == Connected

\* UPDATE ... WHERE id = finds the row the task loaded.
StillThere(w) == connection.id = sync[w].job.conn

\* StaleDataError: the cursor of a row that is gone.
CursorWriteFails(w) ==
  /\ \/ Syncing(w, "loaded") /\ sync[w].seen = NoCursor
     \/ Syncing(w, "walk") /\ sync[w].at > sync[w].upto /\ sync[w].seen # sync[w].job.push
  /\ ~StillThere(w)
  /\ SyncGoto(w, "retry")
  /\ UNCHANGED <<mailboxVars, pushes, connection, created, jobs, abandoned, inboundVars, faults>>

\* First push of a row, as the task read it: seed the cursor and stop.
SeedCursor(w) ==
  /\ Syncing(w, "loaded") /\ sync[w].seen = NoCursor /\ StillThere(w)
  /\ LET p == sync[w].job.push IN
     connection' = [connection EXCEPT !.cursor = p, !.baseline = Later(p, @)]
  /\ SyncGoto(w, "ack")
  /\ UNCHANGED <<mailboxVars, pushes, created, jobs, abandoned, inboundVars, faults>>

\* Mutant: the cursor moves before the mails are processed.
ListHistoryAdvancing(w) ==
  /\ Syncing(w, "loaded") /\ sync[w].seen # NoCursor
  /\ connection' = IF StillThere(w) THEN [connection EXCEPT !.cursor = sync[w].job.push]
                                    ELSE connection
  /\ sync' = [sync EXCEPT ![w] =
       [pc |-> "walk", job |-> @.job, seen |-> @.seen, at |-> @.seen + 1,
        upto |-> IF @.seen < forgotten THEN 0 ELSE mailbox]]
  /\ UNCHANGED <<mailboxVars, pushes, created, jobs, abandoned, inboundVars, faults>>

\* refresh_access_token and users.history.list, all its pages; a cursor older
\* than Gmail's retention gets a 404, which lists nothing: upto is 0.
ListHistory(w) ==
  /\ Syncing(w, "loaded") /\ sync[w].seen # NoCursor
  /\ sync' = [sync EXCEPT ![w] =
       [pc |-> "walk", job |-> @.job, seen |-> @.seen, at |-> @.seen + 1,
        upto |-> IF @.seen < forgotten THEN 0 ELSE mailbox]]
  /\ UNCHANGED <<mailboxVars, pushes, connection, created, jobs, abandoned, inboundVars, faults>>

\* messages.get and attachments.get of the next mail, then process_inbound_email.
FetchMail(w) ==
  /\ Syncing(w, "walk") /\ sync[w].at <= sync[w].upto /\ sync[w].at \notin binned
  /\ BeginIngest(w, sync[w].at)
  /\ SyncGoto(w, "ingest")
  /\ UNCHANGED <<mailboxVars, pushes, connection, created, jobs, abandoned, rows, stored, faults>>

\* messages.get answers 404 for a mail that is gone: GmailSyncError.
FetchFails(w) ==
  /\ Syncing(w, "walk") /\ sync[w].at <= sync[w].upto /\ sync[w].at \in binned
  /\ SyncGoto(w, "retry")
  /\ UNCHANGED <<mailboxVars, pushes, connection, created, jobs, abandoned, inboundVars, faults>>

MailIngested(w) ==
  /\ Syncing(w, "ingest") /\ ingest[w].pc \in {"done", "failed"}
  /\ sync' = [sync EXCEPT ![w].pc = IF Ingesting(w, "done") THEN "walk" ELSE "retry",
                          ![w].at = @ + 1]
  /\ EndIngest(w)
  /\ UNCHANGED <<mailboxVars, pushes, connection, created, jobs, abandoned, rows, stored, faults>>

\* The cursor moves to the push's history id, after a 404 as well; the ORM
\* writes nothing when that is the value it loaded.
AdvanceCursor(w) ==
  /\ Syncing(w, "walk") /\ sync[w].at > sync[w].upto
  /\ IF sync[w].seen = sync[w].job.push
       THEN UNCHANGED connection
       ELSE /\ StillThere(w)
            /\ LET p == sync[w].job.push IN
               connection' = [connection EXCEPT
                 !.cursor = p, !.baseline = IF sync[w].upto = 0 THEN Later(p, @) ELSE @]
  /\ SyncGoto(w, "ack")
  /\ UNCHANGED <<mailboxVars, pushes, created, jobs, abandoned, inboundVars, faults>>

\* Google or the database fails, or the soft time limit is raised.  Google
\* refuses the token, too, once a disconnect has revoked it.
SyncFails(w) ==
  /\ sync[w].pc \in {"loaded", "walk"}
  /\ \/ Fault
     \/ ~StillThere(w) /\ UNCHANGED faults
  /\ SyncGoto(w, "retry")
  /\ UNCHANGED <<mailboxVars, pushes, connection, created, jobs, abandoned, inboundVars>>

\* Mutant: the task starts over in place, with no bound on the attempts.
SyncRetryInPlace(w) ==
  /\ Syncing(w, "retry")
  /\ sync' = [sync EXCEPT ![w].pc = "loaded", ![w].job.tries = @ + 1]
  /\ UNCHANGED <<mailboxVars, pushes, connection, created, jobs, abandoned, inboundVars, faults>>

SyncRetry(w) ==
  /\ Syncing(w, "retry") /\ sync[w].job.tries < MaxRetries
  /\ SendJob([sync[w].job EXCEPT !.tries = @ + 1])
  /\ SyncGoto(w, "ack")
  /\ UNCHANGED <<mailboxVars, pushes, connection, created, abandoned, inboundVars, faults>>

SyncGivesUp(w) ==
  /\ Syncing(w, "retry") /\ sync[w].job.tries = MaxRetries
  /\ abandoned' = abandoned \cup {sync[w].job.push}
  /\ SyncGoto(w, "ack")
  /\ UNCHANGED <<mailboxVars, pushes, connection, created, jobs, inboundVars, faults>>

SyncAck(w) ==
  /\ Syncing(w, "ack")
  /\ sync' = [sync EXCEPT ![w] = IdleSync]
  /\ UNCHANGED <<mailboxVars, pushes, connection, created, jobs, abandoned, inboundVars, faults>>

\* Mutant: acknowledged on receipt, the message dies with its worker.
SyncerDiesAckedEarly(w) ==
  /\ ~Syncing(w, "idle") /\ Fault
  /\ sync' = [sync EXCEPT ![w] = IdleSync]
  /\ EndIngest(w)
  /\ UNCHANGED <<mailboxVars, pushes, connection, created, jobs, abandoned, rows, stored>>

\* task_acks_late: the message is delivered again.
SyncerDies(w) ==
  /\ ~Syncing(w, "idle") /\ Fault
  /\ SendJob(sync[w].job)
  /\ sync' = [sync EXCEPT ![w] = IdleSync]
  /\ EndIngest(w)
  /\ UNCHANGED <<mailboxVars, pushes, connection, created, abandoned, rows, stored>>

SyncStep(w) ==
  \/ \E j \in SyncJobs : LoadConnection(w, j)
  \/ CursorWriteFails(w) \/ SeedCursor(w) \/ ListHistory(w) \/ FetchMail(w) \/ FetchFails(w)
  \/ MailIngested(w) \/ AdvanceCursor(w) \/ SyncRetry(w) \/ SyncGivesUp(w) \/ SyncAck(w)

PushStep == \E p \in pushes : PushDelivered(p) \/ PushUnmatched(p)

MailboxStep ==
  MailArrives \/ HistoryExpires \/ Connect \/ Disconnect \/ \E m \in 1..MaxMailbox : MailBinned(m)

SyncFault ==
  \/ \E p \in pushes : PushDuplicated(p)
  \/ \E w \in Syncers : SyncFails(w) \/ SyncerDies(w)

-----------------------------------------------------------------------------
SyncTypeOK ==
  /\ mailbox \in HistoryIds /\ forgotten \in HistoryIds
  /\ binned \subseteq 1..MaxMailbox /\ pushes \subseteq HistoryIds
  /\ abandoned \subseteq HistoryIds
  /\ connection \in [id: 0..MaxConnections, cursor: HistoryIds \cup {NoCursor},
                     baseline: HistoryIds]
  /\ created \in 0..MaxConnections
  /\ jobs \in [SyncJobs -> Nat]
  /\ sync \in [Syncers -> [pc: SyncPc, job: SyncJobs \cup {NoJob},
                           seen: HistoryIds \cup {NoCursor}, at: Nat, upto: HistoryIds]]
=============================================================================
