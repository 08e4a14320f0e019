------------------------- MODULE MailIngestionProofs -------------------------
(***************************************************************************)
(* The safety properties of MailIngestion, for any number of sessions,     *)
(* mails, attachments, connections, retries and faults.                    *)
(***************************************************************************)
EXTENDS MailIngestion, TLAPS

\* A busy session has a mail; once it is past an attachment that is a receipt,
\* or done, its mail is handled.
IngestHolds(s) ==
  /\ ingest[s].pc # "idle" => ingest[s].mail \in Mails
  /\ ingest[s].pc = "parts" => ingest[s].part \in Nat \ {0}
  /\ ingest[s].pc = "dedup" => ingest[s].part = 1
  /\ ingest[s].pc = "parts" /\ (\E k \in ReceiptParts(ingest[s].mail) : k < ingest[s].part) =>
       Handled(ingest[s].mail)
  /\ ingest[s].pc = "done" => Handled(ingest[s].mail)

\* A push is not ahead of the mailbox, and a job names a row that was created.
JobIsReal(j) == j \in SyncJobs /\ j.conn <= created /\ j.push <= mailbox

\* Mails after the baseline of connection c, up to p, are handled.
PassedAreHandled(p) ==
  \A m \in 1..MaxMailbox : connection.baseline < m /\ m <= p => Handled(m)

\* What a task whose state is q knows.  The cursor it has read passes handled
\* mail only, as long as its row is there; what it has walked is handled; and
\* what it will walk reaches up to its push, unless Gmail had forgotten.
TaskHolds(q) ==
  /\ q.pc # "idle" => JobIsReal(q.job)
  /\ q.pc \in {"loaded", "walk", "ingest"} /\ q.seen # NoCursor /\ connection.id = q.job.conn =>
       PassedAreHandled(q.seen)
  /\ q.pc \in {"walk", "ingest"} =>
       /\ q.seen \in HistoryIds /\ q.seen < q.at
       /\ q.upto = 0 \/ q.job.push <= q.upto
       /\ \A m \in 1..MaxMailbox : q.seen < m /\ m < q.at /\ m <= q.upto => Handled(m)

\* A task that ingests a mail has its session do it.
SessionFollowsTask(w) ==
  /\ sync[w].pc = "ingest" <=> ingest[w].pc # "idle"
  /\ sync[w].pc = "ingest" => ingest[w].mail = sync[w].at /\ sync[w].at <= sync[w].upto

\* An attachment has one row at most, and its row was committed.
RowsHold ==
  /\ rows \in [Attachments -> 0..1]
  /\ \A x \in Attachments : rows[x] = 1 => x \in stored
IngestsHold == \A s \in Sessions : IngestHolds(s)
HandlersHold ==
  \A h \in Handlers : ingest[h].pc # "idle" => ingest[h].mail \in Forwarded
QueueHolds ==
  /\ \A p \in pushes : p <= mailbox
  /\ \A j \in SyncJobs : jobs[j] > 0 => JobIsReal(j)
  /\ connection.id <= created
TasksHold == \A w \in Syncers : TaskHolds(sync[w]) /\ SessionFollowsTask(w)

\* The part of the invariant about the rows and the sessions, and the part
\* about the Gmail channel.
InboundInv ==
  /\ InboundTypeOK /\ RowsHold /\ IngestsHold
  /\ WebhookTypeOK /\ HandlersHold /\ AcceptedMailIsHandled
SyncInv == SyncTypeOK /\ QueueHolds /\ TasksHold /\ CursorPassesHandledMail

MailInv == InboundInv /\ SyncInv

\* What is handled stays handled: the deletion of a receipt does not count.
LEMMA HandledStays ==
  ASSUME stored \subseteq stored', NEW m, Handled(m)
  PROVE  Handled(m)'
PROOF
  BY DEF Handled, ReceiptParts

\* An attachment's row is of its mail.
LEMMA AttachmentNamesMail ==
  ASSUME NEW s \in Sessions, InboundInv, Reached(s, "receipt")
  PROVE  /\ ingest[s].mail \in Mails
         /\ ingest[s].part \in ReceiptParts(ingest[s].mail)
         /\ Current(s) \in Attachments /\ Current(s)[1] = ingest[s].mail
PROOF
<1> DEFINE m == ingest[s].mail
           k == ingest[s].part
<1>1. m \in Mails /\ k \in Nat \ {0} /\ k <= Len(Parts[m]) /\ Parts[m][k] = "receipt"
  BY DEF InboundInv, IngestsHold, IngestHolds, Reached, Ingesting
<1>2. Len(Parts[m]) \in Nat
  BY <1>1, PartsAssumption
<1>3. k \in 1..Len(Parts[m])
  BY <1>1, <1>2
<1> QED
  BY <1>1, <1>3 DEF Attachments, Current, ReceiptParts

-----------------------------------------------------------------------------
(* Steps of a session. *)

\* What steps of sessions leave to the Gmail channel and the provider.
LEMMA SessionFrame ==
  ASSUME MailInv, stored \subseteq stored', UNCHANGED <<syncVars, provider>>,
         \A s \in Sessions : /\ ingest'[s].mail = ingest[s].mail
                             /\ ingest'[s].pc = "idle" <=> ingest[s].pc = "idle"
  PROVE  SyncInv' /\ WebhookTypeOK' /\ HandlersHold' /\ AcceptedMailIsHandled'
PROOF
<1> USE DEF MailInv, InboundInv, SyncInv, syncVars
<1>1. \A m : Handled(m) => Handled(m)'
  BY HandledStays
<1>2. SyncTypeOK' /\ WebhookTypeOK'
  BY DEF SyncTypeOK, WebhookTypeOK
<1>3. HandlersHold' /\ AcceptedMailIsHandled'
  BY <1>1, WebhookAssumption DEF HandlersHold, AcceptedMailIsHandled
<1>4. QueueHolds' /\ CursorPassesHandledMail'
  BY <1>1 DEF QueueHolds, JobIsReal, CursorPassesHandledMail, CursorPassed
<1>5. \A w \in Syncers : TaskHolds(sync[w])'
  BY <1>1 DEF TasksHold, TaskHolds, JobIsReal, PassedAreHandled
<1>6. \A w \in Syncers : SessionFollowsTask(w)'
  BY SyncAssumption DEF TasksHold, SessionFollowsTask
<1>7. TasksHold'
  BY <1>5, <1>6 DEF TasksHold
<1> QED
  BY <1>2, <1>3, <1>4, <1>7

\* A session's step to another point of its mail.
LEMMA SessionMoves ==
  ASSUME MailInv, NEW s \in Sessions, NEW q \in [pc : IngestPc, mail : Mails, part : Nat],
         ingest[s].pc # "idle", q.pc # "idle", q.mail = ingest[s].mail,
         ingest' = [ingest EXCEPT ![s] = q],
         stored \subseteq stored', stored' \subseteq Attachments, faults' \in 0..MaxFaults,
         q.pc = "parts" => q.part # 0, q.pc # "dedup",
         q.pc = "parts" /\ (\E k \in ReceiptParts(q.mail) : k < q.part) => Handled(q.mail)',
         q.pc = "done" => Handled(q.mail)',
         RowsHold', UNCHANGED <<syncVars, provider>>
  PROVE  MailInv'
PROOF
<1>1. ingest \in [Sessions -> [pc : IngestPc, mail : Mails \cup {NoMail}, part : Nat]]
  BY DEF MailInv, InboundInv, InboundTypeOK
<1>2. ingest'[s] = q /\ \A t \in Sessions \ {s} : ingest'[t] = ingest[t]
  BY <1>1
<1>3. \A t \in Sessions : /\ ingest'[t].mail = ingest[t].mail
                          /\ ingest'[t].pc = "idle" <=> ingest[t].pc = "idle"
  BY <1>2
<1>4. SyncInv' /\ WebhookTypeOK' /\ HandlersHold' /\ AcceptedMailIsHandled'
  BY <1>3, SessionFrame
<1>5. InboundTypeOK'
  BY <1>1 DEF InboundTypeOK, RowsHold
<1>6. IngestHolds(s)'
  BY <1>2 DEF IngestHolds, ReceiptParts
<1>7. ASSUME NEW t \in Sessions \ {s} PROVE IngestHolds(t)'
  <2>1. IngestHolds(t)
    BY DEF MailInv, InboundInv, IngestsHold
  <2> QED
    BY <1>2, <2>1, HandledStays DEF IngestHolds, ReceiptParts
<1>8. IngestsHold'
  BY <1>6, <1>7 DEF IngestsHold
<1> QED
  BY <1>4, <1>5, <1>8 DEF MailInv, InboundInv

\* What a session that ingests starts from: its own record.
LEMMA SessionStarts ==
  ASSUME MailInv, NEW s \in Sessions, ingest[s].pc # "idle"
  PROVE  /\ ingest[s] = [pc |-> ingest[s].pc, mail |-> ingest[s].mail, part |-> ingest[s].part]
         /\ ingest[s].pc \in IngestPc /\ ingest[s].mail \in Mails /\ ingest[s].part \in Nat
         /\ ingest[s].pc = "parts" => ingest[s].part # 0
         /\ \A pc : IngestGoto(s, pc) =>
              ingest' = [ingest EXCEPT ![s] = [pc |-> pc, mail |-> ingest[s].mail, part |-> ingest[s].part]]
         /\ NextPart(s) =>
              ingest' = [ingest EXCEPT ![s] =
                [pc |-> ingest[s].pc, mail |-> ingest[s].mail, part |-> ingest[s].part + 1]]
PROOF
<1>1. ingest \in [Sessions -> [pc : IngestPc, mail : Mails \cup {NoMail}, part : Nat]]
  BY DEF MailInv, InboundInv, InboundTypeOK
<1>2. IngestHolds(s)
  BY DEF MailInv, InboundInv, IngestsHold
<1> QED
  BY <1>1, <1>2 DEF IngestHolds, IngestGoto, NextPart

\* A session that ends its walk with an exception keeps nothing to know.
LEMMA SessionFails ==
  ASSUME MailInv, NEW s \in Sessions, ingest[s].pc # "idle", IngestGoto(s, "failed"),
         stored \subseteq stored', stored' \subseteq Attachments, faults' \in 0..MaxFaults,
         RowsHold', UNCHANGED <<syncVars, provider>>
  PROVE  MailInv'
PROOF
<1> DEFINE q == [pc |-> "failed", mail |-> ingest[s].mail, part |-> ingest[s].part]
<1>1. q \in [pc : IngestPc, mail : Mails, part : Nat] /\ ingest' = [ingest EXCEPT ![s] = q]
  BY SessionStarts DEF IngestPc
<1> QED
  BY <1>1, SessionMoves

\* The receipt of the attachment that s has come to is committed: the index
\* has admitted it, so that it is the attachment's only one, and its mail is handled.
LEMMA ReceiptIsCommitted ==
  ASSUME MailInv, NEW s \in Sessions, Reached(s, "receipt"), InsertRow(Current(s)),
         NEW m, m = ingest[s].mail
  PROVE  /\ stored \subseteq stored' /\ stored' \subseteq Attachments
         /\ RowsHold' /\ Handled(m)'
PROOF
<1>1. Current(s) \in Attachments /\ Current(s)[1] = ingest[s].mail
  BY AttachmentNamesMail DEF MailInv
<1>2. RowsHold /\ stored \subseteq Attachments
  BY DEF MailInv, InboundInv, InboundTypeOK
<1>3. rows[Current(s)] = 0
  BY <1>1, <1>2 DEF InsertRow, MessageIdFree, HasRow, RowsHold
<1>4. /\ rows' = [rows EXCEPT ![Current(s)] = 1]
      /\ stored' = stored \cup {Current(s)}
  BY <1>3 DEF InsertRow
<1>5. RowsHold'
  BY <1>1, <1>2, <1>4 DEF RowsHold
<1>6. \E x \in stored' : x[1] = m
  BY <1>1, <1>4
<1> QED
  BY <1>1, <1>2, <1>4, <1>5, <1>6 DEF Handled

\* Every step of process_inbound_email keeps the invariant.
LEMMA IngestKeeps ==
  ASSUME MailInv, NEW s \in Sessions, IngestStep(s) \/ IngestFault(s), UNCHANGED <<syncVars, provider>>
  PROVE  MailInv'
PROOF
<1> USE DEF Ingesting
<1>1. ingest[s].pc # "idle"
  BY DEF IngestStep, IngestFault, FindDuplicate, SkipAttachment, CreateReceipt, CreateCollides,
         AttachmentTooLarge, NoMoreAttachments, CreateFails, DispatchFails, Reached
<1> DEFINE m == ingest[s].mail
           k == ingest[s].part
<1>2. PICK mail, part : mail = m /\ part = k
  OBVIOUS
<1>3. /\ ingest[s].pc \in IngestPc /\ mail \in Mails /\ part \in Nat
      /\ ingest[s].pc = "parts" => part # 0
      /\ ingest[s].pc = "parts" /\ (\E i \in ReceiptParts(mail) : i < part) => Handled(mail)
  BY <1>1, <1>2, SessionStarts DEF MailInv, InboundInv, IngestsHold, IngestHolds
<1>4. RowsHold /\ stored \subseteq Attachments /\ faults \in 0..MaxFaults
  BY DEF MailInv, InboundInv, InboundTypeOK
<1>5. Fault => faults' \in 0..MaxFaults
  BY <1>4, MaxFaultsAssumption DEF Fault
<1>6. UNCHANGED <<rows, stored>> =>
        /\ RowsHold' /\ stored \subseteq stored' /\ stored' \subseteq Attachments
        /\ Handled(mail) => Handled(mail)'
  BY <1>4, HandledStays DEF RowsHold
<1>7. Len(Parts[mail]) \in Nat /\ ReceiptParts(mail) \subseteq 1..Len(Parts[mail])
  BY <1>3, PartsAssumption DEF ReceiptParts
<1>8. ASSUME NextPart(s), ingest[s].pc = "parts", faults' \in 0..MaxFaults,
             RowsHold', stored \subseteq stored', stored' \subseteq Attachments,
             part \in ReceiptParts(mail) => Handled(mail)'
      PROVE  MailInv'
  <2> DEFINE q == [pc |-> "parts", mail |-> mail, part |-> part + 1]
  <2>1. ingest' = [ingest EXCEPT ![s] = q]
    BY <1>1, <1>2, <1>8, SessionStarts
  <2>2. ASSUME NEW i \in ReceiptParts(mail), i < part + 1 PROVE Handled(mail)'
    <3>1. i < part \/ i = part
      BY <1>3, <1>7, <2>2
    <3> QED
      BY <1>3, <1>8, <2>2, <3>1, HandledStays
  <2>3. /\ q \in [pc : IngestPc, mail : Mails, part : Nat] /\ q.part # 0
        /\ q.pc = "parts" /\ q.mail = ingest[s].mail
    BY <1>2, <1>3 DEF IngestPc
  <2>4. (\E i \in ReceiptParts(q.mail) : i < q.part) => Handled(q.mail)'
    BY <2>2
  <2> HIDE DEF q
  <2> QED
    BY <1>1, <1>8, <2>1, <2>3, <2>4, SessionMoves
<1>9. ASSUME IngestGoto(s, "done"), UNCHANGED <<rows, stored, faults>>, Handled(mail)
      PROVE  MailInv'
  <2> DEFINE q == [pc |-> "done", mail |-> mail, part |-> part]
  <2>1. ingest' = [ingest EXCEPT ![s] = q]
    BY <1>1, <1>2, <1>9, SessionStarts
  <2>2. /\ q \in [pc : IngestPc, mail : Mails, part : Nat]
        /\ q.pc = "done" /\ q.mail = ingest[s].mail /\ Handled(q.mail)'
    BY <1>2, <1>3, <1>6, <1>9 DEF IngestPc
  <2> HIDE DEF q
  <2> QED
    BY <1>1, <1>4, <1>6, <1>9, <2>1, <2>2, SessionMoves
<1>10. CASE FindDuplicate(s)
  <2>1. CASE HasRow(m)
    <3>1. Handled(mail)
      BY <1>2, <1>4, <2>1 DEF HasRow, RowsHold, Handled
    <3> QED
      BY <1>9, <1>10, <2>1, <3>1 DEF FindDuplicate
  <2>2. CASE ~HasRow(m)
    <3> DEFINE q == [pc |-> "parts", mail |-> mail, part |-> part]
    <3>1. part = 1
      BY <1>2, <1>10 DEF FindDuplicate, MailInv, InboundInv, IngestsHold, IngestHolds
    <3>2. ingest' = [ingest EXCEPT ![s] = q]
      BY <1>1, <1>2, <1>10, <2>2, SessionStarts DEF FindDuplicate
    <3>3. /\ q \in [pc : IngestPc, mail : Mails, part : Nat] /\ q.part # 0 /\ q.pc = "parts"
          /\ q.mail = ingest[s].mail /\ ~\E i \in ReceiptParts(q.mail) : i < q.part
      BY <1>2, <1>3, <1>7, <3>1 DEF IngestPc
    <3> HIDE DEF q
    <3> QED
      BY <1>1, <1>4, <1>6, <1>10, <3>2, <3>3, SessionMoves DEF FindDuplicate
  <2> QED
    BY <2>1, <2>2
<1>11. CASE SkipAttachment(s)
  <2>1. Parts[mail][part] # "receipt" /\ ingest[s].pc = "parts"
    BY <1>2, <1>11 DEF SkipAttachment, Reached
  <2>2. part \notin ReceiptParts(mail)
    BY <2>1 DEF ReceiptParts
  <2> QED
    BY <1>4, <1>6, <1>8, <1>11, <2>1, <2>2 DEF SkipAttachment
<1>12. CASE CreateReceipt(s)
  <2>1. ingest[s].pc = "parts"
    BY <1>12 DEF CreateReceipt, Reached
  <2> QED
    BY <1>2, <1>4, <1>8, <1>12, <2>1, ReceiptIsCommitted DEF CreateReceipt
<1>13. CASE CreateCollides(s) \/ AttachmentTooLarge(s) \/ CreateFails(s)
  BY <1>1, <1>4, <1>5, <1>6, <1>13, SessionFails DEF CreateCollides, AttachmentTooLarge, CreateFails
<1>14. CASE DispatchFails(s)
  BY <1>1, <1>2, <1>5, <1>14, ReceiptIsCommitted, SessionFails DEF DispatchFails
<1>15. CASE NoMoreAttachments(s)
  <2>1. ingest[s].pc = "parts" /\ \A i \in ReceiptParts(mail) : i < part
    BY <1>2, <1>3, <1>7, <1>15 DEF NoMoreAttachments
  <2>2. Handled(mail)
    BY <1>3, <2>1 DEF Handled
  <2> QED
    BY <1>9, <1>15, <2>2 DEF NoMoreAttachments
<1> QED
  BY <1>10, <1>11, <1>12, <1>13, <1>14, <1>15 DEF IngestStep, IngestFault

-----------------------------------------------------------------------------
(* What the callers of process_inbound_email do to the inbound part. *)

\* Nothing of the inbound part changes but the count of faults.
LEMMA InboundFrame ==
  ASSUME InboundInv, UNCHANGED <<inboundVars, provider>>, faults' \in 0..MaxFaults
  PROVE  InboundInv'
PROOF
<1> USE DEF InboundInv, inboundVars
<1>1. \A m : Handled(m)' <=> Handled(m)
  BY DEF Handled, ReceiptParts
<1>2. InboundTypeOK' /\ WebhookTypeOK'
  BY DEF InboundTypeOK, WebhookTypeOK
<1>3. RowsHold'
  BY DEF RowsHold
<1>4. IngestsHold'
  BY <1>1 DEF IngestsHold, IngestHolds, ReceiptParts
<1>5. HandlersHold' /\ AcceptedMailIsHandled'
  BY <1>1 DEF HandlersHold, AcceptedMailIsHandled
<1> QED
  BY <1>2, <1>3, <1>4, <1>5

\* A session is handed a mail, or is taken back.
LEMMA SessionResets ==
  ASSUME InboundInv, NEW s \in Sessions,
         NEW q \in {IdleIngest} \cup {[pc |-> "dedup", mail |-> m, part |-> 1] : m \in Mails},
         q.pc # "idle" /\ s \in Handlers => q.mail \in Forwarded,
         ingest' = [ingest EXCEPT ![s] = q], UNCHANGED <<rows, stored>>,
         faults' \in 0..MaxFaults, WebhookTypeOK', AcceptedMailIsHandled'
  PROVE  InboundInv'
PROOF
<1>1. ingest \in [Sessions -> [pc : IngestPc, mail : Mails \cup {NoMail}, part : Nat]]
  BY DEF InboundInv, InboundTypeOK
<1>2. q \in [pc : IngestPc, mail : Mails \cup {NoMail}, part : Nat]
  BY DEF IdleIngest, IngestPc
<1>3. ingest'[s] = q /\ \A t \in Sessions \ {s} : ingest'[t] = ingest[t]
  BY <1>1
<1>4. /\ q.pc \in {"idle", "dedup"}
      /\ q.pc = "dedup" => q.mail \in Mails /\ q.part = 1
  BY DEF IdleIngest
<1>5. \A m : Handled(m) => Handled(m)'
  BY HandledStays
<1>6. ASSUME NEW t \in Sessions PROVE IngestHolds(t)'
  <2>1. CASE t = s
    BY <1>3, <1>4, <2>1 DEF IngestHolds
  <2>2. CASE t # s
    <3>1. IngestHolds(t)
      BY DEF InboundInv, IngestsHold
    <3> QED
      BY <1>3, <1>5, <2>2, <3>1 DEF IngestHolds, ReceiptParts
  <2> QED
    BY <2>1, <2>2
<1>7. InboundTypeOK' /\ RowsHold'
  BY <1>1, <1>2 DEF InboundInv, InboundTypeOK, RowsHold
<1>8. HandlersHold'
  BY <1>3, WebhookAssumption DEF InboundInv, HandlersHold
<1> QED
  BY <1>6, <1>7, <1>8 DEF InboundInv, IngestsHold

\* The webhook keeps the invariant.
LEMMA WebhookKeeps ==
  ASSUME MailInv, NEW h \in Handlers, WebhookStep(h) \/ HandlerFails(h), UNCHANGED syncVars
  PROVE  MailInv'
PROOF
<1>1. h \in Sessions /\ h \notin Syncers /\ Forwarded \subseteq Mails
  BY WebhookAssumption, SessionsAssumption
<1>2. /\ ingest \in [Sessions -> [pc : IngestPc, mail : Mails \cup {NoMail}, part : Nat]]
      /\ faults \in 0..MaxFaults /\ WebhookTypeOK /\ AcceptedMailIsHandled
  BY DEF MailInv, InboundInv, InboundTypeOK
<1>3. ASSUME UNCHANGED <<rows, stored>>, NEW q, ingest' = [ingest EXCEPT ![h] = q] PROVE SyncInv'
  <2>1. \A w \in Syncers : ingest'[w] = ingest[w]
    BY <1>1, <1>2, <1>3, SyncAssumption
  <2>2. \A m : Handled(m) => Handled(m)'
    BY <1>3, HandledStays
  <2>3. SyncTypeOK' /\ QueueHolds' /\ CursorPassesHandledMail'
    BY <2>2 DEF syncVars, MailInv, SyncInv, SyncTypeOK, QueueHolds, JobIsReal,
                CursorPassesHandledMail, CursorPassed
  <2>4. ASSUME NEW w \in Syncers PROVE TaskHolds(sync[w])' /\ SessionFollowsTask(w)'
    <3>1. TaskHolds(sync[w]) /\ SessionFollowsTask(w)
      BY DEF MailInv, SyncInv, TasksHold
    <3> QED
      BY <2>1, <2>2, <3>1 DEF syncVars, TaskHolds, JobIsReal, PassedAreHandled, SessionFollowsTask
  <2> QED
    BY <2>3, <2>4 DEF SyncInv, TasksHold
<1>4. ASSUME NEW m \in Forwarded, PostMail(h, m) PROVE MailInv'
  <2> DEFINE q == [pc |-> "dedup", mail |-> m, part |-> 1]
  <2>1. /\ ingest' = [ingest EXCEPT ![h] = q] /\ UNCHANGED <<rows, stored, faults, provider>>
        /\ q \in {[pc |-> "dedup", mail |-> x, part |-> 1] : x \in Mails} /\ q.mail \in Forwarded
    BY <1>1, <1>4 DEF PostMail, BeginIngest
  <2>2. WebhookTypeOK' /\ AcceptedMailIsHandled'
    BY <1>2, <2>1, HandledStays DEF WebhookTypeOK, AcceptedMailIsHandled
  <2> HIDE DEF q
  <2>3. InboundInv'
    BY <1>1, <1>2, <2>1, <2>2, SessionResets DEF MailInv
  <2> QED
    BY <1>3, <2>1, <2>3 DEF MailInv
<1>5. ASSUME EndIngest(h), UNCHANGED <<rows, stored>>, faults' \in 0..MaxFaults,
             WebhookTypeOK', AcceptedMailIsHandled'
      PROVE  MailInv'
  <2>1. ingest' = [ingest EXCEPT ![h] = IdleIngest] /\ IdleIngest.pc = "idle"
    BY <1>5 DEF EndIngest, IdleIngest
  <2>2. InboundInv'
    BY <1>1, <1>5, <2>1, SessionResets DEF MailInv
  <2> QED
    BY <1>3, <1>5, <2>1, <2>2 DEF MailInv
<1>6. CASE Respond(h)
  <2>1. UNCHANGED <<rows, stored>> /\ \A m : Handled(m) => Handled(m)'
    BY <1>6, HandledStays DEF Respond
  <2>2. WebhookTypeOK'
    BY <1>2, <1>6 DEF Respond, WebhookTypeOK
  <2>3. CASE ingest[h].pc = "done"
    <3>1. Handled(ingest[h].mail)
      BY <1>1, <2>3 DEF MailInv, InboundInv, IngestsHold, IngestHolds
    <3> QED
      BY <1>2, <1>5, <1>6, <2>1, <2>2, <2>3, <3>1
      DEF Respond, Ingesting, AcceptedMailIsHandled, WebhookTypeOK
  <2>4. CASE ingest[h].pc # "done"
    BY <1>2, <1>5, <1>6, <2>1, <2>2, <2>4 DEF Respond, Ingesting, AcceptedMailIsHandled
  <2> QED
    BY <2>3, <2>4
<1>7. CASE HandlerFails(h)
  <2>1. WebhookTypeOK' /\ AcceptedMailIsHandled'
    BY <1>2, <1>7, HandledStays DEF HandlerFails, WebhookTypeOK, AcceptedMailIsHandled
  <2>2. faults' \in 0..MaxFaults
    BY <1>2, <1>7, MaxFaultsAssumption DEF HandlerFails, Fault
  <2> QED
    BY <1>5, <1>7, <2>1, <2>2 DEF HandlerFails
<1> QED
  BY <1>4, <1>6, <1>7 DEF WebhookStep

-----------------------------------------------------------------------------
(* Steps of the Gmail channel. *)

Tasks == [pc : SyncPc, job : SyncJobs \cup {NoJob}, seen : HistoryIds \cup {NoCursor},
          at : Nat, upto : HistoryIds]
Connections == [id : 0..MaxConnections, cursor : HistoryIds \cup {NoCursor}, baseline : HistoryIds]

\* A connection whose baseline does not go back keeps what is known of its past.
LEMMA TaskKeepsHolding ==
  ASSUME NEW q, TaskHolds(q), stored \subseteq stored', UNCHANGED <<mailbox, created>>,
         connection'.id = connection.id,
         connection \in Connections, connection' \in Connections,
         connection'.baseline >= connection.baseline
  PROVE  TaskHolds(q)'
PROOF
<1>1. \A m : Handled(m) => Handled(m)'
  BY HandledStays
<1>2. \A p : PassedAreHandled(p) => PassedAreHandled(p)'
  <2>1. /\ connection.baseline \in Nat /\ connection'.baseline \in Nat
        /\ \A m \in 1..MaxMailbox : m \in Nat
    BY SyncAssumption DEF Connections, HistoryIds
  <2> QED
    BY <1>1, <2>1 DEF PassedAreHandled
<1> QED
  BY <1>1, <1>2 DEF TaskHolds, JobIsReal

\* A step of worker w: its task goes on as q.
LEMMA TaskMoves ==
  ASSUME SyncInv, NEW w \in Syncers, NEW q \in Tasks,
         sync' = [sync EXCEPT ![w] = q], TaskHolds(q),
         stored \subseteq stored', UNCHANGED <<mailboxVars, pushes, created>>,
         abandoned' \subseteq HistoryIds,
         connection' \in Connections, connection'.id = connection.id,
         connection'.baseline >= connection.baseline, CursorPassesHandledMail',
         jobs' \in [SyncJobs -> Nat],
         \A j \in SyncJobs : jobs'[j] > 0 => jobs[j] > 0 \/ JobIsReal(j),
         \A v \in Syncers \ {w} : ingest'[v] = ingest[v],
         q.pc = "ingest" <=> ingest'[w].pc # "idle",
         q.pc = "ingest" => ingest'[w].mail = q.at /\ q.at <= q.upto
  PROVE  SyncInv'
PROOF
<1>1. sync \in [Syncers -> Tasks] /\ connection \in Connections
  BY DEF SyncInv, SyncTypeOK, Tasks, Connections
<1>2. sync'[w] = q /\ \A v \in Syncers \ {w} : sync'[v] = sync[v]
  BY <1>1
<1>3. \A v \in Syncers : TaskHolds(sync[v]) /\ SessionFollowsTask(v)
  BY DEF SyncInv, TasksHold
<1>4. \A r : TaskHolds(r) => TaskHolds(r)'
  BY <1>1, TaskKeepsHolding DEF mailboxVars
<1>5. ASSUME NEW v \in Syncers PROVE TaskHolds(sync[v])' /\ SessionFollowsTask(v)'
  <2>1. CASE v = w
    BY <1>2, <1>4, <2>1 DEF SessionFollowsTask, TaskHolds, JobIsReal, PassedAreHandled
  <2>2. CASE v # w
    <3>1. sync'[v] = sync[v] /\ ingest'[v] = ingest[v]
      BY <1>2, <2>2
    <3>2. SessionFollowsTask(v)'
      BY <1>3, <3>1 DEF SessionFollowsTask
    <3> QED
      BY <1>3, <1>4, <3>1, <3>2 DEF TaskHolds, JobIsReal, PassedAreHandled
  <2> QED
    BY <2>1, <2>2
<1>6. SyncTypeOK'
  BY <1>1 DEF SyncInv, SyncTypeOK, mailboxVars, Tasks, Connections
<1>7. QueueHolds'
  BY DEF SyncInv, QueueHolds, JobIsReal, mailboxVars
<1> QED
  BY <1>5, <1>6, <1>7 DEF SyncInv, TasksHold

\* The same, of a step that writes neither the row nor a session.
LEMMA TaskMovesAlone ==
  ASSUME MailInv, NEW w \in Syncers, NEW q \in Tasks,
         sync' = [sync EXCEPT ![w] = q], TaskHolds(q), q.pc # "ingest", sync[w].pc # "ingest",
         UNCHANGED <<mailboxVars, pushes, created, connection, inboundVars, provider>>,
         abandoned' \subseteq HistoryIds, faults' \in 0..MaxFaults,
         jobs' \in [SyncJobs -> Nat],
         \A j \in SyncJobs : jobs'[j] > 0 => jobs[j] > 0 \/ JobIsReal(j)
  PROVE  MailInv'
PROOF
<1>1. stored \subseteq stored' /\ \A m : Handled(m) => Handled(m)'
  BY HandledStays DEF inboundVars
<1>2. /\ connection' \in Connections /\ connection'.id = connection.id
      /\ connection'.baseline >= connection.baseline
  BY DEF MailInv, SyncInv, SyncTypeOK, Connections, HistoryIds
<1>3. CursorPassesHandledMail'
  BY <1>1 DEF MailInv, SyncInv, CursorPassesHandledMail, CursorPassed
<1>4. /\ \A v \in Syncers \ {w} : ingest'[v] = ingest[v]
      /\ q.pc = "ingest" <=> ingest'[w].pc # "idle"
      /\ q.pc = "ingest" => ingest'[w].mail = q.at /\ q.at <= q.upto
  BY DEF MailInv, SyncInv, TasksHold, SessionFollowsTask, inboundVars
<1>5. SyncInv'
  BY <1>1, <1>2, <1>3, <1>4, TaskMoves DEF MailInv
<1>6. InboundInv'
  BY InboundFrame DEF MailInv
<1> QED
  BY <1>5, <1>6 DEF MailInv

\* What a busy worker starts from.
LEMMA TaskStarts ==
  ASSUME MailInv, NEW w \in Syncers, sync[w].pc # "idle"
  PROVE  /\ TaskHolds(sync[w]) /\ SessionFollowsTask(w) /\ sync[w] \in Tasks
         /\ JobIsReal(sync[w].job) /\ sync[w].job \in SyncJobs
         /\ \A pc : SyncGoto(w, pc) =>
              sync' = [sync EXCEPT ![w] = [pc |-> pc, job |-> sync[w].job, seen |-> sync[w].seen,
                                           at |-> sync[w].at, upto |-> sync[w].upto]]
PROOF
<1>1. sync \in [Syncers -> Tasks]
  BY DEF MailInv, SyncInv, SyncTypeOK, Tasks
<1>2. TaskHolds(sync[w]) /\ SessionFollowsTask(w)
  BY DEF MailInv, SyncInv, TasksHold
<1> QED
  BY <1>1, <1>2 DEF TaskHolds, JobIsReal, SyncGoto, Tasks

\* A task ends, or is to be tried again: there is nothing left for it to know.
LEMMA TaskEnds ==
  ASSUME MailInv, NEW w \in Syncers, sync[w].pc \notin {"idle", "ingest"},
         NEW pc \in {"retry", "ack"}, SyncGoto(w, pc),
         UNCHANGED <<mailboxVars, pushes, created, connection, inboundVars, provider>>,
         abandoned' \subseteq HistoryIds, faults' \in 0..MaxFaults,
         jobs' \in [SyncJobs -> Nat],
         \A j \in SyncJobs : jobs'[j] > 0 => jobs[j] > 0 \/ JobIsReal(j)
  PROVE  MailInv'
PROOF
<1> DEFINE q == [pc |-> pc, job |-> sync[w].job, seen |-> sync[w].seen,
                 at |-> sync[w].at, upto |-> sync[w].upto]
<1>1. sync' = [sync EXCEPT ![w] = q]
  BY TaskStarts
<1>2. q \in Tasks /\ TaskHolds(q)
  BY TaskStarts DEF Tasks, SyncPc, TaskHolds
<1>3. q.pc # "ingest"
  OBVIOUS
<1> HIDE DEF q
<1> QED
  BY <1>1, <1>2, <1>3, TaskMovesAlone

\* A job that is sent is in the queue.
LEMMA JobsGrow ==
  ASSUME MailInv, NEW j \in SyncJobs, JobIsReal(j), SendJob(j)
  PROVE  /\ jobs' \in [SyncJobs -> Nat]
         /\ \A i \in SyncJobs : jobs'[i] > 0 => jobs[i] > 0 \/ JobIsReal(i)
PROOF
  BY DEF MailInv, SyncInv, SyncTypeOK, SendJob

\* The row's cursor moves to a value whose past is handled: the write of a seed
\* or of a finished walk, by a task that goes on to its acknowledgement.
LEMMA CursorMoves ==
  ASSUME MailInv, NEW w \in Syncers, sync[w].pc \in {"loaded", "walk"}, SyncGoto(w, "ack"),
         NEW c \in Connections, connection' = c,
         c.id = connection.id, c.baseline >= connection.baseline,
         \A m \in 1..MaxMailbox : c.baseline < m /\ m <= c.cursor => Handled(m),
         UNCHANGED <<mailboxVars, pushes, created, jobs, abandoned, inboundVars, faults, provider>>
  PROVE  MailInv'
PROOF
<1> DEFINE q == [pc |-> "ack", job |-> sync[w].job, seen |-> sync[w].seen,
                 at |-> sync[w].at, upto |-> sync[w].upto]
<1>1. sync' = [sync EXCEPT ![w] = q] /\ q \in Tasks /\ TaskHolds(q) /\ q.pc = "ack"
  BY TaskStarts DEF Tasks, SyncPc, TaskHolds
<1>2. stored \subseteq stored' /\ \A m : Handled(m) => Handled(m)'
  BY HandledStays DEF inboundVars
<1>3. CursorPassesHandledMail'
  BY <1>2 DEF CursorPassesHandledMail, CursorPassed
<1>4. ingest' = ingest /\ ingest[w].pc = "idle"
  BY TaskStarts DEF inboundVars, SessionFollowsTask
<1>5. abandoned' \subseteq HistoryIds /\ jobs' \in [SyncJobs -> Nat] /\ faults' \in 0..MaxFaults
  BY DEF MailInv, SyncInv, InboundInv, SyncTypeOK, InboundTypeOK
<1> HIDE DEF q
<1>6. SyncInv'
  BY <1>1, <1>2, <1>3, <1>4, <1>5, TaskMoves DEF MailInv
<1>7. InboundInv'
  BY <1>5, InboundFrame DEF MailInv
<1> QED
  BY <1>6, <1>7 DEF MailInv

\* Every step of gmail_history_sync keeps the invariant.
LEMMA SyncStepKeeps ==
  ASSUME MailInv, NEW w \in Syncers, SyncStep(w), UNCHANGED provider
  PROVE  MailInv'
PROOF
<1> USE DEF Syncing
<1>1. /\ sync \in [Syncers -> Tasks] /\ connection \in Connections /\ jobs \in [SyncJobs -> Nat]
      /\ mailbox \in HistoryIds /\ abandoned \subseteq HistoryIds /\ created \in Nat
      /\ faults \in 0..MaxFaults /\ CursorPassesHandledMail
      /\ ingest \in [Sessions -> [pc : IngestPc, mail : Mails \cup {NoMail}, part : Nat]]
  BY SyncAssumption
  DEF MailInv, SyncInv, SyncTypeOK, InboundInv, InboundTypeOK, Tasks, Connections
<1>2. HistoryIds \subseteq Nat /\ 0 \in HistoryIds /\ 1..MaxMailbox \subseteq Mails
      /\ w \in Sessions /\ w \notin Handlers
      /\ 1..MaxMailbox \subseteq HistoryIds
  BY SyncAssumption, SessionsAssumption DEF HistoryIds
<1>3. \A p \in HistoryIds, b \in HistoryIds : Later(p, b) \in HistoryIds /\ Later(p, b) >= p /\ Later(p, b) >= b
  BY <1>2 DEF Later
<1>15. /\ \A p \in HistoryIds : p \in Nat
       /\ \A m \in 1..MaxMailbox : m \in Nat
       /\ connection.baseline \in HistoryIds /\ connection.baseline \in Nat /\ mailbox \in Nat
       /\ connection.baseline >= connection.baseline
  <2>1. \A p \in HistoryIds : p \in Nat
    BY <1>2
  <2>2. \A m \in 1..MaxMailbox : m \in Nat
    BY SyncAssumption
  <2>3. connection.baseline \in HistoryIds
    BY <1>1 DEF Connections
  <2>4. connection.baseline \in Nat /\ mailbox \in Nat
    BY <1>1, <2>1, <2>3
  <2>5. connection.baseline >= connection.baseline
    BY <2>4
  <2> QED
    BY <2>1, <2>2, <2>3, <2>4, <2>5
<1>16. ASSUME UNCHANGED <<stored, connection, provider>>
       PROVE  CursorPassesHandledMail' /\ WebhookTypeOK' /\ AcceptedMailIsHandled'
  <2>1. \A m : Handled(m) => Handled(m)'
    BY <1>16, HandledStays
  <2>2. CursorPassesHandledMail'
    BY <1>1, <1>16, <2>1 DEF CursorPassesHandledMail, CursorPassed
  <2>3. WebhookTypeOK' /\ AcceptedMailIsHandled'
    BY <1>16, <2>1 DEF WebhookTypeOK, AcceptedMailIsHandled, MailInv, InboundInv
  <2> QED
    BY <2>2, <2>3
<1>4. ASSUME NEW j \in SyncJobs, LoadConnection(w, j) PROVE MailInv'
  <2> DEFINE q == [pc |-> IF connection.id = j.conn THEN "loaded" ELSE "ack", job |-> j,
                   seen |-> IF connection.id = j.conn THEN connection.cursor ELSE NoCursor,
                   at |-> 0, upto |-> 0]
  <2>1. sync' = [sync EXCEPT ![w] = q] /\ q \in Tasks /\ q.pc # "ingest"
    BY <1>1, <1>2, <1>4 DEF LoadConnection, Tasks, SyncPc, Connections
  <2>2. JobIsReal(j)
    BY <1>4 DEF LoadConnection, MailInv, SyncInv, QueueHolds
  <2>3. TaskHolds(q)
    BY <1>1, <2>2 DEF TaskHolds, PassedAreHandled, CursorPassesHandledMail, CursorPassed
  <2>4. jobs' \in [SyncJobs -> Nat] /\ \A i \in SyncJobs : jobs'[i] > 0 => jobs[i] > 0
    BY <1>1, <1>4 DEF LoadConnection
  <2> HIDE DEF q
  <2> QED
    BY <1>1, <1>4, <2>1, <2>3, <2>4, TaskMovesAlone DEF LoadConnection
<1>5. CASE CursorWriteFails(w)
  BY <1>1, <1>5, TaskEnds DEF CursorWriteFails
<1>6. CASE SeedCursor(w)
  <2> DEFINE p == sync[w].job.push
             c == [id |-> connection.id, cursor |-> p, baseline |-> Later(p, connection.baseline)]
  <2>1. p \in HistoryIds
    BY <1>6, TaskStarts DEF SeedCursor, SyncJobs
  <2>2. connection' = c /\ c \in Connections /\ c.baseline >= p /\ c.baseline >= connection.baseline
    BY <1>1, <1>3, <1>6, <2>1 DEF SeedCursor, Connections
  <2>3. ASSUME NEW m \in 1..MaxMailbox, c.baseline < m, m <= c.cursor PROVE Handled(m)
    <3>1. c.baseline >= p /\ c.cursor = p /\ c.baseline \in Nat /\ p \in Nat /\ m \in Nat
      BY <1>15, <2>1, <2>2 DEF Connections
    <3> QED
      BY <2>3, <3>1
  <2>4. c.id = connection.id
    OBVIOUS
  <2> HIDE DEF c
  <2> QED
    BY <1>6, <2>2, <2>3, <2>4, CursorMoves DEF SeedCursor
<1>7. CASE ListHistory(w)
  <2> DEFINE q == [pc |-> "walk", job |-> sync[w].job, seen |-> sync[w].seen, at |-> sync[w].seen + 1,
                   upto |-> IF sync[w].seen < forgotten THEN 0 ELSE mailbox]
  <2>1. TaskHolds(sync[w]) /\ JobIsReal(sync[w].job) /\ sync[w] \in Tasks
    BY <1>7, TaskStarts DEF ListHistory
  <2>2. sync[w].seen \in HistoryIds /\ sync[w].job.push \in Nat
    BY <1>2, <1>7, <2>1 DEF ListHistory, Tasks, JobIsReal, SyncJobs
  <2>3. sync' = [sync EXCEPT ![w] = q]
    BY <1>7 DEF ListHistory
  <2>4. q \in Tasks /\ q.pc # "ingest"
    <3>1. sync[w].seen + 1 \in Nat
      BY <1>15, <2>2
    <3> QED
      BY <1>1, <1>2, <2>1, <2>2, <3>1 DEF Tasks, SyncPc
  <2>5. TaskHolds(q)
    BY <1>1, <1>2, <1>7, <2>1, <2>2 DEF ListHistory, TaskHolds, JobIsReal
  <2> HIDE DEF q
  <2> QED
    BY <1>1, <1>7, <2>3, <2>4, <2>5, TaskMovesAlone DEF ListHistory
<1>8. CASE FetchMail(w)
  <2> DEFINE q == [pc |-> "ingest", job |-> sync[w].job, seen |-> sync[w].seen,
                   at |-> sync[w].at, upto |-> sync[w].upto]
             i == [pc |-> "dedup", mail |-> sync[w].at, part |-> 1]
  <2>1. TaskHolds(sync[w]) /\ sync[w] \in Tasks /\ sync' = [sync EXCEPT ![w] = q]
    BY <1>8, TaskStarts DEF FetchMail
  <2>2. sync[w].at \in 1..MaxMailbox
    BY <1>2, <1>8, <2>1, SyncAssumption DEF FetchMail, TaskHolds, Tasks, HistoryIds
  <2>3. q \in Tasks /\ TaskHolds(q)
    BY <1>8, <2>1 DEF FetchMail, TaskHolds, Tasks, SyncPc
  <2>4. /\ ingest' = [ingest EXCEPT ![w] = i] /\ i.pc = "dedup" /\ i.mail = q.at /\ q.at <= q.upto
        /\ i \in {[pc |-> "dedup", mail |-> m, part |-> 1] : m \in Mails}
        /\ UNCHANGED <<mailboxVars, pushes, connection, created, jobs, abandoned, rows, stored, faults>>
    BY <1>2, <1>8, <2>2 DEF FetchMail, BeginIngest
  <2>5. /\ CursorPassesHandledMail' /\ WebhookTypeOK' /\ AcceptedMailIsHandled'
        /\ connection.baseline >= connection.baseline
    BY <1>15, <1>16, <2>4
  <2>6. q.pc = "ingest"
    OBVIOUS
  <2> HIDE DEF q, i
  <2>7. ingest'[w] = i /\ \A v \in Syncers \ {w} : ingest'[v] = ingest[v]
    BY <1>1, <1>2, <2>4, SyncAssumption
  <2>8. SyncInv'
    BY <1>1, <2>1, <2>3, <2>4, <2>5, <2>6, <2>7, TaskMoves DEF MailInv
  <2>9. InboundInv'
    BY <1>1, <1>2, <2>4, <2>5, SessionResets DEF MailInv
  <2> QED
    BY <2>8, <2>9 DEF MailInv
<1>9. CASE FetchFails(w)
  BY <1>1, <1>9, TaskEnds DEF FetchFails
<1>10. CASE MailIngested(w)
  <2> DEFINE q == [pc |-> IF ingest[w].pc = "done" THEN "walk" ELSE "retry", job |-> sync[w].job,
                   seen |-> sync[w].seen, at |-> sync[w].at + 1, upto |-> sync[w].upto]
  <2>1. /\ TaskHolds(sync[w]) /\ sync[w] \in Tasks
        /\ ingest[w].mail = sync[w].at /\ sync[w].at \in Nat
    BY <1>10, TaskStarts DEF MailIngested, SessionFollowsTask, Tasks
  <2>2. sync' = [sync EXCEPT ![w] = q]
    BY <1>1, <1>10 DEF MailIngested, Ingesting, Tasks
  <2>3. ingest[w].pc = "done" => Handled(sync[w].at)
    BY <1>2, <2>1 DEF MailInv, InboundInv, IngestsHold, IngestHolds
  <2>4. q \in Tasks /\ q.pc # "ingest"
    BY <2>1 DEF Tasks, SyncPc
  <2>5. TaskHolds(q)
    <3>1. CASE ingest[w].pc # "done"
      BY <1>10, <2>1, <3>1 DEF MailIngested, TaskHolds
    <3>2. CASE ingest[w].pc = "done"
      <4>1. /\ sync[w].seen \in HistoryIds /\ sync[w].seen < sync[w].at
            /\ sync[w].upto = 0 \/ sync[w].job.push <= sync[w].upto
            /\ \A m \in 1..MaxMailbox : sync[w].seen < m /\ m < sync[w].at /\ m <= sync[w].upto => Handled(m)
        BY <1>10, <2>1 DEF MailIngested, TaskHolds
      <4>2. \A m \in 1..MaxMailbox : m < sync[w].at + 1 => m < sync[w].at \/ m = sync[w].at
        BY <1>2, <2>1
      <4>3. sync[w].seen < sync[w].at + 1
        BY <1>15, <2>1, <4>1
      <4> QED
        BY <1>10, <2>1, <2>3, <3>2, <4>1, <4>2, <4>3 DEF MailIngested, TaskHolds
    <3> QED
      BY <3>1, <3>2
  <2>6. /\ ingest' = [ingest EXCEPT ![w] = IdleIngest] /\ IdleIngest.pc = "idle"
        /\ UNCHANGED <<mailboxVars, pushes, connection, created, jobs, abandoned, rows, stored, faults>>
    BY <1>10 DEF MailIngested, EndIngest, IdleIngest
  <2>7. /\ CursorPassesHandledMail' /\ WebhookTypeOK' /\ AcceptedMailIsHandled'
        /\ connection.baseline >= connection.baseline
    BY <1>15, <1>16, <2>6
  <2>8. ingest'[w].pc = "idle" /\ \A v \in Syncers \ {w} : ingest'[v] = ingest[v]
    BY <1>1, <1>2, <2>6, SyncAssumption
  <2> HIDE DEF q
  <2>9. SyncInv'
    BY <1>1, <2>2, <2>4, <2>5, <2>6, <2>7, <2>8, TaskMoves DEF MailInv
  <2>10. InboundInv'
    BY <1>1, <1>2, <2>6, <2>7, SessionResets DEF MailInv
  <2> QED
    BY <2>9, <2>10 DEF MailInv
<1>11. CASE AdvanceCursor(w)
  <2> DEFINE p == sync[w].job.push
  <2>1. CASE sync[w].seen = p
    BY <1>1, <1>11, <2>1, TaskEnds DEF AdvanceCursor
  <2>2. CASE sync[w].seen # p
    <3> DEFINE c == [id |-> connection.id, cursor |-> p,
                     baseline |-> IF sync[w].upto = 0 THEN Later(p, connection.baseline)
                                                      ELSE connection.baseline]
    <3>1. /\ p \in HistoryIds /\ TaskHolds(sync[w]) /\ sync[w] \in Tasks
          /\ connection.id = sync[w].job.conn
      BY <1>11, <2>2, TaskStarts DEF AdvanceCursor, StillThere, SyncJobs
    <3>2. connection' = c
      BY <1>1, <1>11, <2>2 DEF AdvanceCursor, Connections
    <3>3. c \in Connections /\ c.baseline >= connection.baseline
      <4>1. Later(p, connection.baseline) \in HistoryIds /\ Later(p, connection.baseline) >= connection.baseline
        BY <1>3, <1>15, <3>1
      <4> QED
        BY <1>1, <1>15, <3>1, <4>1 DEF Connections
    <3>4. ASSUME NEW m \in 1..MaxMailbox, c.baseline < m, m <= p PROVE Handled(m)
      <4>1. m \in Nat /\ connection.baseline \in Nat /\ sync[w].seen \in Nat
            /\ sync[w].at \in Nat /\ sync[w].upto \in Nat /\ p \in Nat
        BY <1>1, <1>2, <1>11, <3>1 DEF AdvanceCursor, TaskHolds, Connections, Tasks
      <4>2. sync[w].upto # 0 /\ connection.baseline < m
        <5>1. c.baseline = IF sync[w].upto = 0 THEN Later(p, connection.baseline) ELSE connection.baseline
          OBVIOUS
        <5>2. Later(p, connection.baseline) >= p /\ Later(p, connection.baseline) \in Nat
          BY <1>3, <1>15, <3>1
        <5> HIDE DEF c
        <5> QED
          BY <3>4, <4>1, <5>1, <5>2
      <4>3. CASE m <= sync[w].seen
        <5>1. sync[w].seen # NoCursor
          BY <4>1, SyncAssumption
        <5> QED
          BY <1>11, <3>1, <4>2, <4>3, <5>1 DEF AdvanceCursor, TaskHolds, PassedAreHandled
      <4>4. CASE sync[w].seen < m
        <5>1. p <= sync[w].upto /\ sync[w].at > sync[w].upto
          BY <1>11, <3>1, <4>2 DEF AdvanceCursor, TaskHolds
        <5>2. m < sync[w].at /\ m <= sync[w].upto
          BY <3>4, <4>1, <5>1
        <5> QED
          BY <1>11, <3>1, <4>4, <5>2 DEF AdvanceCursor, TaskHolds
      <4> QED
        BY <4>1, <4>3, <4>4
    <3>5. c.id = connection.id /\ c.cursor = p
      OBVIOUS
    <3> HIDE DEF c
    <3> QED
      BY <1>11, <3>2, <3>3, <3>4, <3>5, CursorMoves DEF AdvanceCursor
  <2> QED
    BY <2>1, <2>2
<1>12. CASE SyncRetry(w)
  <2> DEFINE j == [conn |-> sync[w].job.conn, push |-> sync[w].job.push, tries |-> sync[w].job.tries + 1]
  <2>1. sync[w].job \in SyncJobs /\ JobIsReal(sync[w].job) /\ sync[w].job.tries < MaxRetries
    BY <1>12, TaskStarts DEF SyncRetry
  <2>2. j \in SyncJobs /\ JobIsReal(j)
    BY <2>1, SyncAssumption DEF SyncJobs, JobIsReal
  <2>3. SendJob(j)
    BY <1>12, <2>1 DEF SyncRetry, SyncJobs
  <2> HIDE DEF j
  <2> QED
    BY <1>1, <1>12, <2>2, <2>3, JobsGrow, TaskEnds DEF SyncRetry
<1>13. CASE SyncGivesUp(w)
  <2>1. sync[w].job.push \in HistoryIds
    BY <1>13, TaskStarts DEF SyncGivesUp, SyncJobs
  <2> QED
    BY <1>1, <1>13, <2>1, TaskEnds DEF SyncGivesUp
<1>14. CASE SyncAck(w)
  <2>1. IdleSync \in Tasks /\ TaskHolds(IdleSync) /\ IdleSync.pc = "idle"
    BY <1>2 DEF IdleSync, Tasks, SyncPc, TaskHolds
  <2> QED
    BY <1>1, <1>14, <2>1, TaskMovesAlone DEF SyncAck
<1> QED
  BY <1>4, <1>5, <1>6, <1>7, <1>8, <1>9, <1>10, <1>11, <1>12, <1>13, <1>14 DEF SyncStep

\* Gmail, Pub/Sub and the user change the Gmail channel's state, no task's.
LEMMA MailboxKeeps ==
  ASSUME MailInv, UNCHANGED <<inboundVars, provider, sync>>, faults' \in 0..MaxFaults, SyncTypeOK',
         mailbox' >= mailbox, created' >= created,
         \A p \in pushes' : p <= mailbox',
         \A j \in SyncJobs : jobs'[j] > 0 => jobs[j] > 0 \/ (j.conn <= created' /\ j.push <= mailbox'),
         \/ UNCHANGED <<connection, created>>
         \/ connection' = NoConnection
         \/ connection' = [id |-> created', cursor |-> NoCursor, baseline |-> 0] /\ created' > created
  PROVE  MailInv'
PROOF
<1>1. \A m : Handled(m) => Handled(m)'
  BY HandledStays DEF inboundVars
<1>2. /\ mailbox \in Nat /\ mailbox' \in Nat /\ created \in Nat /\ created' \in Nat
      /\ \A j \in SyncJobs : j.conn \in Nat \ {0} /\ j.push \in Nat
      /\ connection \in Connections /\ CursorPassesHandledMail
  BY SyncAssumption
  DEF MailInv, SyncInv, SyncTypeOK, SyncJobs, HistoryIds, Connections
<1>3. \A j : JobIsReal(j) => JobIsReal(j)'
  BY <1>2 DEF JobIsReal
<1>4. connection'.id # 0 => UNCHANGED connection \/ connection'.id > created
  BY <1>2 DEF NoConnection
<1>5. CursorPassesHandledMail'
  BY <1>1, <1>2 DEF CursorPassesHandledMail, CursorPassed, NoConnection
<1>6. QueueHolds'
  <2>1. connection'.id <= created'
    BY <1>2 DEF MailInv, SyncInv, QueueHolds, NoConnection
  <2>2. ASSUME NEW j \in SyncJobs, jobs'[j] > 0 PROVE JobIsReal(j)'
    BY <1>3, <2>2 DEF MailInv, SyncInv, QueueHolds, JobIsReal
  <2> QED
    BY <2>1, <2>2 DEF QueueHolds
<1>7. ASSUME NEW w \in Syncers PROVE TaskHolds(sync[w])' /\ SessionFollowsTask(w)'
  <2>1. TaskHolds(sync[w]) /\ SessionFollowsTask(w)
    BY DEF MailInv, SyncInv, TasksHold
  <2>2. SessionFollowsTask(w)'
    BY <2>1 DEF SessionFollowsTask, inboundVars
  <2>3. PICK q : q = sync[w]
    OBVIOUS
  <2>4. q.pc # "idle" => JobIsReal(q.job)'
    BY <1>3, <2>1, <2>3 DEF TaskHolds
  <2>5. q.pc # "idle" /\ connection'.id = q.job.conn => UNCHANGED connection
    BY <1>2, <1>4, <2>1, <2>3 DEF TaskHolds, JobIsReal
  <2>6. UNCHANGED connection => \A p : PassedAreHandled(p) => PassedAreHandled(p)'
    BY <1>1 DEF PassedAreHandled
  <2>7. TaskHolds(q)'
    BY <1>1, <2>1, <2>3, <2>4, <2>5, <2>6 DEF TaskHolds
  <2> QED
    BY <2>2, <2>3, <2>7 DEF TaskHolds, JobIsReal, PassedAreHandled
<1>8. SyncInv'
  BY <1>5, <1>6, <1>7 DEF SyncInv, TasksHold
<1>9. InboundInv'
  BY InboundFrame DEF MailInv
<1> QED
  BY <1>8, <1>9 DEF MailInv

\* The steps around the task.
LEMMA ChannelKeeps ==
  ASSUME MailInv, MailboxStep \/ PushStep \/ SyncFault, UNCHANGED provider
  PROVE  MailInv'
PROOF
<1>1. SyncTypeOK /\ QueueHolds /\ faults \in 0..MaxFaults
  BY DEF MailInv, SyncInv, InboundInv, InboundTypeOK
<1>2. /\ mailbox \in HistoryIds /\ pushes \subseteq HistoryIds /\ jobs \in [SyncJobs -> Nat]
      /\ created \in 0..MaxConnections /\ connection \in Connections
      /\ abandoned \subseteq HistoryIds
      /\ sync \in [Syncers -> Tasks]
      /\ \A p \in HistoryIds : p \in Nat
  BY <1>1, SyncAssumption DEF SyncTypeOK, HistoryIds, Connections, Tasks
<1>3. /\ mailbox \in Nat /\ created \in Nat /\ \A p \in pushes : p <= mailbox
      /\ connection.id <= created /\ connection.id \in 0..MaxConnections
      /\ mailbox >= mailbox /\ created >= created
  BY <1>1, <1>2, SyncAssumption DEF QueueHolds, Connections
<1>4. Fault => faults' \in 0..MaxFaults
  BY <1>1, MaxFaultsAssumption DEF Fault
<1>5. CASE MailArrives
  <2>1. /\ mailbox' = mailbox + 1 /\ mailbox' \in HistoryIds /\ mailbox' >= mailbox
        /\ pushes' = pushes \cup {mailbox'}
        /\ UNCHANGED <<forgotten, binned, connection, created, jobs, sync, abandoned, inboundVars, faults>>
    BY <1>2, <1>3, <1>5, SyncAssumption DEF MailArrives, HistoryIds
  <2>2. SyncTypeOK'
    BY <1>1, <2>1 DEF SyncTypeOK
  <2>3. \A p \in pushes' : p <= mailbox'
    BY <1>2, <1>3, <2>1
  <2> QED
    BY <1>1, <1>3, <2>1, <2>2, <2>3, MailboxKeeps
<1>6. CASE HistoryExpires
  <2>1. forgotten' \in HistoryIds
    BY <1>1, <1>6, SyncAssumption DEF HistoryExpires, SyncTypeOK, HistoryIds
  <2>2. SyncTypeOK'
    BY <1>1, <1>6, <2>1 DEF HistoryExpires, SyncTypeOK
  <2> QED
    BY <1>1, <1>3, <1>4, <1>6, <2>2, MailboxKeeps DEF HistoryExpires
<1>7. ASSUME NEW m \in 1..MaxMailbox, MailBinned(m) PROVE MailInv'
  <2>1. SyncTypeOK'
    BY <1>1, <1>7 DEF MailBinned, SyncTypeOK
  <2> QED
    BY <1>1, <1>3, <1>4, <1>7, <2>1, MailboxKeeps DEF MailBinned
<1>8. CASE Connect
  <2>1. /\ created' = created + 1 /\ created' \in 0..MaxConnections /\ created' > created
        /\ connection' = [id |-> created', cursor |-> NoCursor, baseline |-> 0]
        /\ UNCHANGED <<mailboxVars, pushes, jobs, sync, abandoned, inboundVars, faults>>
    BY <1>2, <1>3, <1>8, SyncAssumption DEF Connect
  <2>2. connection' \in Connections
    BY <2>1, SyncAssumption DEF Connections, HistoryIds
  <2>3. SyncTypeOK'
    BY <1>1, <2>1, <2>2 DEF SyncTypeOK, mailboxVars, Connections
  <2> QED
    BY <1>1, <1>3, <2>1, <2>3, MailboxKeeps DEF mailboxVars
<1>9. CASE Disconnect
  <2>1. NoConnection \in Connections
    BY SyncAssumption DEF NoConnection, Connections, HistoryIds
  <2>2. SyncTypeOK'
    BY <1>1, <1>9, <2>1 DEF Disconnect, SyncTypeOK, mailboxVars, Connections
  <2> QED
    BY <1>1, <1>3, <1>9, <2>2, MailboxKeeps DEF Disconnect, mailboxVars
<1>10. ASSUME NEW p \in pushes, Connected, SendJob([conn |-> connection.id, push |-> p, tries |-> 0]),
              pushes' \subseteq pushes, faults' \in 0..MaxFaults,
              UNCHANGED <<mailboxVars, connection, created, sync, abandoned, inboundVars>>
       PROVE  MailInv'
  <2> DEFINE j == [conn |-> connection.id, push |-> p, tries |-> 0]
  <2>1. j \in SyncJobs /\ JobIsReal(j)
    BY <1>2, <1>3, <1>10, SyncAssumption DEF Connected, SyncJobs, JobIsReal
  <2>2. /\ jobs' \in [SyncJobs -> Nat]
        /\ \A i \in SyncJobs : jobs'[i] > 0 => jobs[i] > 0 \/ JobIsReal(i)
    BY <1>10, <2>1, JobsGrow
  <2>3. SyncTypeOK'
    BY <1>1, <1>10, <2>2 DEF SyncTypeOK, mailboxVars
  <2>4. \A q \in pushes' : q <= mailbox'
    BY <1>3, <1>10 DEF mailboxVars
  <2>5. \A i \in SyncJobs : jobs'[i] > 0 => jobs[i] > 0 \/ (i.conn <= created' /\ i.push <= mailbox')
    BY <1>10, <2>2 DEF JobIsReal, mailboxVars
  <2> QED
    BY <1>3, <1>10, <2>3, <2>4, <2>5, MailboxKeeps DEF mailboxVars
<1>11. ASSUME NEW p \in pushes, PushDelivered(p) \/ PushDuplicated(p) PROVE MailInv'
  BY <1>1, <1>4, <1>10, <1>11 DEF PushDelivered, PushDuplicated
<1>12. ASSUME NEW p \in pushes, PushUnmatched(p) PROVE MailInv'
  <2>1. SyncTypeOK'
    BY <1>1, <1>12 DEF PushUnmatched, SyncTypeOK, mailboxVars
  <2> QED
    BY <1>1, <1>3, <1>12, <2>1, MailboxKeeps DEF PushUnmatched, mailboxVars
<1>13. ASSUME NEW w \in Syncers, SyncFails(w) PROVE MailInv'
  BY <1>1, <1>2, <1>4, <1>13, TaskEnds DEF SyncFails
<1>14. ASSUME NEW w \in Syncers, SyncerDies(w) PROVE MailInv'
  <2>1. /\ sync[w].pc # "idle" /\ faults' \in 0..MaxFaults
        /\ UNCHANGED <<mailboxVars, pushes, connection, created, abandoned, rows, stored, provider>>
        /\ sync' = [sync EXCEPT ![w] = IdleSync]
    BY <1>4, <1>14 DEF SyncerDies, Syncing
  <2>2. sync[w].job \in SyncJobs /\ JobIsReal(sync[w].job)
    BY <2>1, TaskStarts
  <2>3. /\ jobs' \in [SyncJobs -> Nat]
        /\ \A i \in SyncJobs : jobs'[i] > 0 => jobs[i] > 0 \/ JobIsReal(i)
    BY <1>14, <2>2, JobsGrow DEF SyncerDies
  <2>4. IdleSync \in Tasks /\ TaskHolds(IdleSync) /\ IdleSync.pc = "idle"
    BY SyncAssumption DEF IdleSync, Tasks, SyncPc, TaskHolds, HistoryIds
  <2>5. ingest' = [ingest EXCEPT ![w] = IdleIngest] /\ IdleIngest.pc = "idle"
    BY <1>14 DEF SyncerDies, EndIngest, IdleIngest
  <2>6. \A m : Handled(m) => Handled(m)'
    BY <2>1, HandledStays
  <2>7. /\ CursorPassesHandledMail' /\ WebhookTypeOK' /\ AcceptedMailIsHandled'
        /\ connection'.baseline >= connection.baseline
    BY <1>2, <2>1, <2>6
    DEF CursorPassesHandledMail, CursorPassed, WebhookTypeOK, AcceptedMailIsHandled, MailInv, InboundInv,
        SyncInv, Connections
  <2>8. w \in Sessions /\ ingest \in [Sessions -> [pc : IngestPc, mail : Mails \cup {NoMail}, part : Nat]]
    BY SyncAssumption DEF MailInv, InboundInv, InboundTypeOK
  <2>9. ingest'[w].pc = "idle" /\ \A v \in Syncers \ {w} : ingest'[v] = ingest[v]
    BY <2>5, <2>8, SyncAssumption
  <2>10. SyncInv'
    BY <1>2, <2>1, <2>3, <2>4, <2>7, <2>9, TaskMoves DEF MailInv
  <2>11. InboundInv'
    BY <2>1, <2>5, <2>7, <2>8, SessionResets DEF MailInv
  <2> QED
    BY <2>10, <2>11 DEF MailInv
<1> QED
  BY <1>5, <1>6, <1>7, <1>8, <1>9, <1>11, <1>12, <1>13, <1>14 DEF MailboxStep, PushStep, SyncFault

\* The deletion of a receipt frees its message id and leaves it handled.
LEMMA DeletionKeeps ==
  ASSUME MailInv, NEW x \in Attachments, UserDeletesReceipt(x), UNCHANGED <<syncVars, provider>>
  PROVE  MailInv'
PROOF
<1>1. /\ RowsHold' /\ UNCHANGED <<stored, ingest>> /\ faults' \in 0..MaxFaults
  <2>1. RowsHold /\ faults \in 0..MaxFaults
    BY DEF MailInv, InboundInv, InboundTypeOK
  <2>2. rows[x] = 1
    BY <2>1 DEF UserDeletesReceipt, RowsHold
  <2>3. rows' = [rows EXCEPT ![x] = rows[x] - 1] /\ UNCHANGED <<stored, ingest>>
    BY DEF UserDeletesReceipt
  <2>4. RowsHold'
    BY <2>1, <2>2, <2>3 DEF RowsHold
  <2> QED
    BY <2>1, <2>3, <2>4, MaxFaultsAssumption DEF UserDeletesReceipt, Fault
<1>2. \A m : Handled(m) => Handled(m)'
  BY <1>1, HandledStays
<1>3. SyncInv' /\ WebhookTypeOK' /\ HandlersHold' /\ AcceptedMailIsHandled'
  BY <1>1, SessionFrame
<1>4. InboundTypeOK' /\ RowsHold'
  BY <1>1 DEF MailInv, InboundInv, InboundTypeOK, RowsHold
<1>5. IngestsHold'
  BY <1>1, <1>2 DEF MailInv, InboundInv, IngestsHold, IngestHolds, ReceiptParts
<1> QED
  BY <1>3, <1>4, <1>5 DEF MailInv, InboundInv

\* Every step keeps the invariant.
LEMMA MailStep == MailInv /\ [Next]_mailVars => MailInv'
PROOF
<1> SUFFICES ASSUME MailInv, [Next]_mailVars PROVE MailInv'
  OBVIOUS
<1>1. CASE UNCHANGED mailVars
  <2>1. /\ UNCHANGED <<syncVars, provider, inboundVars>> /\ stored \subseteq stored'
        /\ faults' \in 0..MaxFaults
        /\ \A s \in Sessions : /\ ingest'[s].mail = ingest[s].mail
                               /\ ingest'[s].pc = "idle" <=> ingest[s].pc = "idle"
    BY <1>1 DEF mailVars, syncVars, inboundVars, MailInv, InboundInv, InboundTypeOK
  <2>2. SyncInv'
    BY <2>1, SessionFrame
  <2> QED
    BY <2>1, <2>2, InboundFrame DEF MailInv
<1>2. CASE Next
  BY <1>2, IngestKeeps, DeletionKeeps, WebhookKeeps, ChannelKeeps, SyncStepKeeps DEF Next
<1> QED
  BY <1>1, <1>2

\* Init.
LEMMA MailInit == Init => MailInv
PROOF
<1> SUFFICES ASSUME Init PROVE MailInv
  OBVIOUS
<1> USE DEF Init, InboundInit, WebhookInit, SyncInit
<1>1. InboundInv
  <2>1. \A s \in Sessions : ingest[s].pc = "idle"
    BY DEF IdleIngest
  <2>2. InboundTypeOK
    BY MaxFaultsAssumption DEF InboundTypeOK, IdleIngest, IngestPc
  <2>3. IngestsHold /\ HandlersHold
    BY <2>1, WebhookAssumption DEF IngestsHold, IngestHolds, HandlersHold
  <2>4. RowsHold /\ WebhookTypeOK /\ AcceptedMailIsHandled
    BY DEF RowsHold, WebhookTypeOK, AcceptedMailIsHandled
  <2> QED
    BY <2>2, <2>3, <2>4 DEF InboundInv
<1>2. SyncTypeOK
  BY SyncAssumption DEF SyncTypeOK, HistoryIds, NoConnection, IdleSync, SyncPc
<1>3. QueueHolds /\ CursorPassesHandledMail
  BY DEF QueueHolds, NoConnection, CursorPassesHandledMail, CursorPassed
<1>4. TasksHold
  BY SyncAssumption DEF TasksHold, TaskHolds, SessionFollowsTask, IdleSync, IdleIngest
<1> QED
  BY <1>1, <1>2, <1>3, <1>4 DEF MailInv, SyncInv

-----------------------------------------------------------------------------
\* MailInv holds in every reachable state.
THEOREM Safety == Spec => []MailInv
PROOF
  BY MailInit, MailStep, PTL DEF Spec

\* Types.
THEOREM TypeCorrect == Spec => []TypeOK
PROOF
<1>1. MailInv => TypeOK
  BY DEF MailInv, InboundInv, SyncInv, TypeOK
<1> QED
  BY <1>1, Safety, PTL

\* Concurrent and repeated deliveries of a mail store no attachment twice
\* (process_inbound_email, the partial unique index).
THEOREM AttachmentsAreStoredOnce == Spec => []OneReceiptPerAttachment
PROOF
<1>1. MailInv => OneReceiptPerAttachment
  BY DEF MailInv, InboundInv, RowsHold, OneReceiptPerAttachment
<1> QED
  BY <1>1, Safety, PTL

\* The provider may forget a mail that was answered 202 (receive_inbound_email).
THEOREM AcceptedIsHandled == Spec => []AcceptedMailIsHandled
PROOF
<1>1. MailInv => AcceptedMailIsHandled
  BY DEF MailInv, InboundInv
<1> QED
  BY <1>1, Safety, PTL

\* The cursor never runs ahead of the work, whatever fails, is delivered twice or
\* overtakes (_sync_async).
THEOREM CursorIsBehindTheWork == Spec => []CursorPassesHandledMail
PROOF
<1>1. MailInv => CursorPassesHandledMail
  BY DEF MailInv, SyncInv
<1> QED
  BY <1>1, Safety, PTL

\* Only a connection's own jobs move its cursor (the UPDATE by id).
THEOREM CursorFollowsItsJobs == Spec => CursorMovedByItsOwnJob
PROOF
<1> DEFINE Moves ==
      connection'.id = connection.id /\ connection'.cursor # connection.cursor
        => \E w \in Syncers : sync[w].job.conn = connection.id /\ connection'.cursor = sync[w].job.push
<1>1. ASSUME MailInv, Next, connection' # connection PROVE Moves
  <2>1. connection \in Connections
    BY <1>1 DEF MailInv, SyncInv, SyncTypeOK, Connections
  <2>2. ASSUME NEW w \in Syncers, SeedCursor(w) \/ AdvanceCursor(w) PROVE Moves
    BY <1>1, <2>1, <2>2 DEF SeedCursor, AdvanceCursor, StillThere, Connections
  <2>3. CASE Connect
    <3>1. connection.id = 0 /\ connection'.id = created + 1 /\ created \in Nat
      BY <1>1, <2>3, SyncAssumption DEF Connect, Connected, MailInv, SyncInv, SyncTypeOK
    <3> QED
      BY <3>1
  <2>4. CASE Disconnect
    BY <2>4 DEF Disconnect, Connected, NoConnection
  <2>5. \/ \E w \in Syncers : SeedCursor(w) \/ AdvanceCursor(w)
        \/ Connect \/ Disconnect
    <3>1. CASE \E w \in Syncers : SyncStep(w)
      BY <1>1, <3>1
      DEF SyncStep, LoadConnection, CursorWriteFails, ListHistory, FetchMail, FetchFails, MailIngested,
          SyncRetry, SyncGivesUp, SyncAck
    <3>2. CASE MailboxStep
      BY <1>1, <3>2 DEF MailboxStep, MailArrives, HistoryExpires, MailBinned
    <3>3. CASE PushStep \/ SyncFault
      BY <1>1, <3>3
      DEF PushStep, PushDelivered, PushUnmatched, SyncFault, PushDuplicated, SyncFails, SyncerDies
    <3> QED
      BY <1>1, <3>1, <3>2, <3>3 DEF Next, syncVars
  <2> QED
    BY <2>2, <2>3, <2>4, <2>5
<1>2. MailInv /\ [Next]_mailVars => [Moves]_mailVars
  BY <1>1 DEF mailVars
<1> QED
  BY <1>2, Safety, PTL DEF Spec, CursorMovedByItsOwnJob

-----------------------------------------------------------------------------
(* Mails with an attachment above the limit. *)

\* A walk that goes on has met no attachment above the limit; and a mail that is
\* done, stored or accepted has none before its first receipt.
WalksAreClear ==
  \A s \in Sessions :
    /\ ingest[s].pc = "parts" =>
         \A k \in 1..Len(Parts[ingest[s].mail]) :
           k < ingest[s].part => Parts[ingest[s].mail][k] # "huge"
    /\ ingest[s].pc = "done" => ~Oversized(ingest[s].mail)
StoredAreClear == \A x \in stored : ~Oversized(x[1])
AcceptedAreClear == \A m \in Forwarded : provider[m] = "accepted" => ~Oversized(m)
NoneOversized == WalksAreClear /\ StoredAreClear /\ AcceptedAreClear

\* A walk that has come to a receipt, or to the end, was over a mail that can be stored.
LEMMA WalkedIsClear ==
  ASSUME MailInv, WalksAreClear, NEW s \in Sessions, ingest[s].pc = "parts",
         Reached(s, "receipt") \/ NoMoreAttachments(s)
  PROVE  ~Oversized(ingest[s].mail)
PROOF
<1> DEFINE m == ingest[s].mail
           k == ingest[s].part
<1>1. m \in Mails /\ k \in Nat \ {0} /\ Len(Parts[m]) \in Nat
  BY PartsAssumption DEF MailInv, InboundInv, IngestsHold, IngestHolds
<1>2. \A i \in 1..Len(Parts[m]) : i < k => Parts[m][i] # "huge"
  BY DEF WalksAreClear
<1>3. (k <= Len(Parts[m]) /\ Parts[m][k] = "receipt") \/ k > Len(Parts[m])
  BY DEF Reached, NoMoreAttachments
<1>4. ASSUME NEW i \in 1..Len(Parts[m]), Parts[m][i] = "huge",
             \A j \in 1..(i - 1) : Parts[m][j] = "other"
      PROVE  FALSE
  <2>1. ~(i < k) /\ i # k
    BY <1>2, <1>3, <1>4
  <2>2. k \in 1..(i - 1)
    BY <1>1, <2>1
  <2> QED
    BY <1>1, <1>3, <1>4, <2>1, <2>2
<1> QED
  BY <1>4 DEF Oversized

\* Every step of process_inbound_email keeps walks and rows clear.
LEMMA ClearIsKept ==
  ASSUME MailInv, NoneOversized, NEW s \in Sessions, IngestStep(s) \/ IngestFault(s)
  PROVE  WalksAreClear' /\ StoredAreClear'
PROOF
<1> DEFINE m == ingest[s].mail
           k == ingest[s].part
<1>1. /\ ingest \in [Sessions -> [pc : IngestPc, mail : Mails \cup {NoMail}, part : Nat]]
      /\ IngestHolds(s) /\ RowsHold
  BY DEF MailInv, InboundInv, InboundTypeOK, IngestsHold
<1>2. ASSUME StoredAreClear', \A t \in Sessions \ {s} : ingest'[t] = ingest[t], ingest'[s].mail = m,
             ingest'[s].pc = "done" => ~Oversized(m),
             ingest'[s].pc = "parts" =>
               \A i \in 1..Len(Parts[m]) : i < ingest'[s].part => Parts[m][i] # "huge"
      PROVE  WalksAreClear' /\ StoredAreClear'
  BY <1>2 DEF NoneOversized, WalksAreClear, Oversized
<1>3. ASSUME UNCHANGED stored PROVE StoredAreClear'
  BY <1>3 DEF NoneOversized, StoredAreClear, Oversized
<1>4. ASSUME InsertRow(Current(s)), Reached(s, "receipt") PROVE StoredAreClear'
  <2>1. ~Oversized(m)
    BY <1>4, WalkedIsClear DEF NoneOversized, Reached, Ingesting
  <2> QED
    BY <1>4, <2>1 DEF InsertRow, Current, NoneOversized, StoredAreClear, Oversized
<1>5. CASE FindDuplicate(s)
  <2>1. HasRow(m) => ~Oversized(m)
    BY <1>1 DEF HasRow, RowsHold, NoneOversized, StoredAreClear
  <2>2. k = 1
    BY <1>1, <1>5 DEF FindDuplicate, Ingesting, IngestHolds
  <2> QED
    BY <1>1, <1>2, <1>3, <1>5, <2>1, <2>2 DEF FindDuplicate, IngestGoto
<1>6. ASSUME NextPart(s), ingest[s].pc = "parts", Parts[m][k] # "huge", StoredAreClear'
      PROVE  WalksAreClear' /\ StoredAreClear'
  <2>1. \A i \in 1..Len(Parts[m]) : i < k => Parts[m][i] # "huge"
    BY <1>6 DEF NoneOversized, WalksAreClear
  <2>2. \A i \in 1..Len(Parts[m]) : i < k + 1 => Parts[m][i] # "huge"
    BY <1>1, <1>6, <2>1
  <2> QED
    BY <1>1, <1>2, <1>6, <2>2 DEF NextPart
<1>7. CASE SkipAttachment(s)
  BY <1>3, <1>6, <1>7 DEF SkipAttachment, Reached, Ingesting
<1>8. CASE CreateReceipt(s)
  BY <1>4, <1>6, <1>8 DEF CreateReceipt, Reached, Ingesting
<1>9. ASSUME IngestGoto(s, "failed"), StoredAreClear' PROVE WalksAreClear' /\ StoredAreClear'
  BY <1>1, <1>2, <1>9 DEF IngestGoto
<1>10. CASE CreateCollides(s) \/ AttachmentTooLarge(s) \/ CreateFails(s)
  BY <1>3, <1>9, <1>10 DEF CreateCollides, AttachmentTooLarge, CreateFails
<1>11. CASE DispatchFails(s)
  BY <1>4, <1>9, <1>11 DEF DispatchFails
<1>12. CASE NoMoreAttachments(s)
  <2>1. ~Oversized(m)
    BY <1>12, WalkedIsClear DEF NoneOversized, NoMoreAttachments, Ingesting
  <2> QED
    BY <1>1, <1>2, <1>3, <1>12, <2>1 DEF NoMoreAttachments, IngestGoto
<1> QED
  BY <1>5, <1>7, <1>8, <1>10, <1>11, <1>12 DEF IngestStep, IngestFault

\* Every step does.
LEMMA ClearStep == MailInv /\ NoneOversized /\ [Next]_mailVars => NoneOversized'
PROOF
<1> SUFFICES ASSUME MailInv, NoneOversized, [Next]_mailVars PROVE NoneOversized'
  OBVIOUS
<1>1. ingest \in [Sessions -> [pc : IngestPc, mail : Mails \cup {NoMail}, part : Nat]]
  BY DEF MailInv, InboundInv, InboundTypeOK
<1>2. UNCHANGED provider => AcceptedAreClear'
  BY DEF NoneOversized, AcceptedAreClear, Oversized
<1>3. UNCHANGED stored => StoredAreClear'
  BY DEF NoneOversized, StoredAreClear, Oversized
<1>4. UNCHANGED ingest => WalksAreClear'
  BY DEF NoneOversized, WalksAreClear, Oversized
<1>5. ASSUME NEW s \in Sessions, EndIngest(s) \/ \E m \in Mails : BeginIngest(s, m)
      PROVE  WalksAreClear'
  BY <1>1, <1>5 DEF EndIngest, BeginIngest, IdleIngest, NoneOversized, WalksAreClear, Oversized
<1>6. CASE UNCHANGED mailVars
  BY <1>2, <1>3, <1>4, <1>6 DEF mailVars, NoneOversized
<1>7. CASE \E s \in Sessions : (IngestStep(s) \/ IngestFault(s)) /\ UNCHANGED <<syncVars, provider>>
  BY <1>2, <1>7, ClearIsKept DEF NoneOversized
<1>8. CASE \E x \in Attachments : UserDeletesReceipt(x) /\ UNCHANGED <<syncVars, provider>>
  BY <1>2, <1>3, <1>4, <1>8 DEF UserDeletesReceipt, NoneOversized
<1>9. ASSUME NEW h \in Handlers, WebhookStep(h) \/ HandlerFails(h) PROVE NoneOversized'
  <2>1. h \in Sessions /\ Forwarded \subseteq Mails
    BY WebhookAssumption
  <2>2. WalksAreClear' /\ StoredAreClear'
    BY <1>3, <1>5, <1>9, <2>1 DEF WebhookStep, HandlerFails, PostMail, Respond
  <2>3. AcceptedAreClear'
    <3>1. CASE Respond(h)
      <4>1. Ingesting(h, "done") => ~Oversized(ingest[h].mail)
        BY <2>1 DEF Ingesting, NoneOversized, WalksAreClear
      <4>2. \A m \in Forwarded : provider'[m] = "accepted" =>
              provider[m] = "accepted" \/ (Ingesting(h, "done") /\ m = ingest[h].mail)
        BY <3>1 DEF Respond, MailInv, InboundInv, WebhookTypeOK
      <4> QED
        BY <4>1, <4>2 DEF NoneOversized, AcceptedAreClear, Oversized
    <3>2. CASE HandlerFails(h) \/ \E m \in Forwarded : PostMail(h, m)
      BY <1>2, <3>2 DEF HandlerFails, PostMail
    <3> QED
      BY <1>9, <3>1, <3>2 DEF WebhookStep
  <2> QED
    BY <2>2, <2>3 DEF NoneOversized
<1>10. ASSUME NEW w \in Syncers, SyncStep(w), UNCHANGED provider PROVE NoneOversized'
  <2>1. w \in Sessions
    BY SyncAssumption
  <2>2. FetchMail(w) => sync[w].at \in Mails
    <3>1. MailInv /\ FetchMail(w) => sync[w].at \in 1..MaxMailbox
      <4>1. sync[w] \in [pc: SyncPc, job: SyncJobs \cup {NoJob},
                          seen: HistoryIds \cup {NoCursor}, at: Nat, upto: HistoryIds]
        BY DEF MailInv, SyncInv, SyncTypeOK
      <4>2. TaskHolds(sync[w])
        BY DEF MailInv, SyncInv, TasksHold
      <4> QED
        BY <4>1, <4>2, SyncAssumption DEF FetchMail, Syncing, TaskHolds, HistoryIds
    <3> QED
      BY <3>1, SyncAssumption
  <2>3. UNCHANGED stored
    BY <1>10 DEF SyncStep, LoadConnection, CursorWriteFails, SeedCursor, ListHistory, FetchMail,
        FetchFails, MailIngested, AdvanceCursor, SyncRetry, SyncGivesUp, SyncAck, inboundVars
  <2>4. UNCHANGED ingest \/ EndIngest(w) \/ \E m \in Mails : BeginIngest(w, m)
    BY <1>10, <2>2 DEF SyncStep, LoadConnection, CursorWriteFails, SeedCursor, ListHistory, FetchMail,
        FetchFails, MailIngested, AdvanceCursor, SyncRetry, SyncGivesUp, SyncAck, inboundVars
  <2> QED
    BY <1>2, <1>3, <1>4, <1>5, <1>10, <2>1, <2>3, <2>4 DEF NoneOversized
<1>11. ASSUME MailboxStep \/ PushStep \/ SyncFault, UNCHANGED provider PROVE NoneOversized'
  <2>1. UNCHANGED stored /\ (UNCHANGED ingest \/ \E w \in Syncers : EndIngest(w))
    BY <1>11 DEF MailboxStep, MailArrives, HistoryExpires, Connect, Disconnect, MailBinned, PushStep,
        PushDelivered, PushUnmatched, SyncFault, PushDuplicated, SyncFails, SyncerDies, inboundVars
  <2> QED
    BY <1>2, <1>3, <1>4, <1>5, <1>11, <2>1, SyncAssumption DEF NoneOversized
<1> QED
  BY <1>6, <1>7, <1>8, <1>9, <1>10, <1>11 DEF Next

\* The half of ForwardedMailIsAccepted that needs no fairness: the provider never gets a
\* 202 for a mail whose walk raises PayloadTooLargeError (process_inbound_email).
THEOREM OversizedMailIsRefused ==
  Spec => [](\A m \in Forwarded : Oversized(m) => provider[m] = "pending")
PROOF
<1>1. Init => NoneOversized
  BY DEF Init, InboundInit, WebhookInit, IdleIngest, NoneOversized, WalksAreClear, StoredAreClear,
         AcceptedAreClear
<1>2. MailInv /\ NoneOversized => \A m \in Forwarded : Oversized(m) => provider[m] = "pending"
  BY DEF MailInv, InboundInv, WebhookTypeOK, NoneOversized, AcceptedAreClear
<1> QED
  BY <1>1, <1>2, Safety, ClearStep, PTL DEF Spec

-----------------------------------------------------------------------------
(* Mails with one receipt. *)

\* Only an attachment that is a receipt yields one.
StoredAreReceipts ==
  \A x \in stored : x[2] \in ReceiptParts(x[1]) /\ x = <<x[1], x[2]>>

\* Receipts are committed by sessions, each at an attachment it has sniffed.
LEMMA ReceiptsAreOfReceipts == MailInv /\ StoredAreReceipts /\ [Next]_mailVars => StoredAreReceipts'
PROOF
<1> SUFFICES ASSUME MailInv, StoredAreReceipts, [Next]_mailVars PROVE StoredAreReceipts'
  OBVIOUS
<1>1. CASE stored' = stored
  BY <1>1 DEF StoredAreReceipts, ReceiptParts
<1>2. ASSUME NEW s \in Sessions, Reached(s, "receipt"), stored' = stored \cup {Current(s)}
      PROVE  StoredAreReceipts'
  BY <1>2, AttachmentNamesMail DEF MailInv, StoredAreReceipts, ReceiptParts, Current
<1>3. \/ stored' = stored
      \/ \E s \in Sessions : Reached(s, "receipt") /\ stored' = stored \cup {Current(s)}
  <2>1. ASSUME NEW s \in Sessions, IngestStep(s) \/ IngestFault(s)
        PROVE  stored' = stored \/ (Reached(s, "receipt") /\ stored' = stored \cup {Current(s)})
    BY <2>1 DEF IngestStep, IngestFault, FindDuplicate, SkipAttachment, CreateReceipt, InsertRow,
         CreateCollides, AttachmentTooLarge, NoMoreAttachments, CreateFails, DispatchFails
  <2>2. CASE \E x \in Attachments : UserDeletesReceipt(x)
    BY <2>2 DEF UserDeletesReceipt
  <2>3. CASE \E h \in Handlers : WebhookStep(h) \/ HandlerFails(h)
    BY <2>3 DEF WebhookStep, HandlerFails, PostMail, Respond
  <2>4. CASE \E w \in Syncers : SyncStep(w)
    BY <2>4
    DEF SyncStep, LoadConnection, CursorWriteFails, SeedCursor, ListHistory, FetchMail, FetchFails,
        MailIngested, AdvanceCursor, SyncRetry, SyncGivesUp, SyncAck, inboundVars
  <2>5. CASE MailboxStep \/ PushStep \/ SyncFault
    BY <2>5
    DEF MailboxStep, MailArrives, HistoryExpires, Connect, Disconnect, MailBinned, PushStep,
        PushDelivered, PushUnmatched, SyncFault, PushDuplicated, SyncFails, SyncerDies, inboundVars
  <2> QED
    BY <2>1, <2>2, <2>3, <2>4, <2>5 DEF Next, mailVars
<1> QED
  BY <1>1, <1>2, <1>3

\* When no mail has two receipts, every attachment that is one has its row by
\* the time its mail is answered 202 or passed by the cursor: the promise that
\* several attachments break (process_inbound_email).
THEOREM SingleReceiptsAreAll ==
  ASSUME \A m \in Mails : \A j, k \in ReceiptParts(m) : j = k
  PROVE  Spec => []AttachmentsAreIndependent
PROOF
<1>1. MailInv /\ StoredAreReceipts => AttachmentsAreIndependent
  <2> SUFFICES ASSUME MailInv, StoredAreReceipts PROVE AttachmentsAreIndependent
    OBVIOUS
  <2>1. ASSUME NEW m \in Mails, Handled(m) PROVE FullyHandled(m)
    BY <2>1 DEF Handled, FullyHandled, StoredAreReceipts
  <2> QED
    BY <2>1, WebhookAssumption, SyncAssumption
    DEF MailInv, InboundInv, SyncInv, AcceptedMailIsHandled, CursorPassesHandledMail,
        AttachmentsAreIndependent
<1>2. Init => StoredAreReceipts
  BY DEF Init, InboundInit, StoredAreReceipts
<1> QED
  BY <1>1, <1>2, Safety, ReceiptsAreOfReceipts, PTL DEF Spec
=============================================================================
