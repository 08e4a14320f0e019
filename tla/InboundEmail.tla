---------------------------- MODULE InboundEmail ----------------------------
(***************************************************************************)
(* process_inbound_email: the one path from a mail to receipts, shared by  *)
(* the webhook of the mail provider (InboundWebhook) and by the Gmail      *)
(* history task (GmailSync), which EXTEND this module.                     *)
(*                                                                         *)
(* A session walks the attachments of one mail.  Each create_receipt is    *)
(* one step: its blob is written before and removed after a failure (see   *)
(* ReceiptPipeline), so what other sessions see of it is the row.          *)
(* One user: the rows of two users never meet (the dedup is per user).     *)
(***************************************************************************)
EXTENDS Naturals, Sequences

CONSTANTS
  Mails,     \* message ids
  NoMail,    \* the mail of an idle session
  Parts,     \* the attachments of each mail, a sequence of PartKinds
  Sessions,  \* database sessions that may run process_inbound_email
  MaxFaults  \* bound: faults in a behaviour, and things removed by the user or Gmail

PartKinds ==
  { "receipt", \* an attachment that create_receipt accepts
    "other",   \* content type not allowed, bad base64, or the sniff disagrees
    "huge" }   \* more than MAX_UPLOAD_BYTES: PayloadTooLargeError is not caught

ASSUME NoMailAssumption == NoMail \notin Mails
ASSUME PartsAssumption == Parts \in [Mails -> Seq(PartKinds)]
ASSUME MaxFaultsAssumption == MaxFaults \in Nat

VARIABLES
  rows,   \* how many receipts rows each attachment has (with its mail's external_message_id)
  stored, \* the attachments of which a row was ever committed
  ingest, \* what each session runs of process_inbound_email
  faults  \* faults and removals so far (bounds the model)

inboundVars == <<rows, stored, ingest>>

Attachments == UNION {{<<m, k>> : k \in 1..Len(Parts[m])} : m \in Mails}
IngestPc == {"idle", "dedup", "parts", "done", "failed"}
IdleIngest == [pc |-> "idle", mail |-> NoMail, part |-> 0]

Fault == faults < MaxFaults /\ faults' = faults + 1

InboundInit ==
  /\ rows = [x \in Attachments |-> 0] /\ stored = {}
  /\ ingest = [s \in Sessions |-> IdleIngest]
  /\ faults = 0

-----------------------------------------------------------------------------
HasRow(m) == \E x \in Attachments : x[1] = m /\ rows[x] > 0
Ingesting(s, pc) == ingest[s].pc = pc
IngestGoto(s, pc) == ingest' = [ingest EXCEPT ![s].pc = pc]
NextPart(s) == ingest' = [ingest EXCEPT ![s].part = @ + 1]

\* The attachment that session s has come to, and its kind.
Current(s) == <<ingest[s].mail, ingest[s].part>>
Reached(s, kind) ==
  /\ Ingesting(s, "parts")
  /\ ingest[s].part <= Len(Parts[ingest[s].mail])
  /\ Parts[ingest[s].mail][ingest[s].part] = kind

\* The callers' part: hand a mail to a session, take the session back.
BeginIngest(s, m) == ingest' = [ingest EXCEPT ![s] = [pc |-> "dedup", mail |-> m, part |-> 1]]
EndIngest(s) == ingest' = [ingest EXCEPT ![s] = IdleIngest]

\* Mutant: no look-up before the attachments are created.
FindDuplicateNever(s) ==
  /\ Ingesting(s, "dedup")
  /\ IngestGoto(s, "parts")
  /\ UNCHANGED <<rows, stored, faults>>

\* Any receipt of this mail short-circuits the rest.
FindDuplicate(s) ==
  /\ Ingesting(s, "dedup")
  /\ IngestGoto(s, IF HasRow(ingest[s].mail) THEN "done" ELSE "parts")
  /\ UNCHANGED <<rows, stored, faults>>

SkipAttachment(s) ==
  /\ Reached(s, "other")
  /\ NextPart(s)
  /\ UNCHANGED <<rows, stored, faults>>

\* Mutant: no partial unique index on (user_id, external_message_id).
MessageIdUnchecked(m) == TRUE

\* The partial unique index admits a row for m.
MessageIdFree(m) == ~HasRow(m)

InsertRow(x) ==
  /\ MessageIdFree(x[1])
  /\ rows' = [rows EXCEPT ![x] = @ + 1]
  /\ stored' = stored \cup {x}

CreateReceipt(s) ==
  /\ Reached(s, "receipt")
  /\ InsertRow(Current(s))
  /\ NextPart(s)
  /\ UNCHANGED faults

\* IntegrityError: not caught by process_inbound_email.
CreateCollides(s) ==
  /\ Reached(s, "receipt") /\ ~MessageIdFree(ingest[s].mail)
  /\ IngestGoto(s, "failed")
  /\ UNCHANGED <<rows, stored, faults>>

AttachmentTooLarge(s) ==
  /\ Reached(s, "huge")
  /\ IngestGoto(s, "failed")
  /\ UNCHANGED <<rows, stored, faults>>

\* Mutant: every exception of create_receipt skips the attachment.
CreateFailsSkipped(s) ==
  /\ Reached(s, "receipt") /\ Fault
  /\ NextPart(s)
  /\ UNCHANGED <<rows, stored>>

\* The object store or the database fails before the commit.
CreateFails(s) ==
  /\ Reached(s, "receipt") /\ Fault
  /\ IngestGoto(s, "failed")
  /\ UNCHANGED <<rows, stored>>

\* The broker refuses process_receipt.delay: the row is committed already.
DispatchFails(s) ==
  /\ Reached(s, "receipt") /\ Fault
  /\ InsertRow(Current(s))
  /\ IngestGoto(s, "failed")

NoMoreAttachments(s) ==
  /\ Ingesting(s, "parts") /\ ingest[s].part > Len(Parts[ingest[s].mail])
  /\ IngestGoto(s, "done")
  /\ UNCHANGED <<rows, stored, faults>>

\* DELETE /receipts/{id} of a receipt that came by mail.
UserDeletesReceipt(x) ==
  /\ rows[x] > 0 /\ Fault
  /\ rows' = [rows EXCEPT ![x] = @ - 1]
  /\ UNCHANGED <<stored, ingest>>

IngestStep(s) ==
  \/ FindDuplicate(s) \/ SkipAttachment(s) \/ CreateReceipt(s) \/ CreateCollides(s)
  \/ AttachmentTooLarge(s) \/ NoMoreAttachments(s)

IngestFault(s) == CreateFails(s) \/ DispatchFails(s)

-----------------------------------------------------------------------------
ReceiptParts(m) == {k \in 1..Len(Parts[m]) : Parts[m][k] = "receipt"}

\* The mail has yielded a receipt, or has none to yield.
Handled(m) == ReceiptParts(m) = {} \/ \E x \in stored : x[1] = m

\* Every attachment that is a receipt has yielded one.
FullyHandled(m) == \A k \in ReceiptParts(m) : <<m, k>> \in stored

\* The walk meets an attachment above the limit before one that it can store.
Oversized(m) ==
  \E k \in 1..Len(Parts[m]) :
    Parts[m][k] = "huge" /\ \A i \in 1..(k - 1) : Parts[m][i] = "other"

InboundTypeOK ==
  /\ rows \in [Attachments -> Nat] /\ stored \subseteq Attachments
  /\ ingest \in [Sessions -> [pc: IngestPc, mail: Mails \cup {NoMail}, part: Nat]]
  /\ faults \in 0..MaxFaults
=============================================================================
