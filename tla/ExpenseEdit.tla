----------------------------- MODULE ExpenseEdit -----------------------------
(***************************************************************************)
(* The expenses API and what it teaches the categoriser.  Clients read an  *)
(* expense with its ETag, patch and delete it, with or without If-Match;   *)
(* a patch that changes the category records a correction for the          *)
(* merchant; categorise_receipt books new expenses under the correction.   *)
(*                                                                         *)
(* A request SELECTs the row, compares the ETag in Python, writes the      *)
(* columns that differ from what it read with UPDATE ... WHERE id = ...,   *)
(* commits, and SELECTs again for its answer.  The writes of one           *)
(* transaction hold their row locks until it commits, so they are one      *)
(* step.  Merchants stand for normalised names.  One user: every query     *)
(* names the owner.  Two writes never read the same clock_timestamp().     *)
(***************************************************************************)
EXTENDS Naturals

CONSTANTS
  Expenses,   \* expense ids
  Merchants,  \* normalised merchant names
  Categories, \* ExpenseCategory
  Unset,      \* a field that a patch does not name; a merchant without a rule
  NoRow,      \* the row of an id that was not drawn yet
  Deleted,    \* the row of an id that was deleted
  Rule,       \* the category that lookup_rule gives each merchant, or Unset
  Stored,     \* the rows that the expenses table holds already, stamped 0
  Corrected,  \* the category that the user corrected each merchant to before, or Unset
  Patches,    \* the bodies that PATCH requests carry
  Clients,    \* API clients, one request at a time
  Bookers,    \* Celery workers in categorise_receipt
  MaxStamp    \* bound: writes of expense rows in a behaviour

Rows == [merchant: Merchants, category: Categories, stamp: Nat]

ASSUME ExpenseAssumption ==
  /\ Patches \subseteq [merchant: Merchants \cup {Unset}, category: Categories \cup {Unset}]
  /\ Unset \notin Merchants \cup Categories
  /\ NoRow \notin Rows /\ Deleted \notin Rows /\ NoRow # Deleted
  /\ Rule \in [Merchants -> Categories \cup {Unset}]
  /\ Stored \in [Expenses -> {r \in Rows : r.stamp = 0} \cup {NoRow}]
  /\ Corrected \in [Merchants -> Categories \cup {Unset}]
  /\ MaxStamp \in Nat

VARIABLES
  row,     \* expenses table; stamp is updated_at, which the ETag is a hash of
  clock,   \* the last clock_timestamp() that was written
  learned, \* category_corrections: category and occurrence_count, 0 without a row
  held,    \* the copy of each expense that each client last received
  client,  \* the request that each client has open
  booker   \* what each worker has looked up

vars == <<row, clock, learned, held, client, booker>>

NoPatch == [merchant |-> Unset, category |-> Unset]
Corrections == [category: Categories \cup {Unset}, count: Nat]

ClientPc == {"idle", "patch", "delete", "refresh"}
Request(pc, e, p, r, cond) ==
  [pc |-> pc, expense |-> e, patch |-> p, seen |-> r, ifMatch |-> cond]
IdleClient == Request("idle", Unset, NoPatch, NoRow, FALSE)
IdleBooker == [pc |-> "idle", merchant |-> Unset, category |-> Unset, count |-> 0]

Live(e) == row[e] \notin {NoRow, Deleted}
Draft(m, k, t) == [merchant |-> m, category |-> k, stamp |-> t]
CloseRequest(c) == client' = [client EXCEPT ![c] = IdleClient]
AwaitRefresh(c, e) ==
  client' = [client EXCEPT ![c] = Request("refresh", e, NoPatch, NoRow, FALSE)]

Init ==
  /\ row = Stored
  /\ clock = 0
  /\ learned = [m \in Merchants |-> [category |-> Corrected[m],
                                     count |-> IF Corrected[m] = Unset THEN 0 ELSE 1]]
  /\ held = [c \in Clients |-> [e \in Expenses |-> NoRow]]
  /\ client = [c \in Clients |-> IdleClient]
  /\ booker = [b \in Bookers |-> IdleBooker]

-----------------------------------------------------------------------------
(* POST and GET. *)

CreateExpense(c, e, m, k) ==
  /\ client[c].pc = "idle" /\ row[e] = NoRow /\ clock < MaxStamp
  /\ clock' = clock + 1
  /\ row' = [row EXCEPT ![e] = Draft(m, k, clock + 1)]
  /\ AwaitRefresh(c, e)
  /\ UNCHANGED <<learned, held, booker>>

GetExpense(c, e) ==
  /\ client[c].pc = "idle" /\ Live(e)
  /\ held' = [held EXCEPT ![c][e] = row[e]]
  /\ UNCHANGED <<row, clock, learned, client, booker>>

\* session.refresh, and the answer with its ETag; it raises on a row that is gone.
Refresh(c) ==
  /\ client[c].pc = "refresh"
  /\ held' = IF Live(client[c].expense)
               THEN [held EXCEPT ![c][client[c].expense] = row[client[c].expense]] ELSE held
  /\ CloseRequest(c)
  /\ UNCHANGED <<row, clock, learned, booker>>

-----------------------------------------------------------------------------
(* PATCH. *)

\* If-Match carries the ETag of the copy that the client holds.
TagMatches(c, e) == held[c][e] # NoRow /\ held[c][e].stamp = row[e].stamp

\* get_expense and the comparison of the ETag; 404 and 412 change nothing.
PatchRead(c, e, p, cond) ==
  /\ client[c].pc = "idle" /\ Live(e) /\ (cond => TagMatches(c, e))
  /\ client' = [client EXCEPT ![c] = Request("patch", e, p, row[e], cond)]
  /\ UNCHANGED <<row, clock, learned, held, booker>>

\* The columns that the ORM writes: named by the patch and not as they were read.
Changes(c, f) ==
  client[c].patch[f] # Unset /\ client[c].patch[f] # client[c].seen[f]
Dirty(c) == Changes(c, "merchant") \/ Changes(c, "category")

\* The merchant the request sees once the patch is applied in memory.
PatchedMerchant(c) ==
  IF Changes(c, "merchant") THEN client[c].patch.merchant ELSE client[c].seen.merchant

\* Mutant: updated_at has no onupdate.
PatchedWithoutStamp(c) ==
  LET e == client[c].expense
      p == client[c].patch IN
  Draft(IF Changes(c, "merchant") THEN p.merchant ELSE row[e].merchant,
        IF Changes(c, "category") THEN p.category ELSE row[e].category, row[e].stamp)

\* Mutant: model_dump without exclude_unset.
PatchedInFull(c) ==
  Draft(client[c].patch.merchant, client[c].patch.category, clock + 1)

\* The row after the UPDATE: other columns keep what is in the table now.
Patched(c) ==
  LET e == client[c].expense
      p == client[c].patch IN
  Draft(IF Changes(c, "merchant") THEN p.merchant ELSE row[e].merchant,
        IF Changes(c, "category") THEN p.category ELSE row[e].category, clock + 1)

\* Mutant: ON CONFLICT DO NOTHING.
RecordCorrectionOnce(c) ==
  LET m == PatchedMerchant(c) IN
  learned' = IF Changes(c, "category") /\ learned[m].count = 0
               THEN [learned EXCEPT ![m] = [category |-> client[c].patch.category, count |-> 1]]
               ELSE learned

\* _record_correction: INSERT ... ON CONFLICT DO UPDATE.
RecordCorrection(c) ==
  LET m == PatchedMerchant(c) IN
  learned' = IF Changes(c, "category")
               THEN [learned EXCEPT ![m] = [category |-> client[c].patch.category,
                                            count |-> @.count + 1]]
               ELSE learned

\* One transaction writes the row and the correction.
PatchCommit(c) ==
  /\ client[c].pc = "patch" /\ Dirty(c) /\ Live(client[c].expense) /\ clock < MaxStamp
  /\ clock' = clock + 1
  /\ row' = [row EXCEPT ![client[c].expense] = Patched(c)]
  /\ RecordCorrection(c)
  /\ AwaitRefresh(c, client[c].expense)
  /\ UNCHANGED <<held, booker>>

\* Nothing differs from what was read: no UPDATE, updated_at stays.
PatchNothing(c) ==
  /\ client[c].pc = "patch" /\ ~Dirty(c)
  /\ AwaitRefresh(c, client[c].expense)
  /\ UNCHANGED <<row, clock, learned, held, booker>>

\* The row is gone, a field is an explicit null, or the database is lost: the
\* correction is rolled back with the UPDATE.
PatchFails(c) ==
  /\ client[c].pc = "patch" /\ Dirty(c)
  /\ CloseRequest(c)
  /\ UNCHANGED <<row, clock, learned, held, booker>>

-----------------------------------------------------------------------------
(* DELETE. *)

DeleteRead(c, e, cond) ==
  /\ client[c].pc = "idle" /\ Live(e) /\ (cond => TagMatches(c, e))
  /\ client' = [client EXCEPT ![c] = Request("delete", e, NoPatch, NoRow, cond)]
  /\ UNCHANGED <<row, clock, learned, held, booker>>

\* A row that is gone already is a warning of the ORM, no error.
DeleteCommit(c) ==
  /\ client[c].pc = "delete"
  /\ row' = [row EXCEPT ![client[c].expense] = Deleted]
  /\ CloseRequest(c)
  /\ UNCHANGED <<clock, learned, held, booker>>

-----------------------------------------------------------------------------
(* categorise_merchant, then the INSERT of categorise_receipt. *)

\* Mutant: the static rules come before the user's corrections.
CategoriesForRuleFirst(m) ==
  IF Rule[m] # Unset THEN {Rule[m]}
  ELSE IF learned[m].count > 0 THEN {learned[m].category} ELSE Categories

\* Correction, rule, then the language model's answer or OTHER.
CategoriesFor(m) ==
  IF learned[m].count > 0 THEN {learned[m].category}
  ELSE IF Rule[m] # Unset THEN {Rule[m]} ELSE Categories

Categorise(b, m) ==
  /\ booker[b].pc = "idle"
  /\ \E k \in CategoriesFor(m) :
       booker' = [booker EXCEPT ![b] =
         [pc |-> "book", merchant |-> m, category |-> k, count |-> learned[m].count]]
  /\ UNCHANGED <<row, clock, learned, held, client>>

BookExpense(b, e) ==
  /\ booker[b].pc = "book" /\ row[e] = NoRow /\ clock < MaxStamp
  /\ clock' = clock + 1
  /\ row' = [row EXCEPT ![e] = Draft(booker[b].merchant, booker[b].category, clock + 1)]
  /\ booker' = [booker EXCEPT ![b] = IdleBooker]
  /\ UNCHANGED <<learned, held, client>>

\* The receipt is gone or booked, or the worker dies: see ReceiptPipeline.
BookFails(b) ==
  /\ booker[b].pc = "book"
  /\ booker' = [booker EXCEPT ![b] = IdleBooker]
  /\ UNCHANGED <<row, clock, learned, held, client>>

-----------------------------------------------------------------------------
ClientStep(c) ==
  \/ \E e \in Expenses :
       \/ \E m \in Merchants, k \in Categories : CreateExpense(c, e, m, k)
       \/ GetExpense(c, e)
       \/ \E cond \in BOOLEAN : DeleteRead(c, e, cond) \/ \E p \in Patches : PatchRead(c, e, p, cond)
  \/ Refresh(c) \/ PatchCommit(c) \/ PatchNothing(c) \/ PatchFails(c) \/ DeleteCommit(c)

BookerStep(b) ==
  \/ \E m \in Merchants : Categorise(b, m)
  \/ \E e \in Expenses : BookExpense(b, e)
  \/ BookFails(b)

Next == (\E c \in Clients : ClientStep(c)) \/ (\E b \in Bookers : BookerStep(b))

Spec == Init /\ [][Next]_vars

-----------------------------------------------------------------------------
\* Types: rows and copies are rows, requests carry what their point needs.
TypeOK ==
  /\ row \in [Expenses -> Rows \cup {NoRow, Deleted}]
  /\ clock \in 0..MaxStamp
  /\ learned \in [Merchants -> Corrections]
  /\ held \in [Clients -> [Expenses -> Rows \cup {NoRow}]]
  /\ client \in [Clients -> [pc: ClientPc, expense: Expenses \cup {Unset},
                             patch: Patches \cup {NoPatch}, seen: Rows \cup {NoRow},
                             ifMatch: BOOLEAN]]
  /\ booker \in [Bookers -> [pc: {"idle", "book"}, merchant: Merchants \cup {Unset},
                             category: Categories \cup {Unset}, count: Nat]]

\* An ETag that still matches proves the client's copy current, whoever wrote
\* in between: updated_at rotates on every UPDATE and is never written twice.
ETagNamesContent ==
  \A c \in Clients, e \in Expenses :
    Live(e) /\ held[c][e] # NoRow /\ held[c][e].stamp = row[e].stamp => held[c][e] = row[e]

\* What a step learns, and what it writes to the expenses.
CorrectionFollowsEdit ==
  /\ \A m \in Merchants : learned'[m] # learned[m] =>
       \E e \in Expenses :
         /\ Live(e) /\ Live(e)' /\ row'[e].stamp # row[e].stamp
         /\ row'[e].category = learned'[m].category
  /\ \A e \in Expenses : Live(e) /\ Live(e)' /\ row'[e].category # row[e].category =>
       \E m \in Merchants : learned'[m] = [category |-> row'[e].category,
                                          count |-> learned[m].count + 1]

\* Corrections and visible categories cannot drift apart: a correction is
\* learned only in a step that writes its category to an expense, and a patch
\* that changes a category that is seen is learned, with one more occurrence
\* (update_expense stages both in one transaction).
CorrectionsFollowEdits == [][CorrectionFollowsEdit]_vars

\* What a booking writes, and what was learned when it looked.
BookAsLearned ==
  \A b \in Bookers, e \in Expenses :
    booker[b].pc = "book" /\ booker'[b] # booker[b] /\ row[e] = NoRow /\ Live(e)' =>
      LET m == row'[e].merchant IN
      \/ learned[m].count = 0 \/ learned[m].count > booker[b].count
      \/ row'[e].category = learned[m].category

\* A receipt is booked against the user's correction only when that correction
\* was committed while the categoriser was being awaited (categorise_merchant).
BookedAsLearned == [][BookAsLearned]_vars

\* What ADR 0003 says of a conditional request: one whose ETag is stale does
\* not write.  Stale means that, at the moment of the write, the row is not the
\* copy whose ETag the client sent as If-Match.
StaleWritesAreRefused ==
  [][\A c \in Clients :
       LET e == client[c].expense IN
       client[c].ifMatch /\ client[c].pc \in {"patch", "delete"} /\ row'[e] # row[e]
         /\ client'[c] # client[c]
       => row[e] = held[c][e]]_vars
=============================================================================
