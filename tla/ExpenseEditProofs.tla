-------------------------- MODULE ExpenseEditProofs --------------------------
(* What ExpenseEdit guarantees for every set of expenses, clients and workers. *)
EXTENDS ExpenseEdit, TLAPS

\* A request under way names its expense, and a patch remembers what it read.
RequestsAreFilled ==
  \A c \in Clients :
    /\ client[c].pc # "idle" => client[c].expense \in Expenses
    /\ client[c].pc = "patch" => client[c].patch \in Patches /\ client[c].seen \in Rows

\* A correction that exists has a category.
CorrectionsAreFilled ==
  \A m \in Merchants : learned[m].count > 0 => learned[m].category \in Categories

\* A worker between lookup and INSERT holds the newest correction it could
\* have seen, or an older one.
LookupsAreOld ==
  \A b \in Bookers : booker[b].pc = "book" =>
    /\ booker[b].merchant \in Merchants /\ booker[b].category \in Categories
    /\ booker[b].count <= learned[booker[b].merchant].count
    /\ booker[b].count = learned[booker[b].merchant].count /\ booker[b].count > 0
         => booker[b].category = learned[booker[b].merchant].category

\* Rows and copies carry stamps that were written.
StampsAreOld ==
  /\ \A e \in Expenses : Live(e) => row[e].stamp <= clock
  /\ \A c \in Clients, e \in Expenses : held[c][e] # NoRow => held[c][e].stamp <= clock

Requests == [Clients -> [pc: ClientPc, expense: Expenses \cup {Unset},
                         patch: Patches \cup {NoPatch}, seen: Rows \cup {NoRow},
                         ifMatch: BOOLEAN]]

TypeInv == TypeOK /\ RequestsAreFilled /\ CorrectionsAreFilled /\ LookupsAreOld
TagInv == TypeInv /\ StampsAreOld /\ ETagNamesContent

-----------------------------------------------------------------------------
\* What an UPDATE writes is a row: a column is the patch's, which names it, or
\* the table's (update_expense, PatchCommit).
LEMMA PatchedIsRow ==
  ASSUME TypeInv, NEW c \in Clients, PatchCommit(c)
  PROVE  /\ Patched(c) \in Rows
         /\ Patched(c).stamp = clock + 1
         /\ client[c].expense \in Expenses
         /\ PatchedMerchant(c) \in Merchants
         /\ Changes(c, "category") => client[c].patch.category \in Categories
<1>1. /\ client[c].patch \in [merchant: Merchants \cup {Unset}, category: Categories \cup {Unset}]
      /\ client[c].seen \in Rows
      /\ client[c].expense \in Expenses
  BY ExpenseAssumption DEF TypeInv, RequestsAreFilled, PatchCommit
<1>2. /\ row[client[c].expense] \in Rows
      /\ clock + 1 \in Nat
  BY <1>1 DEF TypeInv, TypeOK, PatchCommit, Live
<1>3. /\ Changes(c, "merchant") => client[c].patch.merchant \in Merchants
      /\ Changes(c, "category") => client[c].patch.category \in Categories
  BY <1>1 DEF Changes
<1> QED
  BY <1>1, <1>2, <1>3 DEF Patched, PatchedMerchant, Draft, Rows

\* A request that is closed, or has only its answer left, is a request.
LEMMA RequestEnds ==
  ASSUME TypeInv, NEW c \in Clients
  PROVE  /\ CloseRequest(c) => client' \in Requests
         /\ \A e \in Expenses : AwaitRefresh(c, e) => client' \in Requests
<1>1. client \in Requests
  BY DEF TypeInv, TypeOK, Requests
<1>2. IdleClient \in [pc: ClientPc, expense: Expenses \cup {Unset},
                      patch: Patches \cup {NoPatch}, seen: Rows \cup {NoRow}, ifMatch: BOOLEAN]
  BY DEF IdleClient, Request, ClientPc
<1>3. \A e \in Expenses :
        Request("refresh", e, NoPatch, NoRow, FALSE)
          \in [pc: ClientPc, expense: Expenses \cup {Unset},
              patch: Patches \cup {NoPatch}, seen: Rows \cup {NoRow}, ifMatch: BOOLEAN]
  BY DEF IdleClient, Request, ClientPc
<1> QED
  BY <1>1, <1>2, <1>3 DEF CloseRequest, AwaitRefresh, Requests

\* A lookup answers a category (categorise_merchant).
LEMMA LookupIsCategory ==
  ASSUME TypeInv, NEW m \in Merchants
  PROVE  CategoriesFor(m) \subseteq Categories
<1>1. Rule[m] # Unset => Rule[m] \in Categories
  BY ExpenseAssumption
<1> QED
  BY <1>1 DEF TypeInv, CorrectionsAreFilled, CategoriesFor

-----------------------------------------------------------------------------
LEMMA TypeInvInit == Init => TypeInv
<1> SUFFICES ASSUME Init PROVE TypeInv
  OBVIOUS
<1>1. TypeOK
  BY ExpenseAssumption
  DEF Init, TypeOK, Rows, Corrections, ClientPc, IdleClient, Request, IdleBooker, NoPatch
<1>2. RequestsAreFilled /\ LookupsAreOld
  BY DEF Init, RequestsAreFilled, LookupsAreOld, IdleClient, Request, IdleBooker
<1>3. CorrectionsAreFilled
  BY ExpenseAssumption DEF Init, CorrectionsAreFilled
<1> QED
  BY <1>1, <1>2, <1>3 DEF TypeInv

LEMMA TypeInvStep == TypeInv /\ [Next]_vars => TypeInv'
<1> SUFFICES ASSUME TypeInv, [Next]_vars PROVE TypeInv'
  OBVIOUS
<1> USE DEF TypeInv
<1>1. ASSUME NEW c \in Clients, NEW e \in Expenses, NEW m \in Merchants, NEW k \in Categories,
             CreateExpense(c, e, m, k)
      PROVE  TypeInv'
  <2>1. TypeOK'
    <3>1. row' \in [Expenses -> Rows \cup {NoRow, Deleted}] /\ clock' \in 0..MaxStamp
      BY <1>1, ExpenseAssumption DEF TypeOK, CreateExpense, Draft, Rows
    <3>2. client' \in Requests
      BY <1>1, RequestEnds DEF CreateExpense
    <3> QED BY <1>1, <3>1, <3>2 DEF TypeOK, CreateExpense, Requests
  <2>2. RequestsAreFilled'
    BY <1>1 DEF TypeOK, RequestsAreFilled, CreateExpense, AwaitRefresh, IdleClient, Request
  <2>3. (CorrectionsAreFilled /\ LookupsAreOld)'
    BY <1>1 DEF CorrectionsAreFilled, LookupsAreOld, CreateExpense
  <2> QED BY <2>1, <2>2, <2>3
<1>2. ASSUME NEW c \in Clients, NEW e \in Expenses, GetExpense(c, e)
      PROVE  TypeInv'
  <2>1. TypeOK'
    BY <1>2 DEF TypeOK, GetExpense, Live
  <2> QED
    BY <1>2, <2>1 DEF RequestsAreFilled, CorrectionsAreFilled, LookupsAreOld, GetExpense
<1>3. ASSUME NEW c \in Clients, NEW e \in Expenses, NEW cond \in BOOLEAN, DeleteRead(c, e, cond)
      PROVE  TypeInv'
  <2>1. TypeOK'
    <3>1. Request("delete", e, NoPatch, NoRow, cond)
            \in [pc: ClientPc, expense: Expenses \cup {Unset},
                patch: Patches \cup {NoPatch}, seen: Rows \cup {NoRow}, ifMatch: BOOLEAN]
      BY DEF IdleClient, Request, ClientPc
    <3> QED BY <1>3, <3>1 DEF TypeOK, DeleteRead
  <2>2. RequestsAreFilled'
    BY <1>3 DEF TypeOK, RequestsAreFilled, DeleteRead, IdleClient, Request
  <2> QED BY <1>3, <2>1, <2>2 DEF CorrectionsAreFilled, LookupsAreOld, DeleteRead
<1>4. ASSUME NEW c \in Clients, NEW e \in Expenses, NEW cond \in BOOLEAN, NEW p \in Patches,
             PatchRead(c, e, p, cond)
      PROVE  TypeInv'
  <2>1. row[e] \in Rows
    BY <1>4 DEF TypeOK, PatchRead, Live
  <2>2. TypeOK'
    BY <1>4, <2>1 DEF TypeOK, PatchRead, ClientPc, Request
  <2>3. RequestsAreFilled'
    BY <1>4, <2>1 DEF TypeOK, RequestsAreFilled, PatchRead, Request
  <2> QED BY <1>4, <2>2, <2>3 DEF CorrectionsAreFilled, LookupsAreOld, PatchRead
<1>5. ASSUME NEW c \in Clients, Refresh(c) PROVE TypeInv'
  <2>1. TypeOK'
    <3>1. held' \in [Clients -> [Expenses -> Rows \cup {NoRow}]]
      BY <1>5 DEF TypeOK, RequestsAreFilled, Refresh, Live
    <3>2. client' \in Requests
      BY <1>5, RequestEnds DEF Refresh
    <3> QED BY <1>5, <3>1, <3>2 DEF TypeOK, Refresh, Requests
  <2>2. RequestsAreFilled'
    BY <1>5 DEF TypeOK, RequestsAreFilled, Refresh, CloseRequest, IdleClient, Request
  <2> QED BY <1>5, <2>1, <2>2 DEF CorrectionsAreFilled, LookupsAreOld, Refresh
<1>6. ASSUME NEW c \in Clients, PatchCommit(c) PROVE TypeInv'
  <2> DEFINE m == PatchedMerchant(c)
  <2>1. /\ Patched(c) \in Rows
        /\ client[c].expense \in Expenses
        /\ m \in Merchants
        /\ Changes(c, "category") => client[c].patch.category \in Categories
    BY <1>6, PatchedIsRow
  <2> HIDE DEF m
  <2>2. learned' = IF Changes(c, "category")
                     THEN [learned EXCEPT ![m] = [category |-> client[c].patch.category,
                                                  count |-> learned[m].count + 1]]
                     ELSE learned
    BY <1>6 DEF PatchCommit, RecordCorrection, m
  <2>3. /\ learned' \in [Merchants -> Corrections]
        /\ \A n \in Merchants : learned[n].count \in Nat /\ learned'[n].count \in Nat
    BY <2>1, <2>2 DEF TypeOK, Corrections
  <2>4. TypeOK'
    <3>1. row' \in [Expenses -> Rows \cup {NoRow, Deleted}] /\ clock' \in 0..MaxStamp
      BY <1>6, <2>1, ExpenseAssumption DEF TypeOK, PatchCommit
    <3>2. client' \in Requests
      BY <1>6, <2>1, RequestEnds DEF PatchCommit
    <3> QED BY <1>6, <2>3, <3>1, <3>2 DEF TypeOK, PatchCommit, Requests
  <2>5. RequestsAreFilled'
    BY <1>6, <2>1 DEF TypeOK, RequestsAreFilled, PatchCommit, AwaitRefresh, IdleClient, Request
  <2>6. CorrectionsAreFilled'
    BY <2>1, <2>2 DEF TypeOK, CorrectionsAreFilled
  <2>7. LookupsAreOld'
    <3> SUFFICES ASSUME NEW b \in Bookers, booker[b].pc = "book"
                 PROVE  LET n == booker[b].merchant IN
                        /\ n \in Merchants /\ booker[b].category \in Categories
                        /\ booker[b].count <= learned'[n].count
                        /\ booker[b].count = learned'[n].count /\ booker[b].count > 0
                             => booker[b].category = learned'[n].category
      BY <1>6 DEF LookupsAreOld, PatchCommit
    <3>1. booker[b].merchant \in Merchants /\ booker[b].count \in Nat
      BY DEF LookupsAreOld, TypeOK
    <3>2. \/ learned'[booker[b].merchant] = learned[booker[b].merchant]
          \/ learned'[booker[b].merchant].count = learned[booker[b].merchant].count + 1
      BY <2>1, <2>2, <3>1 DEF TypeOK
    <3> QED BY <2>3, <3>1, <3>2 DEF LookupsAreOld
  <2> QED BY <2>4, <2>5, <2>6, <2>7
<1>7. ASSUME NEW c \in Clients, PatchNothing(c) PROVE TypeInv'
  <2>1. TypeOK'
    <3>1. client[c].expense \in Expenses
      BY <1>7 DEF RequestsAreFilled, PatchNothing
    <3>2. client' \in Requests
      BY <1>7, <3>1, RequestEnds DEF PatchNothing
    <3> QED BY <1>7, <3>2 DEF TypeOK, PatchNothing, Requests
  <2>2. RequestsAreFilled'
    BY <1>7 DEF TypeOK, RequestsAreFilled, PatchNothing, AwaitRefresh, IdleClient, Request
  <2> QED BY <1>7, <2>1, <2>2 DEF CorrectionsAreFilled, LookupsAreOld, PatchNothing
<1>8. ASSUME NEW c \in Clients, PatchFails(c) PROVE TypeInv'
  <2>1. TypeOK'
    <3>1. client' \in Requests
      BY <1>8, RequestEnds DEF PatchFails
    <3> QED BY <1>8, <3>1 DEF TypeOK, RequestsAreFilled, PatchFails, Requests
  <2>2. RequestsAreFilled'
    BY <1>8 DEF TypeOK, RequestsAreFilled, PatchFails, CloseRequest, IdleClient, Request
  <2> QED BY <1>8, <2>1, <2>2 DEF CorrectionsAreFilled, LookupsAreOld, PatchFails
<1>9. ASSUME NEW c \in Clients, DeleteCommit(c) PROVE TypeInv'
  <2>1. TypeOK'
    <3>1. client' \in Requests
      BY <1>9, RequestEnds DEF DeleteCommit
    <3> QED BY <1>9, <3>1 DEF TypeOK, RequestsAreFilled, DeleteCommit, Requests
  <2>2. RequestsAreFilled'
    BY <1>9 DEF TypeOK, RequestsAreFilled, DeleteCommit, CloseRequest, IdleClient, Request
  <2> QED BY <1>9, <2>1, <2>2 DEF CorrectionsAreFilled, LookupsAreOld, DeleteCommit
<1>10. ASSUME NEW b \in Bookers, NEW m \in Merchants, Categorise(b, m) PROVE TypeInv'
  <2>1. PICK k \in Categories :
          /\ booker' = [booker EXCEPT ![b] = [pc |-> "book", merchant |-> m, category |-> k,
                                              count |-> learned[m].count]]
          /\ learned[m].count > 0 => k = learned[m].category
    BY <1>10, LookupIsCategory DEF Categorise, CategoriesFor
  <2>2. learned[m].count \in Nat
    BY DEF TypeOK, Corrections
  <2>3. TypeOK'
    BY <1>10, <2>1, <2>2 DEF TypeOK, Categorise
  <2>4. LookupsAreOld'
    BY <1>10, <2>1, <2>2 DEF TypeOK, LookupsAreOld, Categorise
  <2> QED BY <1>10, <2>3, <2>4 DEF RequestsAreFilled, CorrectionsAreFilled, Categorise
<1>11. ASSUME NEW b \in Bookers, NEW e \in Expenses, BookExpense(b, e) PROVE TypeInv'
  <2>1. Draft(booker[b].merchant, booker[b].category, clock + 1) \in Rows
    BY <1>11 DEF TypeOK, LookupsAreOld, BookExpense, Draft, Rows
  <2>2. TypeOK'
    BY <1>11, <2>1, ExpenseAssumption DEF TypeOK, BookExpense, IdleBooker
  <2>3. LookupsAreOld'
    BY <1>11 DEF TypeOK, LookupsAreOld, BookExpense, IdleBooker
  <2> QED BY <1>11, <2>2, <2>3 DEF RequestsAreFilled, CorrectionsAreFilled, BookExpense
<1>12. ASSUME NEW b \in Bookers, BookFails(b) PROVE TypeInv'
  <2>1. TypeOK'
    BY <1>12 DEF TypeOK, BookFails, IdleBooker
  <2>2. LookupsAreOld'
    BY <1>12 DEF TypeOK, LookupsAreOld, BookFails, IdleBooker
  <2> QED BY <1>12, <2>1, <2>2 DEF RequestsAreFilled, CorrectionsAreFilled, BookFails
<1>13. CASE UNCHANGED vars
  BY <1>13
  DEF vars, TypeOK, RequestsAreFilled, CorrectionsAreFilled, LookupsAreOld
<1> QED
  BY <1>1, <1>2, <1>3, <1>4, <1>5, <1>6, <1>7, <1>8, <1>9, <1>10, <1>11, <1>12, <1>13
  DEF Next, ClientStep, BookerStep

LEMMA TypeInvAlways == Spec => []TypeInv
<1> QED BY TypeInvInit, TypeInvStep, PTL DEF Spec

\* Rows, copies, requests and lookups have their types in every reachable state.
THEOREM TypeCorrect == Spec => []TypeOK
<1>1. TypeInv => TypeOK
  BY DEF TypeInv
<1> QED BY <1>1, TypeInvAlways, PTL

-----------------------------------------------------------------------------
(* The ETag.  A write takes a stamp that no copy carries yet, so a copy whose *)
(* stamp is the row's was taken after the last write.                         *)

LEMMA TagInvInit == Init => TagInv
<1> SUFFICES ASSUME Init PROVE TagInv
  OBVIOUS
<1>1. StampsAreOld
  BY ExpenseAssumption DEF Init, StampsAreOld, Live
<1>2. ETagNamesContent
  BY DEF Init, ETagNamesContent
<1> QED BY <1>1, <1>2, TypeInvInit DEF TagInv

\* A step that writes one row gives it a stamp of its own.
LEMMA FreshWrite ==
  ASSUME TagInv, NEW e \in Expenses, NEW r \in Rows,
         r.stamp = clock + 1, clock' = clock + 1,
         row' = [row EXCEPT ![e] = r], held' = held
  PROVE  (StampsAreOld /\ ETagNamesContent)'
<1>1. /\ clock \in Nat
      /\ row'[e] = r
      /\ \A f \in Expenses : f # e => row'[f] = row[f]
      /\ \A f \in Expenses : Live(f) => row[f].stamp \in Nat
      /\ \A c \in Clients, f \in Expenses : held[c][f] # NoRow => held[c][f].stamp \in Nat
  BY ExpenseAssumption DEF TagInv, TypeInv, TypeOK, Live, Rows
<1>2. StampsAreOld'
  BY <1>1 DEF TagInv, StampsAreOld, Live
<1>3. ETagNamesContent'
  BY <1>1 DEF TagInv, StampsAreOld, ETagNamesContent, Live
<1> QED BY <1>2, <1>3

\* A step that copies a live row gives the client what the table holds.
LEMMA FreshCopy ==
  ASSUME TagInv, NEW c \in Clients, NEW e \in Expenses, Live(e),
         held' = [held EXCEPT ![c][e] = row[e]], UNCHANGED <<row, clock>>
  PROVE  (StampsAreOld /\ ETagNamesContent)'
<1>1. \A d \in Clients, f \in Expenses :
        held'[d][f] = IF d = c /\ f = e THEN row[e] ELSE held[d][f]
  BY DEF TagInv, TypeInv, TypeOK
<1>2. StampsAreOld'
  BY <1>1 DEF TagInv, StampsAreOld, Live
<1>3. ETagNamesContent'
  BY <1>1 DEF TagInv, ETagNamesContent, Live
<1> QED BY <1>2, <1>3

LEMMA TagInvStep == TagInv /\ [Next]_vars => TagInv'
<1> SUFFICES ASSUME TagInv, [Next]_vars PROVE (StampsAreOld /\ ETagNamesContent)'
  BY TypeInvStep DEF TagInv
<1>0. TypeInv /\ clock \in Nat
  BY ExpenseAssumption DEF TagInv, TypeInv, TypeOK
<1>1. ASSUME NEW c \in Clients, NEW e \in Expenses, NEW m \in Merchants, NEW k \in Categories,
             CreateExpense(c, e, m, k)
      PROVE  (StampsAreOld /\ ETagNamesContent)'
  <2>1. Draft(m, k, clock + 1) \in Rows /\ Draft(m, k, clock + 1).stamp = clock + 1
    BY <1>0 DEF Draft, Rows
  <2> QED BY <1>1, <2>1, FreshWrite DEF CreateExpense
<1>2. ASSUME NEW c \in Clients, NEW e \in Expenses, GetExpense(c, e)
      PROVE  (StampsAreOld /\ ETagNamesContent)'
  BY <1>2, FreshCopy DEF GetExpense
<1>3. ASSUME NEW c \in Clients, Refresh(c) PROVE (StampsAreOld /\ ETagNamesContent)'
  <2>1. client[c].expense \in Expenses
    BY <1>0, <1>3 DEF TypeInv, RequestsAreFilled, Refresh
  <2>2. CASE Live(client[c].expense)
    BY <1>3, <2>1, <2>2, FreshCopy DEF Refresh
  <2>3. CASE ~Live(client[c].expense)
    BY <1>3, <2>3 DEF Refresh, TagInv, StampsAreOld, ETagNamesContent, Live
  <2> QED BY <2>2, <2>3
<1>4. ASSUME NEW c \in Clients, PatchCommit(c) PROVE (StampsAreOld /\ ETagNamesContent)'
  BY <1>0, <1>4, PatchedIsRow, FreshWrite DEF PatchCommit
<1>5. ASSUME NEW c \in Clients, DeleteCommit(c) PROVE (StampsAreOld /\ ETagNamesContent)'
  <2>1. client[c].expense \in Expenses
    BY <1>0, <1>5 DEF TypeInv, RequestsAreFilled, DeleteCommit
  <2>2. \A f \in Expenses : Live(f)' => Live(f) /\ row'[f] = row[f]
    BY <1>5, <2>1 DEF DeleteCommit, TagInv, TypeInv, TypeOK, Live
  <2> QED BY <1>5, <2>2 DEF DeleteCommit, TagInv, StampsAreOld, ETagNamesContent
<1>6. ASSUME NEW b \in Bookers, NEW e \in Expenses, BookExpense(b, e)
      PROVE  (StampsAreOld /\ ETagNamesContent)'
  <2>1. /\ Draft(booker[b].merchant, booker[b].category, clock + 1) \in Rows
        /\ Draft(booker[b].merchant, booker[b].category, clock + 1).stamp = clock + 1
    BY <1>0, <1>6 DEF TypeInv, LookupsAreOld, BookExpense, Draft, Rows
  <2> QED BY <1>6, <2>1, FreshWrite DEF BookExpense
<1>7. ASSUME UNCHANGED <<row, clock, held>> PROVE (StampsAreOld /\ ETagNamesContent)'
  BY <1>7 DEF TagInv, StampsAreOld, ETagNamesContent, Live
<1>8. \/ UNCHANGED vars
      \/ \E c \in Clients, e \in Expenses, cond \in BOOLEAN :
           DeleteRead(c, e, cond) \/ \E p \in Patches : PatchRead(c, e, p, cond)
      \/ \E c \in Clients : PatchNothing(c) \/ PatchFails(c)
      \/ \E b \in Bookers : BookFails(b) \/ \E m \in Merchants : Categorise(b, m)
      => UNCHANGED <<row, clock, held>>
  BY DEF vars, DeleteRead, PatchRead, PatchNothing, PatchFails, BookFails, Categorise
<1> QED
  BY <1>1, <1>2, <1>3, <1>4, <1>5, <1>6, <1>7, <1>8 DEF Next, ClientStep, BookerStep

\* An ETag that matches proves a copy current: compute_etag over updated_at
\* names the content of the row, whatever requests and workers interleave.
THEOREM ETagIsSound == Spec => []ETagNamesContent
<1>1. TagInv => ETagNamesContent
  BY DEF TagInv
<1> QED BY <1>1, TagInvInit, TagInvStep, PTL DEF Spec

-----------------------------------------------------------------------------
(* What is learned, and what is booked under it. *)

LEMMA CorrectionStep == TagInv /\ [Next]_vars => [CorrectionFollowsEdit]_vars
<1> SUFFICES ASSUME TagInv, Next PROVE CorrectionFollowsEdit
  OBVIOUS
<1>0. /\ TypeInv
      /\ learned \in [Merchants -> Corrections]
      /\ \A e \in Expenses : Live(e) => row[e] \in Rows /\ row[e].stamp <= clock
      /\ clock \in Nat
      /\ row \in [Expenses -> Rows \cup {NoRow, Deleted}]
  BY ExpenseAssumption DEF TagInv, TypeInv, TypeOK, StampsAreOld, Live
<1>1. ASSUME NEW c \in Clients, PatchCommit(c) PROVE CorrectionFollowsEdit
  <2>0. PICK m \in Merchants, e \in Expenses, k \in Categories \cup {Unset} :
          m = PatchedMerchant(c) /\ e = client[c].expense /\ k = client[c].patch.category
    <3>1. client[c].patch.category \in Categories \cup {Unset}
      BY <1>0, <1>1, ExpenseAssumption DEF TypeInv, RequestsAreFilled, PatchCommit
    <3> QED BY <1>0, <1>1, <3>1, PatchedIsRow
  <2>1. Patched(c) \in Rows /\ Patched(c).stamp = clock + 1
    BY <1>0, <1>1, PatchedIsRow
  <2>2. Patched(c).category = IF Changes(c, "category") THEN k ELSE row[e].category
    BY <2>0 DEF Patched, Draft
  <2>3. /\ learned' = IF Changes(c, "category")
                        THEN [learned EXCEPT ![m] = [category |-> k, count |-> learned[m].count + 1]]
                        ELSE learned
        /\ row' = [row EXCEPT ![e] = Patched(c)]
        /\ Live(e)
    BY <1>1, <2>0 DEF PatchCommit, RecordCorrection
  <2>4. row'[e] = Patched(c) /\ \A f \in Expenses : f # e => row'[f] = row[f]
    BY <1>0, <2>1, <2>3
  <2>5. Live(e)' /\ row'[e].stamp # row[e].stamp
    BY <1>0, <2>1, <2>3, <2>4, ExpenseAssumption DEF Live
  <2>6. CASE Changes(c, "category")
    <3>1. /\ learned'[m] = [category |-> k, count |-> learned[m].count + 1]
          /\ \A n \in Merchants : n # m => learned'[n] = learned[n]
      BY <1>0, <2>1, <2>3, <2>6
    <3>2. row'[e].category = k
      BY <2>2, <2>4, <2>6
    <3> QED BY <2>1, <2>3, <2>4, <2>5, <3>1, <3>2 DEF CorrectionFollowsEdit
  <2>7. CASE ~Changes(c, "category")
    BY <2>2, <2>3, <2>4, <2>7 DEF CorrectionFollowsEdit
  <2> QED BY <2>6, <2>7
<1>2. ASSUME learned' = learned,
             \A e \in Expenses : Live(e) /\ Live(e)' => row'[e] = row[e]
      PROVE  CorrectionFollowsEdit
  BY <1>2 DEF CorrectionFollowsEdit
<1>3. ASSUME NEW c \in Clients, DeleteCommit(c) PROVE CorrectionFollowsEdit
  <2>1. client[c].expense \in Expenses
    BY <1>0, <1>3 DEF TypeInv, RequestsAreFilled, DeleteCommit
  <2> QED BY <1>0, <1>2, <1>3, <2>1 DEF DeleteCommit, Live
<1>4. ASSUME NEW c \in Clients, NEW e \in Expenses, NEW m \in Merchants, NEW k \in Categories,
             CreateExpense(c, e, m, k)
      PROVE  CorrectionFollowsEdit
  BY <1>0, <1>2, <1>4 DEF CreateExpense, Live
<1>5. ASSUME NEW b \in Bookers, NEW e \in Expenses, BookExpense(b, e)
      PROVE  CorrectionFollowsEdit
  BY <1>0, <1>2, <1>5 DEF BookExpense, Live
<1>6. ASSUME UNCHANGED <<row, learned>> PROVE CorrectionFollowsEdit
  BY <1>2, <1>6
<1>7. \/ \E c \in Clients, e \in Expenses :
           \/ GetExpense(c, e)
           \/ \E cond \in BOOLEAN :
                DeleteRead(c, e, cond) \/ \E p \in Patches : PatchRead(c, e, p, cond)
      \/ \E c \in Clients : Refresh(c) \/ PatchNothing(c) \/ PatchFails(c)
      \/ \E b \in Bookers : BookFails(b) \/ \E m \in Merchants : Categorise(b, m)
      => UNCHANGED <<row, learned>>
  BY DEF GetExpense, DeleteRead, PatchRead, Refresh, PatchNothing, PatchFails, BookFails, Categorise
<1> QED
  BY <1>1, <1>3, <1>4, <1>5, <1>6, <1>7 DEF Next, ClientStep, BookerStep

\* Corrections and visible categories cannot drift apart: update_expense
\* stages both in one transaction, and the upsert counts every one.
THEOREM CorrectionsAreEdits == Spec => CorrectionsFollowEdits
<1> QED BY TagInvInit, TagInvStep, CorrectionStep, PTL DEF Spec, CorrectionsFollowEdits

LEMMA BookStep == TypeInv /\ [Next]_vars => [BookAsLearned]_vars
<1> SUFFICES ASSUME TypeInv, Next, NEW b \in Bookers, NEW e \in Expenses,
                    booker[b].pc = "book", booker'[b] # booker[b], row[e] = NoRow, Live(e)'
             PROVE  LET m == row'[e].merchant IN
                    \/ learned[m].count = 0 \/ learned[m].count > booker[b].count
                    \/ row'[e].category = learned[m].category
  BY DEF BookAsLearned
<1>1. BookExpense(b, e)
  <2>1. \A c \in Clients : ~ClientStep(c)
    BY DEF ClientStep, CreateExpense, GetExpense, Refresh, PatchRead, PatchCommit, PatchNothing,
           PatchFails, DeleteRead, DeleteCommit
  <2>2. PICK d \in Bookers : BookerStep(d)
    BY <2>1 DEF Next
  <2>3. d = b
    BY <2>2 DEF TypeInv, TypeOK, BookerStep, Categorise, BookExpense, BookFails
  <2>4. row'[e] # row[e]
    BY DEF Live
  <2>5. PICK f \in Expenses : BookExpense(b, f)
    BY <2>2, <2>3, <2>4 DEF BookerStep, Categorise, BookFails
  <2>6. f = e
    BY <2>4, <2>5 DEF TypeInv, TypeOK, BookExpense
  <2> QED BY <2>5, <2>6
<1>2. row'[e].merchant = booker[b].merchant /\ row'[e].category = booker[b].category
  BY <1>1 DEF TypeInv, TypeOK, BookExpense, Draft
<1>3. /\ booker[b].merchant \in Merchants
      /\ booker[b].count \in Nat /\ learned[booker[b].merchant].count \in Nat
  BY DEF TypeInv, TypeOK, LookupsAreOld, Corrections
<1> QED
  BY <1>2, <1>3 DEF TypeInv, LookupsAreOld

\* A booking contradicts the user's correction only when the correction was
\* committed after categorise_merchant had looked it up.
THEOREM BookingsFollowLearning == Spec => BookedAsLearned
<1> QED BY TypeInvAlways, BookStep, PTL DEF Spec, BookedAsLearned

-----------------------------------------------------------------------------
(* One editor. *)

\* A conditional request still has the copy whose ETag it sent.
CopyIsCurrent(c) ==
  client[c].ifMatch /\ client[c].pc \in {"patch", "delete"} =>
    Live(client[c].expense) /\ row[client[c].expense] = held[c][client[c].expense]
CopiesAreCurrent == \A c \in Clients : CopyIsCurrent(c)

\* Nobody writes an expense between the SELECT and the UPDATE of a sole editor:
\* workers insert rows of their own.
LEMMA CopiesStayCurrent ==
  ASSUME \A c, d \in Clients : c = d, TagInv, CopiesAreCurrent, [Next]_vars
  PROVE  CopiesAreCurrent'
<1>0. /\ client \in Requests /\ row \in [Expenses -> Rows \cup {NoRow, Deleted}]
      /\ RequestsAreFilled /\ ETagNamesContent
  BY DEF TagInv, TypeInv, TypeOK, Requests
<1> SUFFICES ASSUME NEW c \in Clients PROVE CopyIsCurrent(c)'
  BY DEF CopiesAreCurrent
<1>1. CASE UNCHANGED <<row, held, client>>
  BY <1>1 DEF CopiesAreCurrent, CopyIsCurrent, Live
<1>2. ASSUME NEW e \in Expenses, NEW cond \in BOOLEAN, NEW q, q.expense = e, q.ifMatch = cond,
             Live(e), cond => TagMatches(c, e), client' = [client EXCEPT ![c] = q],
             UNCHANGED <<row, held>>
      PROVE  CopyIsCurrent(c)'
  <2>1. client'[c] = q /\ row'[e] = row[e] /\ held'[c][e] = held[c][e]
    BY <1>0, <1>2 DEF Requests
  <2>2. cond => row[e] = held[c][e]
    BY <1>0, <1>2 DEF TagMatches, ETagNamesContent
  <2> QED
    BY <1>2, <2>1, <2>2 DEF CopyIsCurrent, Live
<1>3. ASSUME NEW e \in Expenses, NEW cond \in BOOLEAN, DeleteRead(c, e, cond)
      PROVE  CopyIsCurrent(c)'
  BY <1>3, <1>2 DEF DeleteRead, Request
<1>4. ASSUME NEW e \in Expenses, NEW cond \in BOOLEAN, NEW p \in Patches, PatchRead(c, e, p, cond)
      PROVE  CopyIsCurrent(c)'
  BY <1>4, <1>2 DEF PatchRead, Request
<1>5. ASSUME NEW b \in Bookers, NEW e \in Expenses, BookExpense(b, e)
      PROVE  CopyIsCurrent(c)'
  <2>1. \A f \in Expenses : Live(f) => row'[f] = row[f]
    BY <1>0, <1>5 DEF BookExpense, Live
  <2>2. CopyIsCurrent(c) /\ (client[c].pc # "idle" => client[c].expense \in Expenses)
    BY <1>0 DEF CopiesAreCurrent, RequestsAreFilled
  <2> QED
    BY <1>5, <2>1, <2>2 DEF BookExpense, CopyIsCurrent, Live
<1>6. CASE \/ \E e \in Expenses : AwaitRefresh(c, e)
           \/ AwaitRefresh(c, client[c].expense) \/ CloseRequest(c)
  <2>1. client'[c].pc \in {"idle", "refresh"}
    BY <1>0, <1>6 DEF AwaitRefresh, CloseRequest, IdleClient, Request, Requests
  <2> QED
    BY <2>1 DEF CopyIsCurrent
<1>7. ASSUME NEW e \in Expenses, NEW m \in Merchants, NEW k \in Categories,
             CreateExpense(c, e, m, k)
      PROVE  CopyIsCurrent(c)'
  BY <1>6, <1>7 DEF CreateExpense
<1>8. CASE Refresh(c) \/ PatchCommit(c) \/ PatchNothing(c) \/ PatchFails(c) \/ DeleteCommit(c)
  BY <1>6, <1>8 DEF Refresh, PatchCommit, PatchNothing, PatchFails, DeleteCommit
<1>9. ASSUME NEW e \in Expenses, GetExpense(c, e)
      PROVE  CopyIsCurrent(c)'
  <2>1. /\ client' = client /\ row' = row
        /\ \A f \in Expenses : held'[c][f] = IF f = e THEN row[e] ELSE held[c][f]
    BY <1>9 DEF GetExpense, TagInv, TypeInv, TypeOK
  <2>2. CopyIsCurrent(c) /\ (client[c].pc # "idle" => client[c].expense \in Expenses)
    BY <1>0 DEF CopiesAreCurrent, RequestsAreFilled
  <2> QED
    BY <2>1, <2>2 DEF CopyIsCurrent, Live
<1>10. \/ UNCHANGED vars
       \/ \E b \in Bookers : BookFails(b) \/ \E m \in Merchants : Categorise(b, m)
       => UNCHANGED <<row, held, client>>
  BY DEF vars, BookFails, Categorise
<1>11. \A d \in Clients : d = c
  OBVIOUS
<1> QED
  BY <1>1, <1>3, <1>4, <1>5, <1>7, <1>8, <1>9, <1>10, <1>11 DEF Next, ClientStep, BookerStep

\* With one editor at a time If-Match keeps its promise: it takes a second one,
\* between the comparison and the UPDATE, to write over a change unseen
\* (update_expense, delete_expense).
THEOREM SoleEditorIsSafe ==
  ASSUME \A c, d \in Clients : c = d
  PROVE  Spec => StaleWritesAreRefused
<1>1. Init => CopiesAreCurrent
  BY DEF Init, CopiesAreCurrent, CopyIsCurrent, IdleClient, Request
<1>2. CopiesAreCurrent =>
        \A c \in Clients :
          LET e == client[c].expense IN
          client[c].ifMatch /\ client[c].pc \in {"patch", "delete"} /\ row'[e] # row[e]
            /\ client'[c] # client[c] => row[e] = held[c][e]
  BY DEF CopiesAreCurrent, CopyIsCurrent
<1> QED
  BY <1>1, <1>2, TagInvInit, TagInvStep, CopiesStayCurrent, PTL DEF Spec, StaleWritesAreRefused
=============================================================================
