------------------------- MODULE ExpenseReportsProofs -------------------------
(***************************************************************************)
(* The properties of Budgets, of ExpensePages and of the reports over      *)
(* them, for any table, page size, filter, number of budgets, clients,     *)
(* patches and writes.                                                     *)
(***************************************************************************)
EXTENDS ExpenseReports, InsightsProofs

-----------------------------------------------------------------------------
(* Budgets.  BudgetsInv adds what a request relies on between its SELECT    *)
(* and its commit.                                                         *)

\* A request that is under way names a budget, and a patch knows its row.
RequestsAreReal ==
  \A c \in BudgetClients :
    /\ request[c].pc \in {"patch", "refresh", "delete"} => request[c].id \in BudgetIds
    /\ request[c].pc = "patch" => request[c].patch \in BudgetPatches /\ request[c].seen \in BudgetRows

BudgetsInv == BudgetsTypeOK /\ RequestsAreReal /\ OneBudgetPerCategory

USE DEF BudgetRows, Fields, Request, IdleRequest, NoPatch, Exists

\* Init.
LEMMA BudgetsInitInv == BudgetsInit => BudgetsInv
PROOF
  BY BudgetsAssumption DEF BudgetsInit, BudgetsInv, BudgetsTypeOK, RequestsAreReal, OneBudgetPerCategory

\* The row that a patch writes is a row: each column is the table's, or what the
\* patch names, and not null (Updated, NullIsWritten).
LEMMA UpdatedIsRow ==
  ASSUME BudgetsInv, NEW c \in BudgetClients, request[c].pc = "patch", Exists(request[c].id),
         ~NullIsWritten(c)
  PROVE  /\ request[c].id \in BudgetIds
         /\ Updated(c) \in BudgetRows
         /\ \A f \in Fields : Updated(c)[f] \in {budget[request[c].id][f], request[c].patch[f]}
PROOF
<1> DEFINE patch == request[c].patch
           old == budget[request[c].id]
<1>1. request[c].id \in BudgetIds /\ patch \in BudgetPatches /\ old \in BudgetRows
  BY DEF BudgetsInv, RequestsAreReal, BudgetsTypeOK
<1>2. \A f \in DirtyFields(c) : patch[f] \notin {Absent, Null}
  BY DEF DirtyFields, NullIsWritten
<1>3. \A f \in Fields : Updated(c)[f] = IF f \in DirtyFields(c) THEN patch[f] ELSE old[f]
  BY DEF Updated
<1>4. patch \in [category : BudgetCategories \cup {Absent, Null}, amount : Limits \cup {Absent, Null},
                 threshold : Thresholds \cup {Absent, Null}, active : BOOLEAN \cup {Absent, Null}]
  BY <1>1, BudgetsAssumption
<1>5. DirtyFields(c) \subseteq Fields
  BY DEF DirtyFields
<1>6. Updated(c) \in BudgetRows
  <2>1. /\ IF "category" \in DirtyFields(c) THEN patch["category"] \in BudgetCategories ELSE TRUE
        /\ IF "amount" \in DirtyFields(c) THEN patch["amount"] \in Limits ELSE TRUE
        /\ IF "threshold" \in DirtyFields(c) THEN patch["threshold"] \in Thresholds ELSE TRUE
        /\ IF "active" \in DirtyFields(c) THEN patch["active"] \in BOOLEAN ELSE TRUE
    BY <1>2, <1>4
  <2> QED
    BY <1>1, <2>1 DEF Updated
<1> QED
  BY <1>1, <1>3, <1>6

\* Every step keeps the invariant.
LEMMA BudgetsStep == BudgetsInv /\ BudgetsNext => BudgetsInv'
PROOF
<1> SUFFICES ASSUME BudgetsInv, NEW c \in BudgetClients, BudgetStep(c) PROVE BudgetsInv'
  BY DEF BudgetsNext
<1> USE BudgetsAssumption
    DEF BudgetsInv, BudgetsTypeOK, RequestsAreReal, OneBudgetPerCategory, Close, Await
<1>1. ASSUME NEW b \in BudgetIds, NEW new \in NewBudgets, CreateBudget(c, b, new) PROVE BudgetsInv'
  <2>1. new \in BudgetRows /\ budget' = [budget EXCEPT ![b] = new]
    BY <1>1 DEF CreateBudget
  <2>2. OneBudgetPerCategory'
    BY <1>1, <2>1 DEF CreateBudget, Taken
  <2>3. BudgetsTypeOK' /\ RequestsAreReal'
    BY <1>1, <2>1 DEF CreateBudget
  <2> QED
    BY <2>2, <2>3
<1>2. ASSUME NEW b \in BudgetIds, NEW p \in BudgetPatches, PatchBudget(c, b, p) PROVE BudgetsInv'
  BY <1>2 DEF PatchBudget
<1>3. ASSUME NEW b \in BudgetIds, ReadForDelete(c, b) PROVE BudgetsInv'
  BY <1>3 DEF ReadForDelete
<1>4. CASE RefreshBudget(c)
  BY <1>4 DEF RefreshBudget
<1>5. CASE CommitPatch(c)
  <2>1. /\ request[c].id \in BudgetIds /\ Updated(c) \in BudgetRows
        /\ budget' = [budget EXCEPT ![request[c].id] = Updated(c)]
    BY <1>5, UpdatedIsRow DEF CommitPatch
  <2>2. OneBudgetPerCategory'
    BY <1>5, <2>1 DEF CommitPatch, Taken
  <2>3. BudgetsTypeOK' /\ RequestsAreReal'
    BY <1>5, <2>1 DEF CommitPatch
  <2> QED
    BY <2>2, <2>3
<1>6. CASE CommitNothing(c)
  BY <1>6 DEF CommitNothing
<1>7. CASE PatchConflicts(c)
  BY <1>7 DEF PatchConflicts
<1>11. CASE PatchOfGoneBudget(c)
  BY <1>11 DEF PatchOfGoneBudget
<1>8. CASE DeleteBudget(c)
  BY <1>8 DEF DeleteBudget
<1>9. CASE ReadForStatus(c)
  <2>1. ActiveBudgets \subseteq BudgetRows
    BY DEF ActiveBudgets
  <2> QED
    BY <1>9, <2>1 DEF ReadForStatus
<1>10. CASE AnswerStatus(c)
  BY <1>10 DEF AnswerStatus
<1> QED
  BY <1>1, <1>2, <1>3, <1>4, <1>5, <1>6, <1>7, <1>8, <1>9, <1>10, <1>11 DEF BudgetStep

\* A step that changes a budget which stays is the commit of a patch.
LEMMA BudgetsMerge == BudgetsInv /\ BudgetsNext => WriteIsAPatch
PROOF
<1> SUFFICES ASSUME BudgetsInv, NEW c \in BudgetClients, BudgetStep(c),
                    NEW b \in BudgetIds, Exists(b), Exists(b)', budget'[b] # budget[b]
             PROVE  \E e \in BudgetClients :
                      /\ request[e].pc = "patch" /\ request[e].id = b
                      /\ \A f \in Fields : budget'[b][f] # budget[b][f] =>
                                           budget'[b][f] = request[e].patch[f]
  BY DEF BudgetsNext, WriteIsAPatch
<1> USE DEF BudgetsInv, BudgetsTypeOK
<1>1. CASE CommitPatch(c)
  <2>1. request[c].pc = "patch" /\ request[c].id = b /\ budget'[b] = Updated(c)
    BY <1>1 DEF CommitPatch
  <2> QED
    BY <1>1, <2>1, UpdatedIsRow DEF CommitPatch
<1>2. ASSUME NEW x \in BudgetIds, NEW new \in NewBudgets, CreateBudget(c, x, new) PROVE FALSE
  BY <1>2 DEF CreateBudget
<1>3. ~DeleteBudget(c)
  BY DEF DeleteBudget
<1> QED
  BY <1>1, <1>2, <1>3
  DEF BudgetStep, PatchBudget, ReadForDelete, RefreshBudget, CommitNothing, PatchConflicts,
      PatchOfGoneBudget, ReadForStatus, AnswerStatus

-----------------------------------------------------------------------------
\* The paging of expenses does not touch budgets.
LEMMA BudgetsInvStep == BudgetsInv /\ [Next]_vars => BudgetsInv'
PROOF
<1>1. BudgetsInv /\ UNCHANGED budgetVars => BudgetsInv'
  BY DEF budgetVars, BudgetsInv, BudgetsTypeOK, RequestsAreReal, OneBudgetPerCategory
<1> QED
  BY <1>1, BudgetsStep DEF Next, vars

\* BudgetsInv holds in every reachable state.
THEOREM BudgetsSafety == Spec => []BudgetsInv
PROOF
<1>1. Init => BudgetsInv
  BY BudgetsInitInv DEF Init
<1> QED
  BY <1>1, BudgetsInvStep, PTL DEF Spec

\* The unique key survives every race of creations, recategorisations and
\* deletions (create_budget, update_budget, uq_budget_per_category_period).
THEOREM CategoriesAreUnique == Spec => []OneBudgetPerCategory
PROOF
  BY BudgetsSafety, PTL DEF BudgetsInv

\* Patches computed from old rows merge (update_budget).
THEOREM PatchesAreMerged == Spec => PatchesMerge
PROOF
<1>1. BudgetsInv /\ [Next]_vars => [WriteIsAPatch]_budgetVars
  BY BudgetsMerge DEF Next, vars
<1> QED
  BY <1>1, BudgetsSafety, PTL DEF Spec, PatchesMerge

-----------------------------------------------------------------------------
(* Pages.  The two promises are an inductive invariant together with the   *)
(* types; the argument is about the order of the list: a page is exactly   *)
(* what is not beyond the cursor that leads on from it.                    *)

PagesInv == PagesTypeOK /\ OwedRowsAreAhead /\ SeenRowsAreBehind

\* The rows of a list have an id each, as the table's primary key demands.
IsList(C) ==
  /\ C \subseteq Rows
  /\ \A a, b \in C : a.id = b.id => a = b

-----------------------------------------------------------------------------
(* The order of the list. *)

\* ORDER BY expense_date DESC, id DESC is irreflexive, transitive, and total on
\* rows of different ids.
LEMMA NewerOrders ==
  ASSUME NEW a \in Rows, NEW b \in Rows, NEW c \in Rows
  PROVE  /\ ~Newer(a, a)
         /\ Newer(a, b) /\ Newer(b, c) => Newer(a, c)
         /\ a.id # b.id => Newer(a, b) \/ Newer(b, a)
PROOF
<1>1. /\ a.date \in Dates /\ b.date \in Dates /\ c.date \in Dates
      /\ a.id \in Nat /\ b.id \in Nat /\ c.id \in Nat
  BY PagesAssumption DEF Rows
<1> QED
  BY <1>1 DEF Newer, Before, Dates

\* The keyset predicate is that order: a row is beyond the cursor of another
\* one if and only if the other one comes before it.
LEMMA BeyondIsOlder ==
  ASSUME NEW a \in Rows, NEW b \in Rows
  PROVE  Beyond(b, [date |-> a.date, id |-> a.id]) <=> Newer(a, b)
PROOF
<1>1. [date |-> a.date, id |-> a.id] # NoCursor
  BY PagesAssumption DEF Rows, Cursors
<1>2. a.id \in Nat /\ b.id \in Nat
  BY PagesAssumption DEF Rows
<1> QED
  BY <1>1, <1>2 DEF Newer, Beyond

\* What is beyond an older row is beyond a newer one.
LEMMA BeyondIsTransitive ==
  ASSUME NEW a \in Rows, NEW b \in Rows, NEW c \in Cursors \cup {NoCursor},
         Beyond(a, c), Newer(a, b)
  PROVE  Beyond(b, c)
PROOF
<1>1. /\ a.date \in Dates /\ b.date \in Dates /\ a.id \in Nat /\ b.id \in Nat
      /\ c # NoCursor => c.date \in Dates /\ c.id \in Nat
  BY PagesAssumption DEF Rows, Cursors
<1> QED
  BY <1>1 DEF Newer, Beyond, Before, Dates

\* Ranks are numbers below the length of the list, and lower for newer rows.
LEMMA RanksOrder ==
  ASSUME NEW C, IsFiniteSet(C), IsList(C)
  PROVE  /\ \A r \in C : Rank(C, r) \in 0..(Cardinality(C) - 1)
         /\ \A q, r \in C : Newer(q, r) => Rank(C, q) < Rank(C, r)
PROOF
<1> DEFINE Ahead(r) == {x \in C : Newer(x, r)}
<1>1. C \subseteq Rows
  BY DEF IsList
<1>2. \A r \in C : IsFiniteSet(Ahead(r)) /\ Rank(C, r) \in Nat
  <2> TAKE r \in C
  <2>1. IsFiniteSet(Ahead(r))
    BY FS_Subset
  <2> QED
    BY <2>1, FS_CardinalityType DEF Rank
<1>3. \A r \in C : Rank(C, r) < Cardinality(C)
  <2> TAKE r \in C
  <2>1. r \notin Ahead(r)
    BY <1>1, NewerOrders
  <2>2. Ahead(r) # C /\ Ahead(r) \in SUBSET C
    BY <2>1
  <2>3. Cardinality(Ahead(r)) <= Cardinality(C) /\ Cardinality(Ahead(r)) # Cardinality(C)
    BY <2>2, FS_Subset
  <2> QED
    BY <2>3, <1>2, FS_CardinalityType DEF Rank
<1>4. ASSUME NEW q \in C, NEW r \in C, Newer(q, r) PROVE Rank(C, q) < Rank(C, r)
  <2>1. Ahead(q) \in SUBSET Ahead(r)
    BY <1>1, <1>4, NewerOrders
  <2>2. q \in Ahead(r) /\ q \notin Ahead(q)
    BY <1>1, <1>4, NewerOrders
  <2>3. Cardinality(Ahead(q)) <= Cardinality(Ahead(r)) /\ Cardinality(Ahead(q)) # Cardinality(Ahead(r))
    BY <2>1, <2>2, <1>2, FS_Subset
  <2>4. Rank(C, q) = Cardinality(Ahead(q)) /\ Rank(C, r) = Cardinality(Ahead(r))
    BY DEF Rank
  <2>5. Rank(C, q) \in Nat /\ Rank(C, r) \in Nat
    BY <1>2
  <2> HIDE DEF Ahead
  <2> QED
    BY <2>3, <2>4, <2>5
<1>5. Cardinality(C) \in Nat
  BY FS_CardinalityType
<1>6. \A r \in C : Rank(C, r) \in Nat
  BY <1>2
<1>7. \A r \in C : Rank(C, r) \in 0..(Cardinality(C) - 1)
  BY <1>3, <1>5, <1>6
<1>8. \A q, r \in C : Newer(q, r) => Rank(C, q) < Rank(C, r)
  BY <1>4
<1> QED
  BY <1>7, <1>8

\* Every rank is some row's: no gaps, so that rows[page_size - 1] exists.
LEMMA RanksAreTaken ==
  ASSUME NEW C, IsFiniteSet(C), IsList(C), NEW k \in 0..(Cardinality(C) - 1)
  PROVE  \E r \in C : Rank(C, r) = k
PROOF
<1> DEFINE T == 0..(Cardinality(C) - 1)
           rank == [r \in C |-> Rank(C, r)]
<1>1. rank \in [C -> T]
  BY RanksOrder
<1>2. \A q, r \in C : rank[q] = rank[r] => q = r
  <2> SUFFICES ASSUME NEW q \in C, NEW r \in C, q # r PROVE rank[q] # rank[r]
    OBVIOUS
  <2>1. Newer(q, r) \/ Newer(r, q)
    BY NewerOrders DEF IsList
  <2>2. rank[q] \in Int /\ rank[r] \in Int
    BY <1>1
  <2>3. rank[q] < rank[r] \/ rank[r] < rank[q]
    BY <2>1, RanksOrder
  <2> QED
    BY <2>2, <2>3
<1>3. rank \in Injection(C, T)
  BY <1>1, <1>2 DEF Injection, IsInjective
<1>4. Cardinality(C) \in Nat
  BY FS_CardinalityType
<1>5. IsFiniteSet(T) /\ Cardinality(T) = Cardinality(C)
  BY <1>4, FS_Interval
<1>6. rank \in Surjection(C, T)
  <2> HIDE DEF rank, T
  <2> QED
    BY <1>3, <1>5, FS_Injection
<1> QED
  BY <1>6 DEF Surjection

\* A page is the whole rest of the list when there is no next cursor.
LEMMA LastPageIsAll ==
  ASSUME NEW C, IsFiniteSet(C), IsList(C), NEW n \in Nat, Cardinality(C) <= n
  PROVE  Page(C, n) = C
PROOF
  BY RanksOrder, FS_CardinalityType DEF Page

\* Otherwise the cursor is that of a row of the list, and the page is exactly
\* what is not beyond it.
LEMMA PageEndsAtCursor ==
  ASSUME NEW C, IsFiniteSet(C), IsList(C), NEW n \in Nat \ {0}, Cardinality(C) > n
  PROVE  \E last \in C :
           /\ NextCursor(C, n) = [date |-> last.date, id |-> last.id]
           /\ \A r \in C : r \in Page(C, n) <=> ~Newer(last, r)
PROOF
<1> DEFINE last == CHOOSE r \in C : Rank(C, r) = n - 1
<1>1. n - 1 \in 0..(Cardinality(C) - 1)
  BY FS_CardinalityType
<1>2. last \in C /\ Rank(C, last) = n - 1
  BY <1>1, RanksAreTaken
<1>3. NextCursor(C, n) = [date |-> last.date, id |-> last.id]
  BY DEF NextCursor
<1> HIDE DEF last
<1>4. ASSUME NEW r \in C PROVE r \in Page(C, n) <=> ~Newer(last, r)
  <2>1. Rank(C, r) \in Int
    BY <1>4, RanksOrder
  <2>2. CASE Newer(last, r)
    BY <1>2, <2>1, <2>2, RanksOrder DEF Page
  <2>3. CASE r = last
    <3>1. ~Newer(last, last)
      BY <1>2, NewerOrders DEF IsList
    <3> QED
      BY <1>2, <2>3, <3>1 DEF Page
  <2>4. CASE r # last /\ ~Newer(last, r)
    <3>1. Newer(r, last)
      BY <1>2, <2>4, NewerOrders DEF IsList
    <3>2. Rank(C, r) < n - 1
      BY <1>2, <3>1, RanksOrder
    <3> QED
      BY <2>1, <2>4, <3>2 DEF Page
  <2> QED
    BY <2>2, <2>3, <2>4
<1> QED
  BY <1>2, <1>3, <1>4

-----------------------------------------------------------------------------
(* Steps. *)

\* What a page is selected from is a finite list of stored rows.
LEMMA CandidatesAreAList ==
  ASSUME PagesTypeOK, NEW f, NEW c
  PROVE  /\ IsFiniteSet(Candidates(f, c)) /\ IsList(Candidates(f, c))
         /\ \A r \in Candidates(f, c) : r.id \in ExpenseIds /\ expense[r.id] = r
         /\ \A e \in ExpenseIds :
              expense[e] # NoRow => expense[e] \in Rows /\ expense[e].id = e
         /\ \A e \in ExpenseIds :
              expense[e] # NoRow /\ Matches(expense[e], f) /\ Beyond(expense[e], c) =>
                expense[e] \in Candidates(f, c)
PROOF
<1> DEFINE C == Candidates(f, c)
<1>1. \A e \in ExpenseIds : expense[e] # NoRow => expense[e] \in Rows /\ expense[e].id = e
  BY DEF PagesTypeOK
<1>2. \A r \in C : r \in Rows /\ r.id \in ExpenseIds /\ expense[r.id] = r
  BY <1>1 DEF Candidates, Live
<1>3. IsList(C)
  BY <1>2 DEF IsList
<1>4. IsFiniteSet(C)
  <2> HIDE DEF C
  <2>1. [r \in C |-> r.id] \in Injection(C, ExpenseIds)
    BY <1>2, <1>3 DEF Injection, IsInjective, IsList
  <2> QED
    BY <2>1, FS_Injection, PagesAssumption
<1> QED
  BY <1>1, <1>2, <1>3, <1>4 DEF Candidates, Live

\* A page keeps what a walk has been promised: of what was owed, what the page
\* does not return lies beyond the next cursor; of what was seen, nothing does.
LEMMA PageKeepsPromises ==
  ASSUME PagesTypeOK, NEW f \in Filters \cup {Unfiltered}, NEW n \in Int,
         NEW c \in Cursors \cup {NoCursor},
         NEW seen \in SUBSET ExpenseIds, NEW owed \in SUBSET ExpenseIds,
         \A e \in owed : expense[e] # NoRow /\ Matches(expense[e], f) /\ Beyond(expense[e], c),
         \A e \in seen : expense[e] # NoRow /\ ~Beyond(expense[e], c),
         walk' = Walked(f, n, c, seen, owed), UNCHANGED <<expense, drawn, writes>>
  PROVE  PagesInv'
PROOF
<1> DEFINE C == Candidates(f, c)
           N == PageSize(n)
           page == Page(C, N)
           next == NextCursor(C, N)
<1>1. N \in Nat \ {0}
  BY PagesAssumption DEF PageSize
<1>2. /\ IsFiniteSet(C) /\ IsList(C) /\ C \subseteq Rows
      /\ \A r \in C : r.id \in ExpenseIds /\ expense[r.id] = r
      /\ \A e \in ExpenseIds : expense[e] # NoRow => expense[e] \in Rows /\ expense[e].id = e
      /\ \A e \in owed : expense[e] \in C
  BY CandidatesAreAList DEF IsList
<1>3. page \subseteq C
  BY DEF Page
<1>4. Ids(page) \subseteq ExpenseIds /\ \A e \in Ids(page) : expense[e] \in page
  BY <1>2, <1>3 DEF Ids
<1>5. walk' = [pc |-> IF next = NoCursor THEN "done" ELSE "open", filter |-> f, size |-> n,
               cursor |-> Encode(next), seen |-> seen \cup Ids(page), owed |-> owed \ Ids(page)]
  BY DEF Walked
<1>6. \A e \in owed \ Ids(page) : expense[e] \in C \ page
  BY <1>2 DEF Ids
<1>7. CASE Cardinality(C) > N
  <2>1. PICK last \in C :
          /\ next = [date |-> last.date, id |-> last.id]
          /\ \A r \in C : r \in page <=> ~Newer(last, r)
    BY <1>1, <1>2, <1>7, PageEndsAtCursor
  <2> HIDE DEF next, page, C, N
  <2>2. last \in Rows /\ Beyond(last, c)
    BY <1>2, <2>1 DEF C, Candidates
  <2>3. next \in Cursors /\ next # NoCursor
    BY <2>1, <2>2, PagesAssumption DEF Rows, Cursors
  <2>4. walk'.pc = "open" /\ walk'.cursor = [d |-> next.date, i |-> next.id]
    BY <1>5, <2>3 DEF Encode
  <2>5. Decode(walk'.cursor) = next
    BY <2>3, <2>4 DEF Decode, Cursors
  <2>6. \A r \in Rows : Beyond(r, next) <=> Newer(last, r)
    BY <2>1, <2>2, BeyondIsOlder
  <2>7. \A e \in owed \ Ids(page) : Beyond(expense[e], next)
    BY <1>2, <1>6, <2>1, <2>6
  <2>8. \A e \in Ids(page) : expense[e] # NoRow /\ ~Beyond(expense[e], next)
    BY <1>2, <1>3, <1>4, <2>1, <2>6, PagesAssumption
  <2>9. \A e \in seen : ~Beyond(expense[e], next)
    BY <1>2, <2>2, <2>6, BeyondIsTransitive
  <2>10. PagesTypeOK'
    BY <1>4, <1>5, <2>3, <2>4 DEF PagesTypeOK, WalkTypeOK, Cursors
  <2>11. OwedRowsAreAhead'
    BY <1>5, <2>4, <2>5, <2>7 DEF OwedRowsAreAhead
  <2>12. SeenRowsAreBehind'
    BY <1>5, <2>5, <2>8, <2>9 DEF SeenRowsAreBehind
  <2> QED
    BY <2>10, <2>11, <2>12 DEF PagesInv
<1>8. CASE ~(Cardinality(C) > N)
  <2>1. page = C
    BY <1>1, <1>2, <1>8, LastPageIsAll, FS_CardinalityType
  <2>2. next = NoCursor
    BY <1>8 DEF NextCursor
  <2> HIDE DEF next, page, C, N
  <2>3. walk'.pc = "done" /\ walk'.cursor = NoCursor /\ walk'.owed = {}
    BY <1>5, <1>6, <2>1, <2>2 DEF Encode
  <2>4. PagesTypeOK'
    BY <1>4, <1>5, <2>2, <2>3 DEF PagesTypeOK, WalkTypeOK
  <2> QED
    BY <2>3, <2>4 DEF PagesInv, OwedRowsAreAhead, SeenRowsAreBehind
<1> QED
  BY <1>7, <1>8

\* A write takes its id out of what the walk is promised and touches no other row.
LEMMA WriteKeepsPromises ==
  ASSUME PagesInv, NEW e \in ExpenseIds, NEW r \in Rows \cup {NoRow},
         r # NoRow => r.id = e, Write(e, r)
  PROVE  PagesInv'
PROOF
<1>1. /\ writes' \in 0..MaxWrites /\ drawn' \subseteq ExpenseIds
      /\ expense' = [expense EXCEPT ![e] = r] /\ drawn' = drawn \cup {e}
  BY PagesAssumption DEF PagesInv, PagesTypeOK, Write
<1>2. /\ walk'.pc = walk.pc /\ walk'.filter = walk.filter /\ walk'.cursor = walk.cursor
      /\ walk'.owed = walk.owed \ {e} /\ walk'.seen = walk.seen \ {e}
      /\ WalkTypeOK'
  <2>1. WalkTypeOK /\ walk' = [walk EXCEPT !.owed = walk.owed \ {e}, !.seen = walk.seen \ {e}]
    BY DEF PagesInv, PagesTypeOK, Write
  <2>2. /\ walk'.pc = walk.pc /\ walk'.filter = walk.filter /\ walk'.cursor = walk.cursor
        /\ walk'.owed = walk.owed \ {e} /\ walk'.seen = walk.seen \ {e}
    BY <2>1 DEF WalkTypeOK
  <2>3. ASSUME walk.pc = "idle" PROVE walk' = NoWalk
    <3>1. walk = NoWalk
      BY <2>1, <2>3 DEF WalkTypeOK
    <3>2. walk.owed \ {e} = {} /\ walk.seen \ {e} = {}
      BY <3>1 DEF NoWalk
    <3> QED
      BY <2>1, <3>1, <3>2 DEF NoWalk
  <2> QED
    BY <2>1, <2>2, <2>3 DEF WalkTypeOK
<1>3. PagesTypeOK'
  BY <1>1, <1>2 DEF PagesInv, PagesTypeOK
<1>4. \A x \in ExpenseIds \ {e} : expense'[x] = expense[x]
  BY <1>1 DEF PagesInv, PagesTypeOK
<1>5. walk.owed \subseteq ExpenseIds /\ walk.seen \subseteq ExpenseIds
  BY DEF PagesInv, PagesTypeOK, WalkTypeOK
<1>6. OwedRowsAreAhead'
  BY <1>2, <1>4, <1>5 DEF PagesInv, OwedRowsAreAhead
<1>7. SeenRowsAreBehind'
  BY <1>2, <1>4, <1>5 DEF PagesInv, SeenRowsAreBehind
<1> QED
  BY <1>3, <1>6, <1>7 DEF PagesInv

\* Every step keeps the invariant.
LEMMA PagesStep == PagesInv /\ PagesNext => PagesInv'
PROOF
<1> SUFFICES ASSUME PagesInv, PagesNext PROVE PagesInv'
  OBVIOUS
<1>1. ASSUME NEW r \in Rows, InsertExpense(r) \/ ChangeExpense(r) PROVE PagesInv'
  <2>1. r.id \in ExpenseIds /\ Write(r.id, r)
    BY <1>1 DEF InsertExpense, ChangeExpense, Rows
  <2> QED
    BY <2>1, WriteKeepsPromises
<1>2. ASSUME NEW e \in ExpenseIds, DeleteExpense(e) PROVE PagesInv'
  BY <1>2, WriteKeepsPromises DEF DeleteExpense
<1>3. ASSUME NEW f \in Filters, NEW n \in PageSizes, StartWalk(f, n) PROVE PagesInv'
  <2> DEFINE owed == Ids({r \in Live : Matches(r, f)})
  <2>1. \A e \in owed : e \in ExpenseIds /\ expense[e] # NoRow /\ Matches(expense[e], f)
    BY DEF PagesInv, PagesTypeOK, Ids, Live
  <2>2. \A e \in owed : Beyond(expense[e], NoCursor)
    BY DEF Beyond
  <2>3. n \in Int /\ walk' = Walked(f, n, NoCursor, {}, owed) /\ UNCHANGED <<expense, drawn, writes>>
    BY <1>3, PagesAssumption DEF StartWalk
  <2>4. /\ PagesTypeOK /\ f \in Filters \cup {Unfiltered} /\ NoCursor \in Cursors \cup {NoCursor}
        /\ {} \in SUBSET ExpenseIds /\ owed \in SUBSET ExpenseIds
    BY <2>1 DEF PagesInv
  <2>5. \A e \in {} : expense[e] # NoRow /\ ~Beyond(expense[e], NoCursor)
    OBVIOUS
  <2> HIDE DEF owed
  <2> QED
    BY <2>1, <2>2, <2>3, <2>4, <2>5, PageKeepsPromises
<1>4. CASE NextPage
  <2>1. /\ walk.pc = "open" /\ walk.cursor \in [d : Days, i : ExpenseIds]
        /\ walk.filter \in Filters \cup {Unfiltered} /\ walk.size \in Int
        /\ walk.owed \in SUBSET ExpenseIds /\ walk.seen \in SUBSET ExpenseIds
    BY <1>4 DEF NextPage, PagesInv, PagesTypeOK, WalkTypeOK
  <2>2. Decode(walk.cursor) \in Cursors
    BY <2>1 DEF Decode, Cursors
  <2>3. /\ walk' = Walked(walk.filter, walk.size, Decode(walk.cursor), walk.seen, walk.owed)
        /\ UNCHANGED <<expense, drawn, writes>>
    BY <1>4 DEF NextPage
  <2>4. \A e \in walk.owed : /\ expense[e] # NoRow /\ Matches(expense[e], walk.filter)
                             /\ Beyond(expense[e], Decode(walk.cursor))
    BY DEF PagesInv, OwedRowsAreAhead
  <2>5. \A e \in walk.seen : expense[e] # NoRow /\ ~Beyond(expense[e], Decode(walk.cursor))
    BY <2>1 DEF PagesInv, SeenRowsAreBehind
  <2> QED
    BY <2>1, <2>2, <2>3, <2>4, <2>5, PageKeepsPromises DEF PagesInv
<1>5. CASE BadCursor
  BY <1>5 DEF BadCursor, NoWalk, PagesInv, PagesTypeOK, WalkTypeOK, OwedRowsAreAhead, SeenRowsAreBehind
<1> QED
  BY <1>1, <1>2, <1>3, <1>4, <1>5 DEF PagesNext

\* Init.
LEMMA PagesInitInv == PagesInit => PagesInv
PROOF
  BY PagesAssumption
  DEF PagesInit, NoWalk, PagesInv, PagesTypeOK, WalkTypeOK, OwedRowsAreAhead, SeenRowsAreBehind

\* The requests about budgets do not touch expenses.
LEMMA PagesInvStep == PagesInv /\ [Next]_vars => PagesInv'
PROOF
<1>1. PagesInv /\ UNCHANGED pagesVars => PagesInv'
  BY DEF pagesVars, PagesInv, PagesTypeOK, WalkTypeOK, OwedRowsAreAhead, SeenRowsAreBehind
<1> QED
  BY <1>1, PagesStep DEF Next, vars

-----------------------------------------------------------------------------
\* PagesInv holds in every reachable state.
THEOREM PagesSafety == Spec => []PagesInv
PROOF
<1>1. Init => PagesInv
  BY PagesInitInv DEF Init
<1> QED
  BY <1>1, PagesInvStep, PTL DEF Spec

\* Pages lose nothing, for any page size and whatever is written meanwhile
\* (list_expenses).
THEOREM NothingIsSkipped == Spec => []OwedRowsAreAhead
PROOF
  BY PagesSafety, PTL DEF PagesInv

\* Pages repeat nothing (list_expenses).
THEOREM NothingIsRepeated == Spec => []SeenRowsAreBehind
PROOF
  BY PagesSafety, PTL DEF PagesInv

\* Types of the pages and of the budgets (their invariants together).
THEOREM TypeCorrect == Spec => []TypeOK
PROOF
  BY PagesSafety, BudgetsSafety, PTL DEF TypeOK, PagesInv, BudgetsInv

-----------------------------------------------------------------------------
(* Reports.  They are functions of the table: what InsightsProofs says of  *)
(* any set of expenses holds of the rows of every reachable state.         *)

\* The rows of the table are a finite set of expenses.
LEMMA LiveAreExpenses ==
  ASSUME PagesTypeOK
  PROVE  AreExpenses(Live)
PROOF
<1>1. \A r \in Live : r \in Rows /\ r.id \in ExpenseIds /\ expense[r.id] = r
  BY DEF PagesTypeOK, Live
<1>2. [r \in Live |-> r.id] \in Injection(Live, ExpenseIds)
  <2> HIDE DEF Live
  <2> QED
    BY <1>1 DEF Injection, IsInjective
<1>3. IsFiniteSet(Live)
  BY <1>2, FS_Injection, PagesAssumption
<1>4. \A r \in Live : r.amount \in Nat \ {0} /\ r.date \in Dates
  BY <1>1, PagesAssumption DEF Rows
<1> QED
  BY <1>3, <1>4 DEF AreExpenses

\* A breakdown's line of a category, of any month.
LEMMA TotalInIsTotal ==
  ASSUME PagesTypeOK, NEW month, NEW k
  PROVE  TotalIn(MonthlyBreakdown(Live, month).items, k) =
           Total(OfCategory(MonthRows(Live, month), k))
PROOF
  BY LiveAreExpenses, LineIsTotal DEF TotalIn

LEMMA TrendsFollowTable == PagesTypeOK => TrendsAgreeWithBreakdowns
PROOF
<1> SUFFICES ASSUME PagesTypeOK, NEW n \in Windows
             PROVE  LET trends == CategoryTrends(Live, Today, n) IN
                    /\ trends.months[WindowMonths(n)] = FirstOfMonth(Today)
                    /\ \A i \in 1..(WindowMonths(n) - 1) :
                         MonthEnd(trends.months[i]) = trends.months[i + 1]
                    /\ \A i \in 1..WindowMonths(n) :
                         LET items == MonthlyBreakdown(Live, trends.months[i]).items IN
                         \A k \in trends.categories : trends.buckets[<<i, k>>] = TotalIn(items, k)
  BY DEF TrendsAgreeWithBreakdowns
<1> DEFINE trends == CategoryTrends(Live, Today, n)
<1>1. n \in Int /\ Today \in Dates /\ \A r \in Live : r.date \in Dates
  BY ReportsAssumption, LiveAreExpenses DEF AreExpenses
<1>2. trends.months = BucketMonths(Today, n)
  BY DEF CategoryTrends
<1>3. ASSUME NEW i \in 1..WindowMonths(n), NEW k \in trends.categories
      PROVE  trends.buckets[<<i, k>>] = TotalIn(MonthlyBreakdown(Live, trends.months[i]).items, k)
  <2>1. trends.buckets[<<i, k>>] = Total(OfCategory(MonthRows(Live, trends.months[i]), k))
    BY <1>1, CellsAreMonths
  <2> QED
    BY <2>1, TotalInIsTotal
<1> HIDE DEF trends
<1> QED
  BY <1>1, <1>2, <1>3, MonthsFollowEachOther DEF trends

LEMMA ChartFollowsTable == PagesTypeOK => ChartHoldsAllSpend
PROOF
<1> SUFFICES ASSUME PagesTypeOK, NEW n \in Windows
             PROVE  LET buckets == CategoryTrends(Live, Today, n).buckets
                        Cell(x) == buckets[x]
                    IN MapThenSumSet(Cell, DOMAIN buckets) = Total(TrendRows(Live, Today, n))
  BY DEF ChartHoldsAllSpend
<1> DEFINE buckets == CategoryTrends(Live, Today, n).buckets
           Cell(x) == buckets[x]
<1>1. Sum(buckets, DOMAIN buckets) = Total(TrendRows(Live, Today, n))
  BY ReportsAssumption, LiveAreExpenses, CellsHoldWindow
<1>2. MapThenSumSet(Cell, DOMAIN buckets) = Sum(buckets, DOMAIN buckets)
  <2> HIDE DEF buckets
  <2> QED
    BY DEF MapThenSumSet, MapThenFoldSet, Sum, SumsUp, Some
<1> QED
  BY <1>1, <1>2

LEMMA ScoresFollowTable == PagesTypeOK => RecentRowsDoNotScoreEachOther
PROOF
<1> SUFFICES ASSUME PagesTypeOK, Report(Live).status = 200, NEW r \in Recents
             PROVE  IF Report((Live \ Recents) \cup {r}).rows = {r}
                      THEN r \in Report(Live).rows \/ Cardinality(Report(Live).rows) >= MaxAnomalyResults
                      ELSE r \notin Report(Live).rows
  BY DEF RecentRowsDoNotScoreEachOther
<1>1. AreExpenses(Live) /\ Today \in Dates /\ BaselineDays \in Int /\ LookbackDays \in Int
  BY LiveAreExpenses, ReportsAssumption
<1> QED
  BY <1>1, ScoresAreIndependent DEF Report, Recents

LEMMA StatusFollowsTable == PagesTypeOK /\ BudgetsTypeOK => StatusAgreesWithBreakdown
PROOF
<1> SUFFICES ASSUME PagesTypeOK, BudgetsTypeOK, NEW c \in BudgetClients, NEW b \in request[c].read
             PROVE  LET line == StatusLine(Live, b, Today) IN
                    /\ line.spent = TotalIn(MonthlyBreakdown(Live, Today).items, b.category)
                    /\ line.alert => line.spent * 100 >= b.threshold * b.amount
                    /\ ~line.alert => line.spent * 100 <= b.threshold * b.amount
  BY DEF StatusAgreesWithBreakdown
<1> DEFINE mine == {r \in Live : r.category = b.category /\ InMonth(r.date, Today)}
           spent == Total(mine)
<1>1. StatusLine(Live, b, Today).spent = spent /\ StatusLine(Live, b, Today).alert = Alert(spent, b)
  BY DEF StatusLine
<1>2. b \in BudgetRows
  BY DEF BudgetsTypeOK
<1>3. b.threshold \in Int /\ b.amount \in Int
  <2>1. b.threshold \in Thresholds /\ b.amount \in Limits
    BY <1>2
  <2>2. Thresholds \subseteq Int /\ Limits \subseteq Int
    BY BudgetsAssumption
  <2> QED
    BY <2>1, <2>2, Zenon
<1>4. mine = OfCategory(MonthRows(Live, Today), b.category)
  BY DEF OfCategory, MonthRows
<1>5. spent \in Int
  BY LiveAreExpenses, TotalOfPart
<1> HIDE DEF mine
<1>6. spent = TotalIn(MonthlyBreakdown(Live, Today).items, b.category)
  BY <1>4, TotalInIsTotal
<1> HIDE DEF spent
<1>7. spent * 100 \in Int /\ b.threshold * b.amount \in Int
  BY <1>3, <1>5
<1>8. /\ Alert(spent, b) => spent * 100 >= b.threshold * b.amount
      /\ ~Alert(spent, b) => spent * 100 <= b.threshold * b.amount
  BY <1>7 DEF Alert
<1> QED
  BY <1>1, <1>6, <1>8

\* The chart, its months and the breakdowns never disagree, whatever has been
\* written (category_trends, monthly_breakdown).
THEOREM TrendsAgree == Spec => []TrendsAgreeWithBreakdowns
PROOF
  BY PagesSafety, TrendsFollowTable, PTL DEF PagesInv

\* No money is lost between the months of a chart (category_trends).
THEOREM NoSpendIsLost == Spec => []ChartHoldsAllSpend
PROOF
  BY PagesSafety, ChartFollowsTable, PTL DEF PagesInv

\* An expense is unusual or not by itself (detect_anomalies).
THEOREM ScoresStandAlone == Spec => []RecentRowsDoNotScoreEachOther
PROOF
  BY PagesSafety, ScoresFollowTable, PTL DEF PagesInv

\* A budget's status and the month's breakdown agree, and the alert is on the
\* right side of the threshold (budget_status).
THEOREM StatusAgrees == Spec => []StatusAgreesWithBreakdown
PROOF
  BY PagesSafety, BudgetsSafety, StatusFollowsTable, PTL DEF PagesInv, BudgetsInv
=============================================================================
