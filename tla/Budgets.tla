------------------------------- MODULE Budgets -------------------------------
(***************************************************************************)
(* Budgets and their status.  A request SELECTs the budget, writes the     *)
(* columns that its patch changes with UPDATE ... WHERE id = ..., commits, *)
(* and SELECTs again for its answer; GET /budgets/status reads the budgets *)
(* and then the spend of the month.  BudgetPeriod has the one value        *)
(* MONTHLY, so the unique key (user, category, period) is the category.    *)
(* One user: every query names the owner.                                  *)
(***************************************************************************)
EXTENDS Insights

CONSTANTS
  BudgetIds,      \* budget ids
  BudgetCategories, \* the categories that budgets are made for
  Limits,         \* budgets.amount, in cents
  Thresholds,     \* alert_threshold_pct
  NoBudget,       \* the row of an id that was not drawn yet
  GoneBudget,     \* the row of an id that was deleted
  Absent,         \* a field that a patch does not name
  Null,           \* a field that a patch sets to null
  StoredBudgets,  \* the rows that the budgets table holds at first
  NewBudgets,     \* the bodies of POST requests
  BudgetPatches,  \* the bodies of PATCH requests
  BudgetClients,  \* API clients, one request at a time
  MaxBudgetWrites \* bound: budgets written in a behaviour

BudgetRows ==
  [category : BudgetCategories, amount : Limits, threshold : Thresholds, active : BOOLEAN]
Fields == {"category", "amount", "threshold", "active"}

ASSUME BudgetsAssumption ==
  /\ Limits \subseteq Nat \ {0} /\ Thresholds \subseteq 1..200
  /\ NoBudget \notin BudgetRows /\ GoneBudget \notin BudgetRows /\ NoBudget # GoneBudget
  /\ StoredBudgets \in [BudgetIds -> BudgetRows \cup {NoBudget}]
  /\ \A a, b \in BudgetIds : a # b /\ NoBudget \notin {StoredBudgets[a], StoredBudgets[b]} =>
       StoredBudgets[a].category # StoredBudgets[b].category
  /\ NewBudgets \subseteq BudgetRows
  /\ BudgetPatches \subseteq [category : BudgetCategories \cup {Absent, Null},
                              amount : Limits \cup {Absent, Null},
                              threshold : Thresholds \cup {Absent, Null},
                              active : BOOLEAN \cup {Absent, Null}]
  /\ \A unnamed \in {Absent, Null} :
       /\ unnamed \notin BudgetCategories /\ unnamed \notin Limits
       /\ unnamed \notin Thresholds /\ unnamed \notin BOOLEAN
  /\ Absent # Null
  /\ MaxBudgetWrites \in Nat

VARIABLES
  budget,        \* the budgets table
  budgetWrites,  \* writes so far
  request        \* the request that each client has open

budgetVars == <<budget, budgetWrites, request>>

NoPatch == [f \in Fields |-> Absent]
Request(pc, b, p, row, R) == [pc |-> pc, id |-> b, patch |-> p, seen |-> row, read |-> R]
IdleRequest == Request("idle", Absent, NoPatch, NoBudget, {})

Exists(b) == budget[b] \notin {NoBudget, GoneBudget}
Close(c) == request' = [request EXCEPT ![c] = IdleRequest]
Await(c, b) == request' = [request EXCEPT ![c] = Request("refresh", b, NoPatch, NoBudget, {})]

\* Mutant: a partial unique index, on active budgets only.
TakenByActive(b, k) == \E o \in BudgetIds \ {b} : Exists(o) /\ budget[o].category = k /\ budget[o].active

\* uq_budget_per_category_period: paused budgets count.
Taken(b, k) == \E o \in BudgetIds \ {b} : Exists(o) /\ budget[o].category = k

BudgetsInit ==
  /\ budget = StoredBudgets
  /\ budgetWrites = 0
  /\ request = [c \in BudgetClients |-> IdleRequest]

-----------------------------------------------------------------------------
(* POST: BudgetAlreadyExistsError rolls back and is answered with 409. *)

CreateBudget(c, b, new) ==
  /\ request[c].pc = "idle" /\ budget[b] = NoBudget /\ ~Taken(b, new.category)
  /\ budgetWrites < MaxBudgetWrites /\ budgetWrites' = budgetWrites + 1
  /\ budget' = [budget EXCEPT ![b] = new]
  /\ Await(c, b)

\* session.refresh for the answer; it raises on a row that is gone.
RefreshBudget(c) ==
  /\ request[c].pc = "refresh"
  /\ Close(c)
  /\ UNCHANGED <<budget, budgetWrites>>

-----------------------------------------------------------------------------
(* PATCH. *)

\* get_budget; an empty body is a 400, a missing row a 404.
PatchBudget(c, b, p) ==
  /\ request[c].pc = "idle" /\ Exists(b) /\ p # NoPatch
  /\ request' = [request EXCEPT ![c] = Request("patch", b, p, budget[b], {})]
  /\ UNCHANGED <<budget, budgetWrites>>

\* The columns the ORM finds dirty.
DirtyFields(c) ==
  {f \in Fields : request[c].patch[f] \notin {Absent, request[c].seen[f]}}

\* Mutant: every column is written as it was read.
UpdatedInFull(c) ==
  [f \in Fields |-> IF f \in DirtyFields(c) THEN request[c].patch[f] ELSE request[c].seen[f]]

\* The row after the UPDATE, whose other columns keep what the table holds.
Updated(c) ==
  [f \in Fields |-> IF f \in DirtyFields(c) THEN request[c].patch[f] ELSE budget[request[c].id][f]]

\* Mutant: the columns are nullable.
NullAllowed(c) == FALSE

\* A column that is NOT NULL is set to null.
NullIsWritten(c) == \E f \in DirtyFields(c) : request[c].patch[f] = Null

\* flush and commit.
CommitPatch(c) ==
  /\ request[c].pc = "patch" /\ DirtyFields(c) # {} /\ Exists(request[c].id)
  /\ ~NullIsWritten(c)
  /\ ~Taken(request[c].id, Updated(c).category)
  /\ budgetWrites < MaxBudgetWrites /\ budgetWrites' = budgetWrites + 1
  /\ budget' = [budget EXCEPT ![request[c].id] = Updated(c)]
  /\ Await(c, request[c].id)

\* Nothing differs from what was read: no UPDATE.
CommitNothing(c) ==
  /\ request[c].pc = "patch" /\ DirtyFields(c) = {}
  /\ Await(c, request[c].id)
  /\ UNCHANGED <<budget, budgetWrites>>

\* IntegrityError: the category is taken, or a column that is NOT NULL was set
\* to null.  Both are answered with 409.
PatchConflicts(c) ==
  /\ request[c].pc = "patch" /\ Exists(request[c].id)
  /\ \/ NullIsWritten(c)
     \/ "category" \in DirtyFields(c) /\ Taken(request[c].id, request[c].patch.category)
  /\ Close(c)
  /\ UNCHANGED <<budget, budgetWrites>>

\* The UPDATE finds no row: StaleDataError, a 500.
PatchOfGoneBudget(c) ==
  /\ request[c].pc = "patch" /\ DirtyFields(c) # {} /\ ~Exists(request[c].id)
  /\ Close(c)
  /\ UNCHANGED <<budget, budgetWrites>>

-----------------------------------------------------------------------------
(* DELETE. *)

ReadForDelete(c, b) ==
  /\ request[c].pc = "idle" /\ Exists(b)
  /\ request' = [request EXCEPT ![c] = Request("delete", b, NoPatch, NoBudget, {})]
  /\ UNCHANGED <<budget, budgetWrites>>

\* A row that is gone already is a warning of the ORM, no error.
DeleteBudget(c) ==
  /\ request[c].pc = "delete"
  /\ budget' = [budget EXCEPT ![request[c].id] = GoneBudget]
  /\ Close(c)
  /\ UNCHANGED budgetWrites

-----------------------------------------------------------------------------
(* GET /budgets/status. *)

\* list_budgets without the paused ones.
ActiveBudgets == {budget[b] : b \in {i \in BudgetIds : Exists(i) /\ budget[i].active}}

\* The first SELECT; with no active budget the report is empty at once.
ReadForStatus(c) ==
  /\ request[c].pc = "idle" /\ ActiveBudgets # {}
  /\ request' = [request EXCEPT ![c] =
       Request("spend", Absent, NoPatch, NoBudget, ActiveBudgets)]
  /\ UNCHANGED <<budget, budgetWrites>>

\* The whole percentages t for which the doubles give (t / 100) * 100 < t.
RoundsDown == {29, 57, 58, 113, 114, 115, 116}

\* Mutant: the ratio is cut to whole percents before it is compared.
AlertOfWholePercent(spent, b) == (spent * 100) \div b.amount > b.threshold

\* float(spent / amount) * 100 >= threshold.  Amounts are cents below 10^9, so
\* the error of two roundings counts only when spent is the threshold exactly.
Alert(spent, b) ==
  \/ spent * 100 > b.threshold * b.amount
  \/ spent * 100 = b.threshold * b.amount /\ b.threshold \notin RoundsDown

\* The second SELECT, by which the answer is made: one line for a budget.
StatusLine(R, b, today) ==
  LET spent == Total({r \in R : r.category = b.category /\ InMonth(r.date, today)}) IN
  [category |-> b.category, spent |-> spent, remaining |-> b.amount - spent,
   alert |-> Alert(spent, b)]

AnswerStatus(c) ==
  /\ request[c].pc = "spend"
  /\ Close(c)
  /\ UNCHANGED <<budget, budgetWrites>>

-----------------------------------------------------------------------------
BudgetStep(c) ==
  \/ \E b \in BudgetIds :
       \/ \E new \in NewBudgets : CreateBudget(c, b, new)
       \/ \E p \in BudgetPatches : PatchBudget(c, b, p)
       \/ ReadForDelete(c, b)
  \/ RefreshBudget(c) \/ CommitPatch(c) \/ CommitNothing(c) \/ PatchConflicts(c)
  \/ PatchOfGoneBudget(c) \/ DeleteBudget(c) \/ ReadForStatus(c) \/ AnswerStatus(c)

BudgetsNext == \E c \in BudgetClients : BudgetStep(c)

BudgetsTypeOK ==
  /\ budget \in [BudgetIds -> BudgetRows \cup {NoBudget, GoneBudget}]
  /\ budgetWrites \in 0..MaxBudgetWrites
  /\ request \in [BudgetClients ->
       [pc : {"idle", "patch", "refresh", "delete", "spend"}, id : BudgetIds \cup {Absent},
        patch : BudgetPatches \cup {NoPatch}, seen : BudgetRows \cup {NoBudget},
        read : SUBSET BudgetRows]]

\* A category has one budget, the paused ones included, whatever creations,
\* recategorisations and reactivations race between their SELECT and their
\* commit (uq_budget_per_category_period).
OneBudgetPerCategory ==
  \A a, b \in BudgetIds :
    a # b /\ Exists(a) /\ Exists(b) => budget[a].category # budget[b].category

\* What one step does to a budget that stays.
WriteIsAPatch ==
  \A b \in BudgetIds : Exists(b) /\ Exists(b)' /\ budget'[b] # budget[b] =>
    \E c \in BudgetClients :
      /\ request[c].pc = "patch" /\ request[c].id = b
      /\ \A f \in Fields : budget'[b][f] # budget[b][f] => budget'[b][f] = request[c].patch[f]

\* Two patches of one budget merge: a commit never takes back a field that its
\* own patch does not name, however old the row is that it was computed from
\* (update_budget sets attributes, the ORM writes the dirty ones).
PatchesMerge == [][WriteIsAPatch]_budgetVars
=============================================================================
