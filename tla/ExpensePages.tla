---------------------------- MODULE ExpensePages ----------------------------
(***************************************************************************)
(* GET /expenses: a client walks the list page by page while rows are      *)
(* inserted, changed and deleted.  The list is ordered by date and id,     *)
(* newest first; a cursor is the sort key of the last row of a page, and   *)
(* the next page is what lies strictly beyond it.  One page is one SELECT. *)
(*                                                                         *)
(* Ids stand for UUIDs in their order.  The filter on merchant_name is,    *)
(* like the one on category, a predicate of one column and is left out.    *)
(* One user: every query names the owner.                                  *)
(***************************************************************************)
EXTENDS Calendar, FiniteSets

CONSTANTS
  ExpenseIds,   \* ids, comparable as integers
  Categories,   \* ExpenseCategory
  Amounts,      \* amounts in cents
  Days,         \* the dates that expenses are given
  NoRow,        \* the row of an id that was not drawn yet, or was deleted
  Stored,       \* the rows that the table holds at first
  Unfiltered,   \* a query parameter that is not given
  Filters,      \* the filters that clients list with
  PageSizes,    \* the page_size they ask for
  MaxPageSize,  \* MAX_PAGE_SIZE
  NoCursor,     \* no cursor parameter; no next_cursor
  MaxWrites     \* bound: writes in a behaviour

Rows == [id : ExpenseIds, category : Categories, amount : Amounts, date : Days]
Cursors == [date : Days, id : ExpenseIds]

ASSUME PagesAssumption ==
  /\ ExpenseIds \subseteq Nat /\ IsFiniteSet(ExpenseIds)
  /\ Days \subseteq Dates
  /\ Amounts \subseteq Nat \ {0}
  /\ NoRow \notin Rows
  /\ Stored \in [ExpenseIds -> Rows \cup {NoRow}]
  /\ \A e \in ExpenseIds : Stored[e] # NoRow => Stored[e].id = e
  /\ Filters \subseteq [category : Categories \cup {Unfiltered},
                        from : Days \cup {Unfiltered}, to : Days \cup {Unfiltered},
                        least : Amounts \cup {Unfiltered}, most : Amounts \cup {Unfiltered}]
  /\ PageSizes \subseteq Int
  /\ MaxPageSize \in Nat \ {0}
  /\ NoCursor \notin Cursors
  /\ MaxWrites \in Nat

VARIABLES
  expense,  \* the expenses table
  drawn,    \* ids that were ever used
  writes,   \* writes so far
  walk      \* one client's walk through the pages

pagesVars == <<expense, drawn, writes, walk>>

\* owed and seen are history: the ids that were on the list when the walk
\* began, and those it returned, both without the ids written to since.
NoWalk == [pc |-> "idle", filter |-> Unfiltered, size |-> 1, cursor |-> NoCursor,
           owed |-> {}, seen |-> {}]

Live == {expense[e] : e \in {i \in ExpenseIds : expense[i] # NoRow}}

PagesInit ==
  /\ expense = Stored
  /\ drawn = {e \in ExpenseIds : Stored[e] # NoRow}
  /\ writes = 0
  /\ walk = NoWalk

-----------------------------------------------------------------------------
(* Writes: create_expense and the bookings, update_expense, delete_expense, *)
(* each at its commit; ExpenseEdit has their inner steps.                  *)

Write(e, r) ==
  /\ writes < MaxWrites
  /\ writes' = writes + 1
  /\ expense' = [expense EXCEPT ![e] = r]
  /\ drawn' = drawn \cup {e}
  /\ walk' = [walk EXCEPT !.owed = @ \ {e}, !.seen = @ \ {e}]

InsertExpense(r) == r.id \notin drawn /\ Write(r.id, r)
ChangeExpense(r) == expense[r.id] \notin {NoRow, r} /\ Write(r.id, r)
DeleteExpense(e) == expense[e] # NoRow /\ Write(e, NoRow)

-----------------------------------------------------------------------------
(* The query. *)

Given(parameter, bound) == parameter = Unfiltered \/ bound

Matches(r, f) ==
  /\ Given(f.category, r.category = f.category)
  /\ Given(f.from, NotAfter(f.from, r.date))
  /\ Given(f.to, NotAfter(r.date, f.to))
  /\ Given(f.least, r.amount >= f.least)
  /\ Given(f.most, r.amount <= f.most)

\* ORDER BY expense_date DESC, id DESC: a comes before b.
Newer(a, b) == Before(b.date, a.date) \/ (a.date = b.date /\ a.id > b.id)

\* Mutant: the cursor compares dates only.
BeyondByDate(r, c) == c = NoCursor \/ Before(r.date, c.date)

\* Mutant: the cursor's own row belongs to the next page.
BeyondInclusive(r, c) ==
  c = NoCursor \/ Before(r.date, c.date) \/ (r.date = c.date /\ r.id <= c.id)

\* The keyset predicate.
Beyond(r, c) ==
  c = NoCursor \/ Before(r.date, c.date) \/ (r.date = c.date /\ r.id < c.id)

\* The query parameter is JSON of the two fields, and decode() reads it back
\* or answers 400.
Encode(c) == IF c = NoCursor THEN NoCursor ELSE [d |-> c.date, i |-> c.id]
Decode(raw) == [date |-> raw.d, id |-> raw.i]

PageSize(n) == IF n < 1 THEN 1 ELSE IF n > MaxPageSize THEN MaxPageSize ELSE n

Candidates(f, c) == {r \in Live : Matches(r, f) /\ Beyond(r, c)}
Rank(C, r) == Cardinality({q \in C : Newer(q, r)})

\* ORDER BY ... LIMIT page_size + 1, cut to page_size rows.
Page(C, n) == {r \in C : Rank(C, r) < n}

\* rows[page_size - 1], if the extra row was there.
NextCursor(C, n) ==
  IF Cardinality(C) > n
    THEN LET last == CHOOSE r \in C : Rank(C, r) = n - 1 IN [date |-> last.date, id |-> last.id]
    ELSE NoCursor

Ids(R) == {r.id : r \in R}

\* What the client holds after a page that was asked for with cursor c.
Walked(f, n, c, seen, owed) ==
  LET C == Candidates(f, c)
      next == NextCursor(C, PageSize(n)) IN
  [pc |-> IF next = NoCursor THEN "done" ELSE "open", filter |-> f, size |-> n,
   cursor |-> Encode(next), seen |-> seen \cup Ids(Page(C, PageSize(n))),
   owed |-> owed \ Ids(Page(C, PageSize(n)))]

\* The first page.
StartWalk(f, n) ==
  /\ walk.pc = "idle"
  /\ walk' = Walked(f, n, NoCursor, {}, Ids({r \in Live : Matches(r, f)}))
  /\ UNCHANGED <<expense, drawn, writes>>

\* A later page: the client sends next_cursor back with the same filter.
NextPage ==
  /\ walk.pc = "open"
  /\ walk' = Walked(walk.filter, walk.size, Decode(walk.cursor), walk.seen, walk.owed)
  /\ UNCHANGED <<expense, drawn, writes>>

\* A cursor that does not decode is answered with 400, and the client gives up.
BadCursor ==
  /\ walk.pc = "open"
  /\ walk' = NoWalk
  /\ UNCHANGED <<expense, drawn, writes>>

PagesNext ==
  \/ \E r \in Rows : InsertExpense(r) \/ ChangeExpense(r)
  \/ \E e \in ExpenseIds : DeleteExpense(e)
  \/ \E f \in Filters, n \in PageSizes : StartWalk(f, n)
  \/ NextPage \/ BadCursor

-----------------------------------------------------------------------------
WalkTypeOK ==
  /\ walk \in [pc : {"idle", "open", "done"}, filter : Filters \cup {Unfiltered}, size : Int,
              cursor : [d : Days, i : ExpenseIds] \cup {NoCursor},
              owed : SUBSET ExpenseIds, seen : SUBSET ExpenseIds]
  /\ walk.pc = "idle" => walk = NoWalk
  /\ walk.pc = "open" => walk.cursor \in [d : Days, i : ExpenseIds]

PagesTypeOK ==
  /\ expense \in [ExpenseIds -> Rows \cup {NoRow}]
  /\ \A e \in ExpenseIds : expense[e] # NoRow => expense[e].id = e /\ e \in drawn
  /\ drawn \subseteq ExpenseIds
  /\ writes \in 0..MaxWrites
  /\ WalkTypeOK

\* Pages lose nothing: a row that matched when the walk began and was not
\* written to since is still to come while there is a next_cursor, and was
\* returned once there is none (list_expenses, the keyset predicate).
OwedRowsAreAhead ==
  \A e \in walk.owed :
    /\ walk.pc = "open"
    /\ expense[e] # NoRow /\ Matches(expense[e], walk.filter)
    /\ Beyond(expense[e], Decode(walk.cursor))

\* Pages repeat nothing: a row that was returned and not written to since is
\* not among what the next page selects from, whatever was inserted around it.
SeenRowsAreBehind ==
  \A e \in walk.seen :
    walk.pc = "open" => expense[e] # NoRow /\ ~Beyond(expense[e], Decode(walk.cursor))
=============================================================================
