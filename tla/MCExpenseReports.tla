-------------------------- MODULE MCExpenseReports --------------------------
(* Instances of ExpenseReports for TLC. *)
EXTENDS ExpenseReports, TLC

CONSTANTS food, travel, p, q

MCCategories == {food, travel}
MCToday == Date(2024, 1, 5)
Old == Date(2022, 12, 31)
YearEnd == Date(2023, 12, 31)
NewYear == Date(2024, 1, 1)
Row(i, k, a, d) == [id |-> i, category |-> k, amount |-> a, date |-> d]

\* Three expenses of one category, two of them on one day, the third recent and
\* unusual; id 2 is still to be drawn.
MCDays == {Old, YearEnd, NewYear}
MCStored == (1 :> Row(1, food, 10, YearEnd)) @@ (2 :> NoRow)
              @@ (3 :> Row(3, food, 13, YearEnd)) @@ (4 :> Row(4, food, 20, NewYear))

\* One category in a range of dates and amounts, open at one end.
MCFilters ==
  {[category |-> food, from |-> YearEnd, to |-> Unfiltered, least |-> 10, most |-> 20]}

\* One budget is there; the other one is paused and keeps its category taken.
MCBudgetIds == {p, q}
FoodBudget == [category |-> food, amount |-> 26, threshold |-> 76, active |-> TRUE]
PausedBudget == [category |-> travel, amount |-> 20, threshold |-> 76, active |-> FALSE]
MCStoredBudgets == (p :> FoodBudget) @@ (q :> NoBudget)
MCNewBudgets == {PausedBudget}
Patch(f, v) == [NoPatch EXCEPT ![f] = v]
MCPatches == {Patch("category", travel), Patch("active", FALSE), Patch("amount", Null)}

\* One deviation above the mean.
MCZ == [num |-> 1, den |-> 1]

\* Five amounts that differ by a cent; the sixth expense is still to come.
SteadyIds == 1..6
SteadyStored ==
  [i \in SteadyIds |-> IF i = 6 THEN NoRow ELSE Row(i, food, IF i = 5 THEN 1001 ELSE 1000, YearEnd)]
NoBudgets == [b \in {} |-> NoBudget]

\* Clients are interchangeable.
BudgetClientSymmetry == Permutations(BudgetClients)
=============================================================================
