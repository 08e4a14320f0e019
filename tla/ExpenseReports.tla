--------------------------- MODULE ExpenseReports ---------------------------
(***************************************************************************)
(* What users read of their expenses: pages, monthly breakdowns, trends,   *)
(* anomalies and the status of budgets, over one table that changes.       *)
(***************************************************************************)
EXTENDS ExpensePages, Budgets

CONSTANTS
  Today,      \* the date of the requests
  Windows,    \* trends are asked for this many months
  BaselineDays, LookbackDays,  \* parameters of the anomaly report
  ZThreshold  \* its threshold, as a fraction

ASSUME ReportsAssumption ==
  /\ Today \in Dates
  /\ Windows \subseteq Int
  /\ BaselineDays \in Nat /\ LookbackDays \in Nat

vars == <<pagesVars, budgetVars>>

Init == PagesInit /\ BudgetsInit

Next ==
  \/ PagesNext /\ UNCHANGED budgetVars
  \/ BudgetsNext /\ UNCHANGED pagesVars

Spec == Init /\ [][Next]_vars

\* Types of both parts.
TypeOK == PagesTypeOK /\ BudgetsTypeOK

\* What a breakdown says of a category.
TotalIn(items, k) == MapThenSumSet(LineTotal, {x \in items : x.category = k})

\* The months of a chart follow each other and end with the anchor's, over any
\* year boundary, and every cell is that month's line of the breakdown, or zero
\* (category_trends and monthly_breakdown compute months in different ways).
TrendsAgreeWithBreakdowns ==
  \A n \in Windows :
    LET trends == CategoryTrends(Live, Today, n) IN
    /\ trends.months[WindowMonths(n)] = FirstOfMonth(Today)
    /\ \A i \in 1..(WindowMonths(n) - 1) : MonthEnd(trends.months[i]) = trends.months[i + 1]
    /\ \A i \in 1..WindowMonths(n) :
         LET items == MonthlyBreakdown(Live, trends.months[i]).items IN
         \A k \in trends.categories : trends.buckets[<<i, k>>] = TotalIn(items, k)

\* No money is lost between the months of a chart: its cells add up to the
\* expenses dated in its window (category_trends looks the sums of the query up
\* by the month starts it has computed itself).
ChartHoldsAllSpend ==
  \A n \in Windows :
    LET buckets == CategoryTrends(Live, Today, n).buckets
        Cell(x) == buckets[x]
    IN MapThenSumSet(Cell, DOMAIN buckets) = Total(TrendRows(Live, Today, n))

Report(R) == Anomalies(R, Today, BaselineDays, LookbackDays, ZThreshold)
Recents == Recent(Live, Today, LookbackDays)

\* The purpose of two windows: whether an expense is unusual does not depend on
\* the other expenses of the lookback, save for the cut at the maximum, which
\* keeps the highest scores (detect_anomalies).
RecentRowsDoNotScoreEachOther ==
  LET report == Report(Live) IN
  report.status = 200 =>
    \A r \in Recents :
      IF Report((Live \ Recents) \cup {r}).rows = {r}
        THEN r \in report.rows \/ Cardinality(report.rows) >= MaxAnomalyResults
        ELSE r \notin report.rows

\* What a status says of a budget's spend is what the breakdown of the month
\* says of its category, and the alert agrees with it: never on below the
\* threshold and never off above it (budget_status).
StatusAgreesWithBreakdown ==
  \A c \in BudgetClients : \A b \in request[c].read :
    LET line == StatusLine(Live, b, Today) IN
    /\ line.spent = TotalIn(MonthlyBreakdown(Live, Today).items, b.category)
    /\ line.alert => line.spent * 100 >= b.threshold * b.amount
    /\ ~line.alert => line.spent * 100 <= b.threshold * b.amount

\* What the decision records say of identical amounts: the HAVING clause keeps
\* a deviation of zero away from the division, so the report is always made.
AnomalyReportIsMade == Report(Live).status # 500
=============================================================================
