------------------------------ MODULE Insights ------------------------------
(***************************************************************************)
(* The reports of insights_service as functions of the user's expenses.    *)
(* Each is one SELECT, so it sees one state of the table.  An expense has  *)
(* an id, a category, a date and an amount in cents; NUMERIC(12, 2) is an  *)
(* integer number of cents, and a CAST to it rounds half away from zero.   *)
(* The order of a report's lines is layout and is left out.                *)
(***************************************************************************)
EXTENDS Calendar, FiniteSets, FiniteSetsExt

CONSTANTS
  MaxTrendsMonths,     \* MAX_TRENDS_MONTHS
  MinBaselineSamples,  \* MIN_BASELINE_SAMPLES
  MaxAnomalyResults    \* MAX_ANOMALY_RESULTS

ASSUME InsightsAssumption ==
  /\ MaxTrendsMonths \in Nat \ {0}
  /\ MinBaselineSamples \in Nat \ {0, 1}
  /\ MaxAnomalyResults \in Nat

Amount(r) == r.amount
Square(r) == r.amount * r.amount
Total(R) == MapThenSumSet(Amount, R)
OfCategory(R, k) == {r \in R : r.category = k}
CategoriesOf(R) == {r.category : r \in R}

\* CAST(avg(amount) AS NUMERIC(12, 2)); amounts are positive.
Mean(R) == (2 * Total(R) + Cardinality(R)) \div (2 * Cardinality(R))

-----------------------------------------------------------------------------
(* Monthly breakdown. *)

MonthRows(R, month) == {r \in R : InMonth(r.date, month)}

CategoryTotal(R, k) ==
  [category |-> k, total |-> Total(OfCategory(R, k)),
   count |-> Cardinality(OfCategory(R, k)), average |-> Mean(OfCategory(R, k))]

LineTotal(line) == line.total
LineCount(line) == line.count

MonthlyBreakdown(R, month) ==
  LET rows == MonthRows(R, month)
      items == {CategoryTotal(rows, k) : k \in CategoriesOf(rows)}
  IN [month |-> MonthStart(month), items |-> items,
      grandTotal |-> MapThenSumSet(LineTotal, items),
      grandCount |-> MapThenSumSet(LineCount, items)]

-----------------------------------------------------------------------------
(* Trends. *)

WindowMonths(n) == IF n < 1 THEN 1 ELSE IF n > MaxTrendsMonths THEN MaxTrendsMonths ELSE n

\* Mutant: reversed(range(1, months + 1)).
BucketMonthsShifted(anchor, n) ==
  [i \in 1..WindowMonths(n) |-> MonthsBack(FirstOfMonth(anchor), WindowMonths(n) - i + 1)]

\* bucket_dates: months - 1 back from the anchor, ascending.
BucketMonths(anchor, n) ==
  [i \in 1..WindowMonths(n) |-> MonthsBack(FirstOfMonth(anchor), WindowMonths(n) - i)]

TrendRows(R, anchor, n) ==
  {r \in R : /\ NotAfter(MonthsBack(FirstOfMonth(anchor), WindowMonths(n) - 1), r.date)
             /\ Before(r.date, MonthEnd(FirstOfMonth(anchor)))}

\* The SELECT groups by date_trunc('month', date); the dense grid then looks
\* each (month, category) up and puts 0.00 where there is none.  date_trunc of a
\* DATE is a timestamptz in the session's time zone, whose .date() is the first
\* of the month because sessions run in UTC (assumed: nothing sets a time zone).
CategoryTrends(R, anchor, n) ==
  LET rows == TrendRows(R, anchor, n)
      months == BucketMonths(anchor, n)
      categories == CategoriesOf(rows) IN
  [months |-> months, categories |-> categories,
   buckets |-> [cell \in (1..WindowMonths(n)) \X categories |->
                  Total({r \in OfCategory(rows, cell[2]) : FirstOfMonth(r.date) = months[cell[1]]})]]

-----------------------------------------------------------------------------
(* Anomalies. *)

\* Mutant: the baseline reaches up to today.
BaselineToToday(R, today, baseline, lookback) ==
  {r \in R : /\ DayNumber(r.date) >= DayNumber(today) - baseline
             /\ NotAfter(r.date, today)}

Baseline(R, today, baseline, lookback) ==
  {r \in R : /\ DayNumber(r.date) >= DayNumber(today) - baseline
             /\ DayNumber(r.date) < DayNumber(today) - lookback}

Recent(R, today, lookback) ==
  {r \in R : /\ DayNumber(r.date) >= DayNumber(today) - lookback
             /\ NotAfter(r.date, today)}

\* n (n - 1) times the square of stddev_samp.
Spread(R) == Cardinality(R) * MapThenSumSet(Square, R) - Total(R) * Total(R)

\* CAST(stddev_samp(amount) AS NUMERIC(12, 2)): the s whose half-cent interval
\* holds the square root.
Stddev(R) ==
  LET pairs == Cardinality(R) * (Cardinality(R) - 1)
      top == Max({r.amount : r \in R})
  IN CHOOSE s \in 0..top :
       /\ 4 * Spread(R) < pairs * (2 * s + 1) * (2 * s + 1)
       /\ s > 0 => 4 * Spread(R) >= pairs * (2 * s - 1) * (2 * s - 1)

\* The HAVING clause: it asks the unrounded stddev_samp.
HasBaseline(B) == Cardinality(B) >= MinBaselineSamples /\ Spread(B) > 0

\* z-score >= num / den, for a deviation that is not zero.
Reaches(r, B, z) == (r.amount - Mean(B)) * z.den >= z.num * Stddev(B)

\* r has a higher z-score than q, each against its own category.
MoreUnusual(r, q, base) ==
  LET B == OfCategory(base, r.category)
      C == OfCategory(base, q.category)
  IN (r.amount - Mean(B)) * Stddev(C) > (q.amount - Mean(C)) * Stddev(B)

\* 422 when the windows overlap, 500 when the deviation of a joined row was
\* rounded to 0.00, else the report.  LIMIT keeps the highest scores; without
\* ties the set is unique.
Answer(status, rows) == [status |-> status, rows |-> rows]

Anomalies(R, today, baseline, lookback, z) ==
  LET base == Baseline(R, today, baseline, lookback)
      BaseOf(r) == OfCategory(base, r.category)
      joined == {r \in Recent(R, today, lookback) : HasBaseline(BaseOf(r))}
      found == {r \in joined : Reaches(r, BaseOf(r), z)}
  IN IF lookback >= baseline THEN Answer(422, {})
     ELSE IF \E r \in joined : Stddev(BaseOf(r)) = 0 THEN Answer(500, {})
     ELSE Answer(200, {r \in found :
            Cardinality({q \in found : MoreUnusual(q, r, base)}) < MaxAnomalyResults})
=============================================================================
