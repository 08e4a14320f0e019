---------------------------- MODULE InsightsProofs ----------------------------
(***************************************************************************)
(* What Insights computes, for every date, number of months and finite set *)
(* of expenses: months (counted from year 0, so that going back is         *)
(* subtraction), totals, rounded deviations, day numbers and scores.       *)
(***************************************************************************)
EXTENDS Insights, FiniteSetFacts

Months == [y : Int, m : 1..12, d : {1}]
Count(a) == 12 * a.y + a.m

\* A month is its count.
LEMMA CountNamesMonth ==
  ASSUME NEW a \in Months, NEW b \in Months, Count(a) = Count(b)
  PROVE  a = b
PROOF
<1>1. a.y = b.y /\ a.m = b.m /\ a.d = b.d
  BY DEF Count, Months
<1> QED
  BY <1>1 DEF Months

\* The first of a month has the count of its dates.
LEMMA FirstIsMonth ==
  ASSUME NEW a \in [y : Int, m : 1..12, d : 1..31]
  PROVE  FirstOfMonth(a) \in Months /\ Count(FirstOfMonth(a)) = Count(a)
PROOF
  BY DEF FirstOfMonth, Date, Months, Count

\* The end of a month is the next one.
LEMMA EndIsNextMonth ==
  ASSUME NEW a \in [y : Int, m : 1..12, d : 1..31]
  PROVE  MonthEnd(a) \in Months /\ Count(MonthEnd(a)) = Count(a) + 1
PROOF
  BY DEF MonthEnd, Date, Months, Count

\* The loop of _months_back ends, and has gone back n months then.
LEMMA BackIsSubtraction ==
  ASSUME NEW a \in Months, NEW n \in Nat
  PROVE  MonthsBack(a, n) \in Months /\ Count(MonthsBack(a, n)) = Count(a) - n
PROOF
<1> DEFINE turns == CHOOSE k \in 0..n : a.m - n + 12 * k \in 1..12
           once == (n + 12 - a.m) \div 12
<1>1. a.m \in 1..12 /\ a.y \in Int
  BY DEF Months
<1>2. once \in 0..n /\ a.m - n + 12 * once \in 1..12
  <2>1. PICK x \in Nat : x = n + 12 - a.m
    BY <1>1
  <2>2. PICK q \in Nat : q = x \div 12 /\ 12 * q <= x /\ x < 12 * q + 12
    OBVIOUS
  <2>3. once = q /\ x <= n + 11
    BY <1>1, <2>1, <2>2
  <2>4. q <= n
    BY <2>2, <2>3
  <2>5. a.m - n + 12 * q \in 1..12
    BY <1>1, <2>1, <2>2
  <2> HIDE DEF once
  <2> QED
    BY <2>3, <2>4, <2>5
<1>3. turns \in 0..n /\ a.m - n + 12 * turns \in 1..12
  BY <1>2
<1>4. MonthsBack(a, n) = Date(a.y - turns, a.m - n + 12 * turns, 1)
  BY DEF MonthsBack
<1> HIDE DEF turns
<1> QED
  BY <1>1, <1>3, <1>4 DEF Date, Months, Count

\* A date lies between the starts of two months if and only if its own month does.
LEMMA DatesFollowMonths ==
  ASSUME NEW date \in Dates, NEW a \in Months
  PROVE  /\ NotAfter(a, date) <=> Count(a) <= Count(date)
         /\ Before(date, a) <=> Count(date) < Count(a)
PROOF
<1>1. /\ date.y \in Int /\ date.m \in 1..12 /\ date.d \in 1..31
      /\ a.y \in Int /\ a.m \in 1..12 /\ a.d = 1
  BY DEF Dates, Months
<1>2. Before(date, a) <=> Count(date) < Count(a)
  BY <1>1 DEF Before, Count
<1>3. NotAfter(a, date) <=> Count(a) <= Count(date)
  <2>1. CASE Count(a) < Count(date)
    BY <1>1, <2>1 DEF Before, NotAfter, Count
  <2>2. CASE Count(date) < Count(a)
    BY <1>1, <2>2 DEF Before, NotAfter, Count
  <2>3. CASE Count(a) = Count(date)
    <3>1. a.y = date.y /\ a.m = date.m
      BY <1>1, <2>3 DEF Count
    <3>2. date.d = 1 => a = date
      BY <1>1, <3>1 DEF Dates, Months
    <3> QED
      BY <1>1, <2>3, <3>1, <3>2 DEF Before, NotAfter, Count
  <2> QED
    BY <1>1, <2>1, <2>2, <2>3 DEF Count
<1> QED
  BY <1>2, <1>3

-----------------------------------------------------------------------------
\* The window has at least a month.
LEMMA WindowIsPositive ==
  ASSUME NEW n \in Int
  PROVE  WindowMonths(n) \in Nat \ {0}
PROOF
  BY InsightsAssumption DEF WindowMonths

\* Month i of a chart, by its count.
LEMMA BucketIsMonth ==
  ASSUME NEW anchor \in Dates, NEW n \in Int, NEW i \in 1..WindowMonths(n)
  PROVE  /\ BucketMonths(anchor, n)[i] \in Months
         /\ Count(BucketMonths(anchor, n)[i]) = Count(anchor) - WindowMonths(n) + i
PROOF
<1>1. anchor \in [y : Int, m : 1..12, d : 1..31]
  BY DEF Dates
<1>2. WindowMonths(n) - i \in Nat /\ WindowMonths(n) \in Int
  BY WindowIsPositive
<1>3. FirstOfMonth(anchor) \in Months /\ Count(FirstOfMonth(anchor)) = Count(anchor)
  BY <1>1, FirstIsMonth
<1>4. BucketMonths(anchor, n)[i] = MonthsBack(FirstOfMonth(anchor), WindowMonths(n) - i)
  BY DEF BucketMonths
<1>5. Count(anchor) \in Int
  BY <1>1 DEF Count
<1> QED
  BY <1>2, <1>3, <1>4, <1>5, BackIsSubtraction

\* The months of a chart follow each other and end with the anchor's, over any
\* year boundary (bucket_dates, _months_back).
THEOREM MonthsFollowEachOther ==
  ASSUME NEW anchor \in Dates, NEW n \in Int
  PROVE  /\ BucketMonths(anchor, n)[WindowMonths(n)] = FirstOfMonth(anchor)
         /\ \A i \in 1..(WindowMonths(n) - 1) :
              MonthEnd(BucketMonths(anchor, n)[i]) = BucketMonths(anchor, n)[i + 1]
PROOF
<1> DEFINE N == WindowMonths(n)
           B == BucketMonths(anchor, n)
<1>1. N \in Nat \ {0}
  BY WindowIsPositive
<1>2. anchor \in [y : Int, m : 1..12, d : 1..31] /\ Count(anchor) \in Int
  BY DEF Dates, Count
<1>3. B[N] = FirstOfMonth(anchor)
  <2>1. N \in 1..N
    BY <1>1
  <2>2. B[N] \in Months /\ Count(B[N]) = Count(anchor) - N + N
    BY <2>1, BucketIsMonth
  <2>3. Count(B[N]) = Count(FirstOfMonth(anchor)) /\ FirstOfMonth(anchor) \in Months
    BY <1>1, <1>2, <2>2, FirstIsMonth
  <2> QED
    BY <2>2, <2>3, CountNamesMonth
<1>4. ASSUME NEW i \in 1..(N - 1) PROVE MonthEnd(B[i]) = B[i + 1]
  <2>1. i \in 1..N /\ i + 1 \in 1..N
    BY <1>1
  <2>2. /\ B[i] \in Months /\ Count(B[i]) = Count(anchor) - N + i
        /\ B[i + 1] \in Months /\ Count(B[i + 1]) = Count(anchor) - N + (i + 1)
    BY <2>1, BucketIsMonth
  <2>3. B[i] \in [y : Int, m : 1..12, d : 1..31]
    BY <2>2 DEF Months
  <2>4. MonthEnd(B[i]) \in Months /\ Count(MonthEnd(B[i])) = Count(B[i]) + 1
    BY <2>3, EndIsNextMonth
  <2>5. Count(MonthEnd(B[i])) = Count(B[i + 1])
    BY <1>1, <1>2, <2>2, <2>4
  <2> QED
    BY <2>2, <2>4, <2>5, CountNamesMonth
<1> QED
  BY <1>3, <1>4

\* The rows of the window are those of the months in it.
LEMMA WindowRowsAreOfMonths ==
  ASSUME NEW R, \A r \in R : r.date \in Dates, NEW anchor \in Dates, NEW n \in Int, NEW r \in R
  PROVE  r \in TrendRows(R, anchor, n) <=>
           /\ Count(anchor) - WindowMonths(n) + 1 <= Count(r.date)
           /\ Count(r.date) <= Count(anchor)
PROOF
<1> DEFINE N == WindowMonths(n)
           first == MonthsBack(FirstOfMonth(anchor), N - 1)
           end == MonthEnd(FirstOfMonth(anchor))
<1>1. N \in Nat \ {0}
  BY WindowIsPositive
<1>2. /\ anchor \in [y : Int, m : 1..12, d : 1..31] /\ Count(anchor) \in Int
      /\ r.date \in Dates /\ Count(r.date) \in Int
  BY DEF Dates, Count
<1>3. FirstOfMonth(anchor) \in Months /\ Count(FirstOfMonth(anchor)) = Count(anchor)
  BY <1>2, FirstIsMonth
<1>4. N - 1 \in Nat
  BY <1>1
<1>5. first \in Months /\ Count(first) = Count(anchor) - (N - 1)
  BY <1>3, <1>4, BackIsSubtraction
<1>6. FirstOfMonth(anchor) \in [y : Int, m : 1..12, d : 1..31]
  BY <1>3 DEF Months
<1>7. end \in Months /\ Count(end) = Count(anchor) + 1
  BY <1>3, <1>6, EndIsNextMonth
<1>8. r \in TrendRows(R, anchor, n) <=> NotAfter(first, r.date) /\ Before(r.date, end)
  BY DEF TrendRows
<1> HIDE DEF first, end, N
<1>9. NotAfter(first, r.date) <=> Count(first) <= Count(r.date)
  BY <1>2, <1>5, DatesFollowMonths
<1>10. Before(r.date, end) <=> Count(r.date) < Count(end)
  BY <1>2, <1>7, DatesFollowMonths
<1> QED
  BY <1>1, <1>2, <1>5, <1>7, <1>8, <1>9, <1>10 DEF N

\* No row of the window misses the chart: the month the query groups it by is
\* one of those that were computed (category_trends).
THEOREM EveryRowHasABucket ==
  ASSUME NEW R, \A r \in R : r.date \in Dates, NEW anchor \in Dates, NEW n \in Int,
         NEW r \in TrendRows(R, anchor, n)
  PROVE  \E i \in 1..WindowMonths(n) : FirstOfMonth(r.date) = BucketMonths(anchor, n)[i]
PROOF
<1> DEFINE N == WindowMonths(n)
           i == Count(r.date) - Count(anchor) + N
<1>1. N \in Nat \ {0} /\ r \in R
  BY WindowIsPositive DEF TrendRows
<1>2. /\ r.date \in [y : Int, m : 1..12, d : 1..31]
      /\ Count(anchor) \in Int /\ Count(r.date) \in Int
  BY <1>1 DEF Dates, Count
<1>3. Count(anchor) - N + 1 <= Count(r.date) /\ Count(r.date) <= Count(anchor)
  BY <1>1, WindowRowsAreOfMonths
<1>4. i \in 1..N
  BY <1>1, <1>2, <1>3
<1>5. BucketMonths(anchor, n)[i] \in Months /\ Count(BucketMonths(anchor, n)[i]) = Count(anchor) - N + i
  BY <1>4, BucketIsMonth
<1>6. FirstOfMonth(r.date) \in Months /\ Count(FirstOfMonth(r.date)) = Count(r.date)
  BY <1>2, FirstIsMonth
<1>7. Count(anchor) - N + i = Count(r.date)
  BY <1>1, <1>2
<1> QED
  BY <1>4, <1>5, <1>6, <1>7, CountNamesMonth

\* A cell adds up the rows that the breakdown of its month adds up, although
\* the two compute the bounds of a month in different ways.
THEOREM CellsAreMonths ==
  ASSUME NEW R, \A r \in R : r.date \in Dates, NEW anchor \in Dates, NEW n \in Int
  PROVE  LET trends == CategoryTrends(R, anchor, n) IN
         \A i \in 1..WindowMonths(n) : \A k \in trends.categories :
           trends.buckets[<<i, k>>] = Total(OfCategory(MonthRows(R, trends.months[i]), k))
PROOF
<1> SUFFICES ASSUME NEW i \in 1..WindowMonths(n), NEW k \in CategoryTrends(R, anchor, n).categories
             PROVE  CategoryTrends(R, anchor, n).buckets[<<i, k>>] =
                      Total(OfCategory(MonthRows(R, BucketMonths(anchor, n)[i]), k))
  BY DEF CategoryTrends
<1> DEFINE N == WindowMonths(n)
           rows == TrendRows(R, anchor, n)
           month == BucketMonths(anchor, n)[i]
           cell == {r \in OfCategory(rows, k) : FirstOfMonth(r.date) = month}
<1>1. CategoryTrends(R, anchor, n).buckets[<<i, k>>] = Total(cell)
  BY DEF CategoryTrends
<1>2. N \in Nat \ {0} /\ i \in Int
  BY WindowIsPositive
<1>3. month \in Months /\ Count(month) = Count(anchor) - N + i
  BY BucketIsMonth
<1>4. month \in [y : Int, m : 1..12, d : 1..31] /\ MonthStart(month) = month
  BY <1>3 DEF Months, MonthStart, FirstOfMonth, Date
<1>5. MonthEnd(month) \in Months /\ Count(MonthEnd(month)) = Count(month) + 1
  BY <1>4, EndIsNextMonth
<1> HIDE DEF month
<1>6. ASSUME NEW r \in R
      PROVE  (r \in rows /\ FirstOfMonth(r.date) = month) <=> InMonth(r.date, month)
  <2>1. /\ r.date \in Dates /\ r.date \in [y : Int, m : 1..12, d : 1..31]
        /\ Count(r.date) \in Int /\ Count(anchor) \in Int /\ Count(month) \in Int
    BY <1>3, <1>6 DEF Dates, Count, Months
  <2>2. InMonth(r.date, month) <=> Count(month) <= Count(r.date) /\ Count(r.date) < Count(MonthEnd(month))
    BY <1>3, <1>4, <1>5, <2>1, DatesFollowMonths DEF InMonth
  <2>3. InMonth(r.date, month) <=> Count(r.date) = Count(month)
    BY <1>5, <2>1, <2>2
  <2>4. FirstOfMonth(r.date) = month <=> Count(r.date) = Count(month)
    BY <1>3, <2>1, FirstIsMonth, CountNamesMonth
  <2>5. Count(r.date) = Count(month) => r \in rows
    <3>1. Count(anchor) - N + 1 <= Count(month) /\ Count(month) <= Count(anchor)
      BY <1>2, <1>3, <2>1
    <3> QED
      BY <1>6, <3>1, WindowRowsAreOfMonths
  <2> QED
    BY <2>3, <2>4, <2>5
<1>7. cell = OfCategory(MonthRows(R, month), k)
  <2>1. rows \subseteq R
    BY DEF TrendRows
  <2> QED
    BY <1>6, <2>1 DEF OfCategory, MonthRows
<1> QED
  BY <1>1, <1>7 DEF month

-----------------------------------------------------------------------------
(* Totals. *)

\* func.sum(amount), a fold, is a sum.
LEMMA TotalIsSum ==
  ASSUME NEW R, NEW w, \A r \in R : w[r] = r.amount
  PROVE  Total(R) = Sum(w, R)
PROOF
<1> DEFINE Folds(f) == f = [T \in SUBSET R |->
             IF T = {} THEN 0
             ELSE Amount(CHOOSE r \in T : TRUE) + f[T \ {CHOOSE r \in T : TRUE}]]
<1>1. \A T \in SUBSET R : T # {} => Amount(CHOOSE r \in T : TRUE) = w[Some(T)]
  BY SomeIsElement DEF Amount, Some
<1>2. \A f : Folds(f) <=> SumsUp(f, w, R)
  BY <1>1 DEF SumsUp, Some
<1>3. (CHOOSE f : Folds(f)) = (CHOOSE f : SumsUp(f, w, R))
  <2> HIDE DEF Folds
  <2> QED
    BY <1>2
<1> QED
  BY <1>3 DEF Total, MapThenSumSet, MapThenFoldSet, Sum

\* So are the squares of a deviation.
LEMMA SquaresAreSum ==
  ASSUME NEW R, NEW w, \A r \in R : w[r] = r.amount * r.amount
  PROVE  MapThenSumSet(Square, R) = Sum(w, R)
PROOF
<1> DEFINE Folds(f) == f = [T \in SUBSET R |->
             IF T = {} THEN 0
             ELSE Square(CHOOSE r \in T : TRUE) + f[T \ {CHOOSE r \in T : TRUE}]]
<1>1. \A T \in SUBSET R : T # {} => Square(CHOOSE r \in T : TRUE) = w[Some(T)]
  BY SomeIsElement DEF Square, Some
<1>2. \A f : Folds(f) <=> SumsUp(f, w, R)
  BY <1>1 DEF SumsUp, Some
<1>3. (CHOOSE f : Folds(f)) = (CHOOSE f : SumsUp(f, w, R))
  <2> HIDE DEF Folds
  <2> QED
    BY <1>2
<1> QED
  BY <1>3 DEF MapThenSumSet, MapThenFoldSet, Sum

\* So are the lines of a breakdown.
LEMMA LinesAreSum ==
  ASSUME NEW R, NEW w, \A r \in R : w[r] = r.total
  PROVE  MapThenSumSet(LineTotal, R) = Sum(w, R)
PROOF
<1> DEFINE Folds(f) == f = [T \in SUBSET R |->
             IF T = {} THEN 0
             ELSE LineTotal(CHOOSE r \in T : TRUE) + f[T \ {CHOOSE r \in T : TRUE}]]
<1>1. \A T \in SUBSET R : T # {} => LineTotal(CHOOSE r \in T : TRUE) = w[Some(T)]
  BY SomeIsElement DEF LineTotal, Some
<1>2. \A f : Folds(f) <=> SumsUp(f, w, R)
  BY <1>1 DEF SumsUp, Some
<1>3. (CHOOSE f : Folds(f)) = (CHOOSE f : SumsUp(f, w, R))
  <2> HIDE DEF Folds
  <2> QED
    BY <1>2
<1> QED
  BY <1>3 DEF MapThenSumSet, MapThenFoldSet, Sum

\* Rows of the table: amounts are positive (ck_expenses_amount_positive).
AreExpenses(R) ==
  /\ IsFiniteSet(R)
  /\ \A r \in R : r.amount \in Nat \ {0} /\ r.date \in Dates

AmountIn(R) == [r \in R |-> r.amount]

\* Some expenses are expenses again.
LEMMA PartsAreExpenses ==
  ASSUME NEW R, AreExpenses(R), NEW S \in SUBSET R
  PROVE  AreExpenses(S)
PROOF
  BY FS_Subset DEF AreExpenses

\* A total is a number of cents, and a sum of amounts, wherever they are taken.
LEMMA TotalOfPart ==
  ASSUME NEW R, AreExpenses(R), NEW S \in SUBSET R
  PROVE  Total(S) = Sum(AmountIn(R), S) /\ Total(S) \in Int
PROOF
<1>1. \A r \in S : AmountIn(R)[r] = r.amount /\ r.amount \in Int
  BY DEF AreExpenses, AmountIn
<1>2. IsFiniteSet(S)
  BY FS_Subset DEF AreExpenses
<1> QED
  BY <1>1, <1>2, TotalIsSum, SumTakesAny

\* Nothing spent is 0.00.
LEMMA TotalOfNothing == Total({}) = 0
PROOF
  BY TotalIsSum, SumOfNothing

\* A breakdown says of a category what its rows of the month add up to, and
\* nothing of a category without rows.
LEMMA LineIsTotal ==
  ASSUME NEW R, AreExpenses(R), NEW month, NEW k
  PROVE  MapThenSumSet(LineTotal, {x \in MonthlyBreakdown(R, month).items : x.category = k})
           = Total(OfCategory(MonthRows(R, month), k))
PROOF
<1> DEFINE rows == MonthRows(R, month)
           lines == {x \in MonthlyBreakdown(R, month).items : x.category = k}
           total == Total(OfCategory(rows, k))
           w == [x \in lines |-> x.total]
<1>1. MonthlyBreakdown(R, month).items = {CategoryTotal(rows, j) : j \in CategoriesOf(rows)}
  BY DEF MonthlyBreakdown
<1>2. \A j : CategoryTotal(rows, j).category = j
  BY DEF CategoryTotal
<1>3. MapThenSumSet(LineTotal, lines) = Sum(w, lines)
  BY LinesAreSum
<1>4. CASE k \in CategoriesOf(rows)
  <2> DEFINE line == CategoryTotal(rows, k)
  <2>1. lines = {line}
    BY <1>1, <1>2, <1>4
  <2>2. line.total = total
    BY DEF CategoryTotal
  <2>3. OfCategory(rows, k) \in SUBSET R
    BY DEF OfCategory, MonthRows
  <2>4. total \in Int
    BY <2>3, TotalOfPart
  <2> HIDE DEF line, lines, total
  <2>5. w[line] = total
    BY <2>1, <2>2
  <2>6. Sum(w, {line}) = total
    BY <2>4, <2>5, SumOfOne
  <2> QED
    BY <1>3, <2>1, <2>6 DEF lines, total
<1>5. CASE k \notin CategoriesOf(rows)
  <2>1. lines = {}
    BY <1>1, <1>2, <1>5
  <2>2. OfCategory(rows, k) = {}
    BY <1>5 DEF OfCategory, CategoriesOf
  <2> QED
    BY <1>3, <2>1, <2>2, SumOfNothing, TotalOfNothing
<1> QED
  BY <1>4, <1>5

\* The grand total of a breakdown, which the code adds up from its lines, is
\* the total of the month's rows (monthly_breakdown).
THEOREM GrandTotalIsMonth ==
  ASSUME NEW R, AreExpenses(R), NEW month
  PROVE  MonthlyBreakdown(R, month).grandTotal = Total(MonthRows(R, month))
PROOF
<1> DEFINE rows == MonthRows(R, month)
           items == {CategoryTotal(rows, k) : k \in CategoriesOf(rows)}
           w == [x \in items |-> x.total]
           line == [r \in rows |-> CategoryTotal(rows, r.category)]
           amount == AmountIn(rows)
<1>1. MonthlyBreakdown(R, month).grandTotal = Sum(w, items)
  <2>1. MapThenSumSet(LineTotal, items) = Sum(w, items)
    BY LinesAreSum
  <2> QED
    BY <2>1 DEF MonthlyBreakdown
<1>2. AreExpenses(rows) /\ IsFiniteSet(rows)
  BY PartsAreExpenses DEF MonthRows, AreExpenses
<1>3. \A r \in rows : amount[r] \in Int
  BY <1>2 DEF AreExpenses, AmountIn
<1>4. \A r \in rows : line[r] \in items
  BY DEF CategoriesOf
<1>5. IsFiniteSet(items)
  <2>1. line \in Surjection(rows, items)
    <3>1. line \in [rows -> items]
      BY <1>4
    <3>2. \A x \in items : \E r \in rows : line[r] = x
      BY DEF CategoriesOf
    <3> QED
      BY <3>1, <3>2 DEF Surjection
  <2> HIDE DEF line, items
  <2> QED
    BY <1>2, <2>1, FS_Surjection
<1>6. ASSUME NEW x \in items PROVE w[x] = Sum(amount, {r \in rows : line[r] = x})
  <2>1. PICK k \in CategoriesOf(rows) : x = CategoryTotal(rows, k)
    OBVIOUS
  <2>2. \A j : CategoryTotal(rows, j).category = j
    BY DEF CategoryTotal
  <2>3. {r \in rows : line[r] = x} = OfCategory(rows, k)
    <3>1. \A r \in rows : line[r] = CategoryTotal(rows, r.category)
      OBVIOUS
    <3> HIDE DEF rows, line
    <3>2. \A r \in rows : line[r] = x <=> r.category = k
      BY <2>1, <2>2, <3>1
    <3> QED
      BY <3>2 DEF OfCategory
  <2>4. w[x] = Total(OfCategory(rows, k))
    BY <2>1 DEF CategoryTotal
  <2>5. OfCategory(rows, k) \in SUBSET rows
    BY DEF OfCategory
  <2> HIDE DEF rows, amount, w, items, line
  <2>6. Total(OfCategory(rows, k)) = Sum(AmountIn(rows), OfCategory(rows, k))
    BY <1>2, <2>5, TotalOfPart
  <2> QED
    BY <2>3, <2>4, <2>6 DEF amount
<1> HIDE DEF items, w, line, amount, rows
<1>7. Sum(w, items) = Sum(amount, rows)
  BY <1>2, <1>3, <1>4, <1>5, <1>6, SumOfGroups
<1>8. Total(rows) = Sum(amount, rows)
  BY <1>2, TotalOfPart DEF amount
<1> QED
  BY <1>1, <1>7, <1>8 DEF rows

\* The cells of a chart add up to the rows of its window: none is lost between
\* two months, and none is counted twice (category_trends).
THEOREM CellsHoldWindow ==
  ASSUME NEW R, AreExpenses(R), NEW anchor \in Dates, NEW n \in Int
  PROVE  Sum(CategoryTrends(R, anchor, n).buckets, DOMAIN CategoryTrends(R, anchor, n).buckets)
           = Total(TrendRows(R, anchor, n))
PROOF
<1> DEFINE N == WindowMonths(n)
           rows == TrendRows(R, anchor, n)
           months == BucketMonths(anchor, n)
           cells == (1..N) \X CategoriesOf(rows)
           cell(x) == {r \in OfCategory(rows, x[2]) : FirstOfMonth(r.date) = months[x[1]]}
           buckets == [x \in cells |-> Total(cell(x))]
           place == [r \in rows |->
             <<CHOOSE i \in 1..N : FirstOfMonth(r.date) = months[i], r.category>>]
           amount == AmountIn(rows)
<1>1. CategoryTrends(R, anchor, n).buckets = buckets /\ DOMAIN buckets = cells
  BY DEF CategoryTrends
<1>2. AreExpenses(rows) /\ IsFiniteSet(rows) /\ rows \subseteq R
  BY PartsAreExpenses DEF TrendRows, AreExpenses
<1>3. N \in Nat \ {0}
  BY WindowIsPositive
<1>4. \A r \in rows : amount[r] \in Int
  BY <1>2 DEF AreExpenses, AmountIn
<1>5. IsFiniteSet(cells)
  <2>1. IsFiniteSet(1..N)
    BY <1>3, FS_Interval
  <2>2. [r \in rows |-> r.category] \in Surjection(rows, CategoriesOf(rows))
    <3> HIDE DEF rows
    <3> QED
      BY DEF Surjection, CategoriesOf
  <2>3. IsFiniteSet(CategoriesOf(rows))
    <3> HIDE DEF rows
    <3> QED
      BY <1>2, <2>2, FS_Surjection
  <2> QED
    BY <2>1, <2>3, FS_Product
<1>6. \A i, j \in 1..N : months[i] = months[j] => i = j
  <2> TAKE i, j \in 1..N
  <2>1. /\ Count(months[i]) = Count(anchor) - N + i
        /\ Count(months[j]) = Count(anchor) - N + j
    BY BucketIsMonth
  <2>2. Count(anchor) \in Int
    BY DEF Count, Dates
  <2> QED
    BY <1>3, <2>1, <2>2
<1>7. ASSUME NEW r \in rows
      PROVE  /\ place[r] \in cells
             /\ \A x \in cells : place[r] = x <=> r \in cell(x)
  <2> DEFINE i == CHOOSE i \in 1..N : FirstOfMonth(r.date) = months[i]
  <2>1. \E j \in 1..N : FirstOfMonth(r.date) = months[j]
    BY <1>2, EveryRowHasABucket DEF AreExpenses
  <2>2. i \in 1..N /\ FirstOfMonth(r.date) = months[i]
    BY <2>1
  <2>3. place[r] = <<i, r.category>>
    OBVIOUS
  <2> HIDE DEF i, place, rows, months
  <2>4. r.category \in CategoriesOf(rows)
    BY DEF CategoriesOf
  <2>5. ASSUME NEW x \in cells PROVE place[r] = x <=> r \in cell(x)
    <3>1. PICK j \in 1..N, k \in CategoriesOf(rows) : x = <<j, k>>
      BY <2>5
    <3>2. place[r] = x <=> i = j /\ r.category = k
      BY <2>3, <3>1
    <3>3. r \in cell(x) <=> r.category = k /\ months[i] = months[j]
      BY <2>2, <3>1 DEF OfCategory
    <3> QED
      BY <1>6, <2>2, <3>1, <3>2, <3>3
  <2> QED
    BY <2>2, <2>3, <2>4, <2>5
<1>8. ASSUME NEW x \in cells PROVE buckets[x] = Sum(amount, {r \in rows : place[r] = x})
  <2>1. {r \in rows : place[r] = x} = cell(x)
    <3>1. cell(x) \subseteq rows
      BY DEF OfCategory
    <3> HIDE DEF cell, place, rows
    <3> QED
      BY <1>7, <3>1
  <2>2. cell(x) \in SUBSET rows
    BY DEF OfCategory
  <2> HIDE DEF cell, rows
  <2>3. Total(cell(x)) = Sum(AmountIn(rows), cell(x))
    BY <1>2, <2>2, TotalOfPart
  <2> QED
    BY <2>1, <2>3
<1> HIDE DEF cells, buckets, place, amount, rows
<1>9. Sum(buckets, cells) = Sum(amount, rows)
  <2>1. \A r \in rows : place[r] \in cells
    BY <1>7
  <2>2. \A x \in cells : buckets[x] = Sum(amount, {r \in rows : place[r] = x})
    BY <1>8
  <2> QED
    BY <1>2, <1>4, <1>5, <2>1, <2>2, SumOfGroups
<1>10. Total(rows) = Sum(amount, rows)
  BY <1>2, TotalOfPart DEF amount
<1> QED
  BY <1>1, <1>9, <1>10 DEF rows

-----------------------------------------------------------------------------
(* Anomalies. *)

\* An average is a number of cents.
LEMMA MeanIsNumber ==
  ASSUME NEW B, AreExpenses(B), B # {}
  PROVE  Mean(B) \in Int
PROOF
<1>1. Total(B) \in Int
  BY TotalOfPart
<1>2. Cardinality(B) \in Nat \ {0}
  BY FS_EmptySet, FS_CardinalityType DEF AreExpenses
<1>3. 2 * Total(B) + Cardinality(B) \in Int /\ 2 * Cardinality(B) \in Nat \ {0}
  BY <1>1, <1>2
<1> QED
  BY <1>3 DEF Mean

\* The sample deviation is at most the largest amount: four times its square,
\* in the integers of Stddev, is below that of the largest amount and a half.
LEMMA SpreadIsBounded ==
  ASSUME NEW B, AreExpenses(B), Cardinality(B) >= 2
  PROVE  LET top == Max({r.amount : r \in B})
             pairs == Cardinality(B) * (Cardinality(B) - 1)
         IN  /\ top \in Nat /\ pairs \in Nat \ {0} /\ Spread(B) \in Int
             /\ 4 * Spread(B) < pairs * ((2 * top + 1) * (2 * top + 1))
PROOF
<1> DEFINE amounts == {r.amount : r \in B}
           top == Max(amounts)
           n == Cardinality(B)
           w == AmountIn(B)
           q == [r \in B |-> r.amount * r.amount]
           A == Total(B)
           Q == MapThenSumSet(Square, B)
<1>1. IsFiniteSet(B) /\ n \in Nat /\ n >= 2 /\ B # {}
  BY FS_EmptySet, FS_CardinalityType DEF AreExpenses
<1>2. w \in Surjection(B, amounts)
  BY DEF Surjection, AmountIn
<1>3. IsFiniteSet(amounts) /\ amounts # {} /\ amounts \subseteq Nat
  <2>1. IsFiniteSet(amounts)
    <3> HIDE DEF amounts, w
    <3> QED
      BY <1>1, <1>2, FS_Surjection
  <2> QED
    BY <1>1, <2>1 DEF AreExpenses
<1>4. top \in Nat /\ \A y \in amounts : y <= top
  <2> HIDE DEF amounts
  <2>1. amounts \subseteq Int
    BY <1>3
  <2> QED
    BY <1>3, <2>1, MaxIsGreatest
<1> HIDE DEF top
<1>5. \A r \in B : w[r] \in 0..top /\ q[r] = w[r] * w[r]
  <2> TAKE r \in B
  <2>1. w[r] = r.amount /\ r.amount \in amounts /\ r.amount \in Nat
    BY DEF AmountIn, AreExpenses
  <2> QED
    BY <1>4, <2>1
<1>6. A = Sum(w, B) /\ Q = Sum(q, B)
  BY TotalOfPart, SquaresAreSum
<1> HIDE DEF w, q, A, Q, n
<1>7. A \in Nat /\ Q \in Nat /\ Q <= A * A /\ Q <= n * (top * top)
  BY <1>1, <1>4, <1>5, <1>6, SquaresAreBounded DEF n
<1>8. Spread(B) = n * Q - A * A
  BY DEF Spread, n, A, Q
<1>9. n * Q - A * A <= (n - 1) * Q
  <2>1. (n - 1) * Q = n * Q - Q /\ n * Q \in Int /\ A * A \in Int
    BY <1>1, <1>7
  <2> QED
    BY <1>7, <2>1
<1>10. (n - 1) * Q <= (n - 1) * (n * (top * top))
  <2>1. PICK m \in Nat : m = n - 1
    BY <1>1
  <2>2. PICK t \in Nat : t = n * (top * top)
    BY <1>1, <1>4
  <2>3. m * Q <= m * t
    BY <1>7, <2>2
  <2> QED
    BY <2>1, <2>2, <2>3
<1>11. n * (n - 1) \in Nat \ {0}
  BY <1>1
<1>12. (n - 1) * (n * (top * top)) = (n * (n - 1)) * (top * top)
  BY <1>1, <1>4
<1>13. 4 * ((n * (n - 1)) * (top * top)) < (n * (n - 1)) * ((2 * top + 1) * (2 * top + 1))
  <2>1. PICK p \in Nat \ {0} : p = n * (n - 1)
    BY <1>11
  <2>2. PICK t \in Nat : t = top * top
    BY <1>4
  <2>3. (2 * top + 1) * (2 * top + 1) = 4 * t + 4 * top + 1
    BY <1>4, <2>2
  <2>4. p * (4 * t + 4 * top + 1) = 4 * (p * t) + 4 * (p * top) + p
    BY <1>4
  <2>5. p * t \in Nat /\ p * top \in Nat
    BY <1>4
  <2> QED
    BY <2>1, <2>2, <2>3, <2>4, <2>5
<1>14. n * Q - A * A \in Int /\ (n - 1) * Q \in Int /\ (n * (n - 1)) * (top * top) \in Int
  BY <1>1, <1>4, <1>7
<1>15. 4 * Spread(B) < (n * (n - 1)) * ((2 * top + 1) * (2 * top + 1)) /\ Spread(B) \in Int
  <2>1. Spread(B) <= (n * (n - 1)) * (top * top) /\ Spread(B) \in Int
    BY <1>8, <1>9, <1>10, <1>12, <1>14
  <2>2. (n * (n - 1)) * ((2 * top + 1) * (2 * top + 1)) \in Int
    BY <1>1, <1>4
  <2> QED
    BY <1>13, <1>14, <2>1, <2>2
<1> QED
  BY <1>4, <1>11, <1>15 DEF n, top

\* The deviation that the query rounds to cents exists: the search for it finds
\* a number of cents whose half-cent interval holds the square root.
THEOREM DeviationIsRounded ==
  ASSUME NEW B, AreExpenses(B), Cardinality(B) >= 2
  PROVE  LET s == Stddev(B)
             pairs == Cardinality(B) * (Cardinality(B) - 1)
         IN  /\ s \in Nat
             /\ 4 * Spread(B) < pairs * (2 * s + 1) * (2 * s + 1)
             /\ s > 0 => 4 * Spread(B) >= pairs * (2 * s - 1) * (2 * s - 1)
PROOF
<1> DEFINE top == Max({r.amount : r \in B})
           pairs == Cardinality(B) * (Cardinality(B) - 1)
           spread == Spread(B)
           Below(s) == 4 * spread < pairs * ((2 * s + 1) * (2 * s + 1))
           T == {s \in Nat : Below(s)}
           IsDeviation(s) ==
             /\ 4 * spread < pairs * (2 * s + 1) * (2 * s + 1)
             /\ s > 0 => 4 * spread >= pairs * (2 * s - 1) * (2 * s - 1)
<1>1. top \in Nat /\ pairs \in Nat \ {0} /\ spread \in Int /\ Below(top)
  BY SpreadIsBounded
<1>2. Stddev(B) = CHOOSE s \in 0..top : IsDeviation(s)
  BY DEF Stddev
<1> HIDE DEF top, pairs, spread
<1>3. PICK s \in T : \A x \in T : ~(<<x, s>> \in OpToRel(<, Nat))
  <2>1. T \subseteq Nat /\ T # {}
    BY <1>1
  <2> HIDE DEF T
  <2> QED
    BY <2>1, NatLessThanWellFounded, WFMin
<1>4. \A x \in T : ~(x < s)
  BY <1>3 DEF OpToRel
<1>5. s \in 0..top
  <2>1. top \in T /\ s \in Nat
    BY <1>1
  <2> HIDE DEF T
  <2> QED
    BY <1>1, <1>4, <2>1
<1>6. 4 * spread < pairs * (2 * s + 1) * (2 * s + 1)
  BY <1>1
<1>7. ASSUME s > 0 PROVE 4 * spread >= pairs * (2 * s - 1) * (2 * s - 1)
  <2>1. s - 1 \in Nat /\ s - 1 < s
    BY <1>7
  <2>2. ~Below(s - 1)
    BY <1>4, <2>1
  <2>3. 2 * (s - 1) + 1 = 2 * s - 1
    OBVIOUS
  <2>4. 4 * spread \in Int /\ pairs * ((2 * s - 1) * (2 * s - 1)) \in Int
    BY <1>1
  <2>5. pairs * ((2 * s - 1) * (2 * s - 1)) = pairs * (2 * s - 1) * (2 * s - 1)
    BY <1>1
  <2> QED
    BY <2>2, <2>3, <2>4, <2>5
<1>8. IsDeviation(s)
  BY <1>6, <1>7
<1> HIDE DEF IsDeviation
<1>9. Stddev(B) \in 0..top /\ IsDeviation(Stddev(B))
  BY <1>2, <1>5, <1>8
<1>10. Stddev(B) \in Nat
  BY <1>1, <1>9
<1> QED
  BY <1>9, <1>10 DEF IsDeviation, pairs, spread

GregorianLeap(y) == y % 4 = 0 /\ (y % 100 = 0 => y % 400 = 0)
MonthLength(a) ==
  IF a.m = 2 THEN IF GregorianLeap(a.y) THEN 29 ELSE 28
  ELSE IF a.m \in {4, 6, 9, 11} THEN 30 ELSE 31
RealDates == {a \in Dates : a.d <= MonthLength(a)}

\* Leap years are the Gregorian ones, and they are counted as they pass.
LEMMA LeapYearsAreCounted ==
  ASSUME NEW y \in Nat
  PROVE  /\ LeapYears(y - 1) \in Int
         /\ IsLeap(y) <=> GregorianLeap(y)
         /\ LeapYears(y) = LeapYears(y - 1) + (IF IsLeap(y) THEN 1 ELSE 0)
PROOF
<1>1. y \div 4 = (y - 1) \div 4 + (IF y % 4 = 0 THEN 1 ELSE 0)
  OBVIOUS
<1>2. y \div 100 = (y - 1) \div 100 + (IF y % 100 = 0 THEN 1 ELSE 0)
  OBVIOUS
<1>3. y \div 400 = (y - 1) \div 400 + (IF y % 400 = 0 THEN 1 ELSE 0)
  OBVIOUS
<1>4. (y % 400 = 0 => y % 100 = 0) /\ (y % 100 = 0 => y % 4 = 0)
  OBVIOUS
<1>5. PICK a \in Int, b \in Int, c \in Int :
        a = (y - 1) \div 4 /\ b = (y - 1) \div 100 /\ c = (y - 1) \div 400
  OBVIOUS
<1>6. LeapYears(y - 1) = a - b + c
  BY <1>5 DEF LeapYears
<1>7. LeapYears(y) = a - b + c + (IF GregorianLeap(y) THEN 1 ELSE 0)
  BY <1>1, <1>2, <1>3, <1>4, <1>5 DEF LeapYears, GregorianLeap
<1> QED
  BY <1>5, <1>6, <1>7 DEF IsLeap

\* Subtracting a timedelta counts days: the next day has the next number, over
\* the ends of months and years, leap years included.
THEOREM DaysAreCounted ==
  ASSUME NEW a \in RealDates
  PROVE  DayNumber(IF a.d < MonthLength(a) THEN Date(a.y, a.m, a.d + 1) ELSE MonthEnd(a)) =
           DayNumber(a) + 1
PROOF
<1>1. a.y \in Nat /\ a.m \in 1..12 /\ a.d \in 1..31 /\ a.d <= MonthLength(a)
  BY DEF RealDates, Dates
<1> DEFINE next == IF a.d < MonthLength(a) THEN Date(a.y, a.m, a.d + 1) ELSE MonthEnd(a)
           before(m) == DaysBefore[m]
           leap == IF a.m > 2 /\ IsLeap(a.y) THEN 1 ELSE 0
<1>2. PICK l \in Int : l = LeapYears(a.y - 1)
  BY <1>1, LeapYearsAreCounted
<1>3. DayNumber(a) = 365 * a.y + l + DaysBefore[a.m] + a.d + leap
  BY <1>2 DEF DayNumber
<1>4. DaysBefore[a.m] \in Int /\ leap \in {0, 1}
  BY <1>1 DEF DaysBefore
<1>5. CASE a.d < MonthLength(a)
  <2>1. DayNumber(next) = 365 * a.y + l + DaysBefore[a.m] + (a.d + 1) + leap
    BY <1>2, <1>5 DEF DayNumber, Date
  <2> HIDE DEF next, leap
  <2> QED
    BY <1>1, <1>3, <1>4, <2>1 DEF next
<1>6. CASE a.d = MonthLength(a)
  <2>1. CASE a.m = 12
    <3>1. DayNumber(next) = 365 * (a.y + 1) + LeapYears((a.y + 1) - 1) + 0 + 1 + 0
      BY <1>1, <1>6, <2>1 DEF DayNumber, Date, MonthEnd, DaysBefore
    <3>2. (a.y + 1) - 1 = a.y
      BY <1>1
    <3>3. LeapYears(a.y) = l + leap
      BY <1>1, <1>2, <2>1, LeapYearsAreCounted
    <3>4. DaysBefore[a.m] = 334 /\ a.d = 31
      BY <1>6, <2>1 DEF DaysBefore, MonthLength
    <3> HIDE DEF next, leap
    <3> QED
      BY <1>1, <1>3, <1>4, <3>1, <3>2, <3>3, <3>4 DEF next
  <2>2. CASE a.m # 12
    <3> DEFINE leapNext == IF a.m + 1 > 2 /\ IsLeap(a.y) THEN 1 ELSE 0
    <3>1. DayNumber(next) = 365 * a.y + l + DaysBefore[a.m + 1] + 1 + leapNext
      BY <1>1, <1>2, <1>6, <2>2 DEF DayNumber, Date, MonthEnd
    <3>2. DaysBefore[a.m + 1] + leapNext = DaysBefore[a.m] + leap + MonthLength(a)
      BY SMTT(20), <1>1, <2>2, LeapYearsAreCounted DEF DaysBefore, MonthLength
    <3>3. DaysBefore[a.m + 1] \in Int /\ leapNext \in Int
      BY <1>1, <2>2 DEF DaysBefore
    <3>4. MonthLength(a) = a.d /\ a.d \in Int /\ 365 * a.y \in Int
      BY <1>1, <1>6
    <3> DEFINE years == 365 * a.y
    <3> HIDE DEF next, leap, leapNext, years
    <3>5. DayNumber(next) = years + l + (DaysBefore[a.m] + leap + a.d) + 1
      BY <1>2, <1>4, <3>1, <3>2, <3>3, <3>4 DEF years
    <3>6. DayNumber(next) = DayNumber(a) + 1
      BY <1>2, <1>3, <1>4, <3>4, <3>5 DEF years
    <3> QED
      BY <3>6 DEF next
  <2> QED
    BY <2>1, <2>2
<1>7. MonthLength(a) \in Int
  BY DEF MonthLength
<1> QED
  BY <1>1, <1>5, <1>6, <1>7

\* A day number is a number.
LEMMA DayIsNumber ==
  ASSUME NEW a \in Dates
  PROVE  DayNumber(a) \in Int
PROOF
<1>1. a.y \in Int /\ a.m \in 1..12 /\ a.d \in Int
  BY DEF Dates
<1>2. DaysBefore[a.m] \in Int
  BY <1>1 DEF DaysBefore
<1>3. LeapYears(a.y - 1) \in Int
  BY <1>1 DEF LeapYears
<1>4. (IF a.m > 2 /\ IsLeap(a.y) THEN 1 ELSE 0) \in Int
  OBVIOUS
<1> QED
  BY <1>1, <1>2, <1>3, <1>4 DEF DayNumber

\* The windows do not meet: without the other recent rows, the baseline is the
\* same and the lookback is the one row.
LEMMA WindowsAreApart ==
  ASSUME NEW R, AreExpenses(R), NEW today \in Dates, NEW baseline \in Int, NEW lookback \in Int,
         NEW r \in Recent(R, today, lookback)
  PROVE  LET alone == (R \ Recent(R, today, lookback)) \cup {r} IN
         /\ Baseline(alone, today, baseline, lookback) = Baseline(R, today, baseline, lookback)
         /\ Recent(alone, today, lookback) = {r}
PROOF
<1> DEFINE alone == (R \ Recent(R, today, lookback)) \cup {r}
<1>1. DayNumber(today) \in Int /\ \A x \in R : DayNumber(x.date) \in Int
  BY DayIsNumber DEF AreExpenses
<1>2. r \in R /\ DayNumber(r.date) >= DayNumber(today) - lookback
  BY DEF Recent
<1> HIDE DEF DayNumber
<1>3. \A x \in R : DayNumber(x.date) < DayNumber(today) - lookback =>
                     x \notin Recent(R, today, lookback)
  BY <1>1 DEF Recent
<1>4. ~(DayNumber(r.date) < DayNumber(today) - lookback)
  BY <1>1, <1>2
<1>5. Baseline(alone, today, baseline, lookback) = Baseline(R, today, baseline, lookback)
  BY <1>2, <1>3, <1>4 DEF Baseline
<1>6. Recent(alone, today, lookback) = {r}
  BY DEF Recent
<1> QED
  BY <1>5, <1>6

\* Scores are compared by products, for deviations that are not zero: a strict
\* partial order.
LEMMA ProductsOrder ==
  ASSUME NEW a \in Int, NEW b \in Int, NEW c \in Int,
         NEW s \in Nat \ {0}, NEW t \in Nat \ {0}, NEW u \in Nat \ {0},
         a * t > b * s, b * u > c * t
  PROVE  a * u > c * s
PROOF
<1>1. (a * t) * u > (b * s) * u
  <2>1. PICK x \in Int, y \in Int : x = a * t /\ y = b * s
    OBVIOUS
  <2>2. x > y
    BY <2>1
  <2>3. x * u > y * u
    BY <2>2
  <2> QED
    BY <2>1, <2>3
<1>2. (b * u) * s > (c * t) * s
  <2>1. PICK x \in Int, y \in Int : x = b * u /\ y = c * t
    OBVIOUS
  <2>2. x > y
    BY <2>1
  <2>3. x * s > y * s
    BY <2>2
  <2> QED
    BY <2>1, <2>3
<1>3. PICK x \in Int, y \in Int : x = a * u /\ y = c * s
  OBVIOUS
<1>4. (a * t) * u = x * t /\ (c * t) * s = y * t /\ (b * s) * u = (b * u) * s
  BY <1>3
<1>5. (b * s) * u \in Int /\ x * t \in Int /\ y * t \in Int
  BY <1>3
<1>6. x * t > y * t
  BY <1>1, <1>2, <1>4, <1>5
<1>7. x > y
  <2>1. SUFFICES ASSUME x <= y PROVE FALSE
    BY <1>3
  <2>2. x * t <= y * t
    BY <2>1, <1>3
  <2> QED
    BY <1>5, <1>6, <2>2
<1> QED
  BY <1>3, <1>7

\* A baseline that passes the HAVING clause has a rounded deviation of zero just
\* when the unrounded one is below half a cent.
LEMMA ZeroIsBelowHalf ==
  ASSUME NEW B, AreExpenses(B), HasBaseline(B)
  PROVE  /\ B # {} /\ Cardinality(B) >= 2 /\ Stddev(B) \in Nat
         /\ Stddev(B) = 0 <=> 4 * Spread(B) < Cardinality(B) * (Cardinality(B) - 1)
PROOF
<1> DEFINE pairs == Cardinality(B) * (Cardinality(B) - 1)
           s == Stddev(B)
<1>1. Cardinality(B) \in Nat /\ Cardinality(B) >= 2
  <2>1. Cardinality(B) \in Nat
    BY FS_CardinalityType DEF AreExpenses
  <2>2. Cardinality(B) >= MinBaselineSamples
    BY DEF HasBaseline
  <2> QED
    BY <2>1, <2>2, InsightsAssumption
<1>2. /\ s \in Nat
      /\ 4 * Spread(B) < pairs * (2 * s + 1) * (2 * s + 1)
      /\ s > 0 => 4 * Spread(B) >= pairs * (2 * s - 1) * (2 * s - 1)
  BY <1>1, DeviationIsRounded
<1>3. pairs \in Nat /\ 4 * Spread(B) \in Int
  <2>1. Spread(B) \in Int
    BY <1>1, SpreadIsBounded
  <2> QED
    BY <1>1, <2>1
<1> HIDE DEF pairs, s
<1>4. ASSUME s = 0 PROVE 4 * Spread(B) < pairs
  <2>1. pairs * (2 * s + 1) * (2 * s + 1) = pairs
    BY <1>3, <1>4
  <2> QED
    BY <1>2, <2>1
<1>5. ASSUME s # 0 PROVE ~(4 * Spread(B) < pairs)
  <2>1. PICK k \in Nat : k = 2 * s - 1
    BY <1>2, <1>5
  <2>2. k * k \in Nat /\ k * k >= 1
    BY <1>2, <1>5, <2>1
  <2>3. pairs * (2 * s - 1) * (2 * s - 1) = pairs * (k * k)
    BY <1>2, <1>3, <2>1
  <2>4. PICK x \in Nat : x = k * k /\ x >= 1
    BY <2>2
  <2>5. pairs * x >= pairs /\ pairs * x \in Int
    BY <1>3, <2>4
  <2>6. s > 0 /\ 4 * Spread(B) >= pairs * x
    BY <1>2, <1>5, <2>3, <2>4
  <2> QED
    BY <1>3, <2>5, <2>6
<1>6. B # {}
  BY <1>1, FS_EmptySet
<1> QED
  BY <1>1, <1>2, <1>4, <1>5, <1>6 DEF pairs, s

\* A category's history is a set of expenses.
LEMMA BasesAreExpenses ==
  ASSUME NEW R, AreExpenses(R), NEW today, NEW baseline, NEW lookback, NEW k
  PROVE  AreExpenses(OfCategory(Baseline(R, today, baseline, lookback), k))
PROOF
<1>1. OfCategory(Baseline(R, today, baseline, lookback), k) \in SUBSET R
  BY DEF OfCategory, Baseline
<1> QED
  BY <1>1, PartsAreExpenses

\* The extent of the division by zero: the report fails if and only if some
\* recent expense is joined with a baseline whose deviation is not zero but
\* below half a cent (detect_anomalies, its HAVING clause and its CAST).
THEOREM ReportFailsBelowHalfACent ==
  ASSUME NEW R, AreExpenses(R), NEW today, NEW baseline \in Int, NEW lookback \in Int, NEW z
  PROVE  Anomalies(R, today, baseline, lookback, z).status = 500 <=>
           /\ lookback < baseline
           /\ \E r \in Recent(R, today, lookback) :
                LET B == OfCategory(Baseline(R, today, baseline, lookback), r.category) IN
                HasBaseline(B) /\ 4 * Spread(B) < Cardinality(B) * (Cardinality(B) - 1)
PROOF
<1> DEFINE BaseOf(r) == OfCategory(Baseline(R, today, baseline, lookback), r.category)
           joined == {r \in Recent(R, today, lookback) : HasBaseline(BaseOf(r))}
<1>1. Anomalies(R, today, baseline, lookback, z).status = 500 <=>
        ~(lookback >= baseline) /\ \E r \in joined : Stddev(BaseOf(r)) = 0
  BY DEF Anomalies, Answer
<1>2. \A r \in joined :
        Stddev(BaseOf(r)) = 0 <=> 4 * Spread(BaseOf(r)) < Cardinality(BaseOf(r)) * (Cardinality(BaseOf(r)) - 1)
  BY BasesAreExpenses, ZeroIsBelowHalf
<1> QED
  BY <1>1, <1>2

\* The anomaly report scores each recent expense by itself: what it says of one
\* is what it would say without the others, save for the cut at the maximum,
\* after which the report is full (detect_anomalies).
THEOREM ScoresAreIndependent ==
  ASSUME NEW R, AreExpenses(R), NEW today \in Dates, NEW baseline \in Int, NEW lookback \in Int,
         NEW z, Anomalies(R, today, baseline, lookback, z).status = 200,
         NEW r \in Recent(R, today, lookback)
  PROVE  LET rows == Anomalies(R, today, baseline, lookback, z).rows
             alone == (R \ Recent(R, today, lookback)) \cup {r}
         IN  IF Anomalies(alone, today, baseline, lookback, z).rows = {r}
               THEN r \in rows \/ Cardinality(rows) >= MaxAnomalyResults
               ELSE r \notin rows
PROOF
<1> DEFINE base == Baseline(R, today, baseline, lookback)
           BaseOf(x) == OfCategory(base, x.category)
           joined == {x \in Recent(R, today, lookback) : HasBaseline(BaseOf(x))}
           found == {x \in joined : Reaches(x, BaseOf(x), z)}
           ahead == [x \in found |-> {q \in found : MoreUnusual(q, x, base)}]
           left == {x \in found : Cardinality(ahead[x]) < MaxAnomalyResults}
           alone == (R \ Recent(R, today, lookback)) \cup {r}
           mine == {x \in {r} : HasBaseline(BaseOf(x))}
           mineFound == {x \in mine : Reaches(x, BaseOf(x), z)}
           mineLeft == {x \in mineFound :
             Cardinality({q \in mineFound : MoreUnusual(q, x, base)}) < MaxAnomalyResults}
           Report(J, L) == IF lookback >= baseline THEN Answer(422, {})
                           ELSE IF \E x \in J : Stddev(BaseOf(x)) = 0 THEN Answer(500, {})
                           ELSE Answer(200, L)
<1>1. Anomalies(R, today, baseline, lookback, z) = Report(joined, left)
  <2>1. left = {x \in found : Cardinality({q \in found : MoreUnusual(q, x, base)}) < MaxAnomalyResults}
    OBVIOUS
  <2> HIDE DEF left
  <2> QED
    BY <2>1 DEF Anomalies
<1>2. Anomalies(alone, today, baseline, lookback, z) = Report(mine, mineLeft)
  <2>1. /\ Baseline(alone, today, baseline, lookback) = base
        /\ Recent(alone, today, lookback) = {r}
    BY WindowsAreApart
  <2> HIDE DEF base, alone
  <2> QED
    BY <2>1 DEF Anomalies
<1> HIDE DEF alone
<1>3. /\ ~(lookback >= baseline) /\ ~\E x \in joined : Stddev(BaseOf(x)) = 0
      /\ Anomalies(R, today, baseline, lookback, z).rows = left
  <2> HIDE DEF joined, left, BaseOf
  <2> QED
    BY <1>1 DEF Answer
<1>4. mine \subseteq joined
  OBVIOUS
<1>5. Anomalies(alone, today, baseline, lookback, z).rows = mineLeft
  <2> HIDE DEF mine, joined, mineLeft, BaseOf
  <2> QED
    BY <1>2, <1>3, <1>4 DEF Answer
<1>6. ASSUME NEW x \in joined
      PROVE  x.amount - Mean(BaseOf(x)) \in Int /\ Stddev(BaseOf(x)) \in Nat \ {0}
  <2>1. x \in R /\ x.amount \in Int
    BY DEF Recent, AreExpenses
  <2>2. AreExpenses(BaseOf(x)) /\ HasBaseline(BaseOf(x))
    BY BasesAreExpenses
  <2>3. Stddev(BaseOf(x)) # 0
    BY <1>3
  <2> HIDE DEF BaseOf
  <2>4. BaseOf(x) # {} /\ Stddev(BaseOf(x)) \in Nat
    BY <2>2, ZeroIsBelowHalf
  <2>5. Mean(BaseOf(x)) \in Int
    BY <2>2, <2>4, MeanIsNumber
  <2> QED
    BY <2>1, <2>3, <2>4, <2>5
<1> DEFINE dev(x) == x.amount - Mean(BaseOf(x))
           sd(x) == Stddev(BaseOf(x))
<1>7. \A x, y : MoreUnusual(x, y, base) <=> dev(x) * sd(y) > dev(y) * sd(x)
  BY DEF MoreUnusual
<1>8. \A x \in found : x \in joined /\ dev(x) \in Int /\ sd(x) \in Nat \ {0}
  BY <1>6
<1> HIDE DEF base, BaseOf, dev, sd
<1>9. \A x \in found : ~MoreUnusual(x, x, base)
  <2> HIDE DEF found
  <2> TAKE x \in found
  <2>1. dev(x) * sd(x) \in Int
    BY <1>8
  <2> QED
    BY <1>7, <2>1
<1>10. \A x, y, q \in found : MoreUnusual(q, y, base) /\ MoreUnusual(y, x, base) => MoreUnusual(q, x, base)
  <2> HIDE DEF found
  <2> TAKE x, y, q \in found
  <2> QED
    BY <1>7, <1>8, ProductsOrder
<1>11. CASE r \notin found
  <2>1. r \notin left
    BY <1>11
  <2>2. mineLeft = {}
    BY <1>11
  <2>3. {} # {r}
    OBVIOUS
  <2> HIDE DEF left, mineLeft
  <2> QED
    BY <1>3, <1>5, <2>1, <2>2, <2>3 DEF alone
<1>12. CASE r \in found
  <2>1. mineFound = {r}
    BY <1>12
  <2>2. {q \in mineFound : MoreUnusual(q, r, base)} = {}
    BY <1>9, <1>12, <2>1
  <2>3. mineLeft = IF 0 < MaxAnomalyResults THEN {r} ELSE {}
    <3> HIDE DEF mineFound
    <3> QED
      BY <2>1, <2>2, FS_EmptySet
  <2>4. IsFiniteSet(found)
    <3>1. found \in SUBSET R
      BY DEF Recent
    <3> HIDE DEF found
    <3> QED
      BY <3>1, FS_Subset DEF AreExpenses
  <2>5. \A x \in found : ahead[x] \subseteq found /\ x \notin ahead[x] /\ Cardinality(ahead[x]) \in Nat
    <3> HIDE DEF found
    <3> TAKE x \in found
    <3>1. ahead[x] \in SUBSET found /\ x \notin ahead[x]
      BY <1>9
    <3>2. IsFiniteSet(ahead[x])
      BY <2>4, <3>1, FS_Subset
    <3> QED
      BY <3>1, <3>2, FS_CardinalityType
  <2>6. \A x \in found : \A y \in ahead[x] : ahead[y] \subseteq ahead[x]
    <3> HIDE DEF found
    <3> QED
      BY <1>10
  <2>7. MaxAnomalyResults \in Nat
    BY InsightsAssumption
  <2>8. r \notin left => Cardinality(left) >= MaxAnomalyResults
    <3>1. SUFFICES ASSUME r \notin left PROVE Cardinality(left) >= MaxAnomalyResults
      OBVIOUS
    <3>2. Cardinality(ahead[r]) >= MaxAnomalyResults
      BY <1>12, <2>5, <2>7, <3>1
    <3> HIDE DEF found, ahead
    <3> QED
      BY <1>12, <2>4, <2>5, <2>6, <2>7, <3>2, CutLeavesEnough
  <2>9. MaxAnomalyResults = 0 => r \notin left
    BY <2>5
  <2>10. {} # {r}
    OBVIOUS
  <2> HIDE DEF left, mineLeft
  <2> QED
    BY <1>3, <1>5, <2>3, <2>7, <2>8, <2>9, <2>10 DEF alone
<1> QED
  BY <1>11, <1>12
=============================================================================
