------------------------------ MODULE Calendar ------------------------------
(***************************************************************************)
(* The calendar arithmetic that the reports over expenses share.  A date   *)
(* is a record of year, month and day, compared as Postgres and Python     *)
(* compare dates.                                                          *)
(***************************************************************************)
EXTENDS Integers

Date(y, m, d) == [y |-> y, m |-> m, d |-> d]
Dates == [y : Nat, m : 1..12, d : 1..31]

Before(a, b) ==
  \/ a.y < b.y
  \/ (a.y = b.y /\ a.m < b.m)
  \/ (a.y = b.y /\ a.m = b.m /\ a.d < b.d)
NotAfter(a, b) == a = b \/ Before(a, b)

\* date.toordinal up to a constant: subtracting a timedelta counts days.
DaysBefore == <<0, 31, 59, 90, 120, 151, 181, 212, 243, 273, 304, 334>>
LeapYears(y) == y \div 4 - y \div 100 + y \div 400
IsLeap(y) == LeapYears(y) # LeapYears(y - 1)
DayNumber(a) ==
  365 * a.y + LeapYears(a.y - 1) + DaysBefore[a.m] + a.d
    + (IF a.m > 2 /\ IsLeap(a.y) THEN 1 ELSE 0)

FirstOfMonth(a) == Date(a.y, a.m, 1)

\* The bounds of a's month, the second one exclusive.
MonthStart(a) == FirstOfMonth(a)
MonthEnd(a) == IF a.m = 12 THEN Date(a.y + 1, 1, 1) ELSE Date(a.y, a.m + 1, 1)
InMonth(date, a) == NotAfter(MonthStart(a), date) /\ Before(date, MonthEnd(a))

\* Mutant: the loop stops at zero.
MonthsBackToZero(a, n) ==
  LET turns == CHOOSE k \in 0..n : a.m - n + 12 * k \in 0..11 IN
  Date(a.y - turns, a.m - n + 12 * turns, 1)

\* The loop adds twelve months and takes a year until the month is positive:
\* turns is how often it runs.
MonthsBack(a, n) ==
  LET turns == CHOOSE k \in 0..n : a.m - n + 12 * k \in 1..12 IN
  Date(a.y - turns, a.m - n + 12 * turns, 1)
=============================================================================
