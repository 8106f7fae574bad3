---------------------------- MODULE FinancePeriod ----------------------------
(* The calendar arithmetic that turns a finance-period configuration into    *)
(* operating periods.  A configuration holds from a date to a date, or with  *)
(* no end, and cuts its dates into periods of whole months counted from its  *)
(* first date; the last period is cut short where the configuration ends.    *)
(*                                                                           *)
(* A date is a number that orders as (year, month, day) does.                *)
EXTENDS Integers, Sequences, FiniteSets

CONSTANT
    MonthDays \* the lengths of successive months, from the first one modelled

ASSUME MonthDaysAssumption ==
    /\ MonthDays \in Seq(28 .. 31) /\ Len(MonthDays) > 0

DaysIn(m) == MonthDays[(m % Len(MonthDays)) + 1]
DateOf(m, d) == 31 * m + d - 1
MonthOf(x) == x \div 31
DayOf(x) == (x % 31) + 1

IsDate(x) == x \in Nat /\ DayOf(x) <= DaysIn(MonthOf(x))
NoEnd == -1 \* effective_to is null

Earlier(a, b) == IF a <= b THEN a ELSE b

(* The day before. *)
Prev(x) == IF DayOf(x) > 1 THEN x - 1 ELSE DateOf(MonthOf(x) - 1, DaysIn(MonthOf(x) - 1))

(* The same day n months later, or the last day of a shorter month. *)
AddMonths(x, n) ==
    LET m == MonthOf(x) + n
    IN  DateOf(m, Earlier(DayOf(x), DaysIn(m)))

Covers(c, x) == c.from <= x /\ (c.to = NoEnd \/ x <= c.to)

(* Whole months from the first date of c to x, and the period x falls in. *)
MonthsTo(c, x) ==
    LET n == MonthOf(x) - MonthOf(c.from)
    IN  IF AddMonths(c.from, n) > x THEN n - 1 ELSE n
StartIn(c, x) == AddMonths(c.from, (MonthsTo(c, x) \div c.months) * c.months)
EndIn(c, x) ==
    LET end == Prev(AddMonths(StartIn(c, x), c.months))
    IN  IF c.to = NoEnd THEN end ELSE Earlier(end, c.to)

(* The period is refused unless it holds the date it was asked for. *)
Resolves(c, x) == Covers(c, x) /\ StartIn(c, x) <= x /\ x <= EndIn(c, x)
=============================================================================
