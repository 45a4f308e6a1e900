---------------------------- MODULE Entitlement ------------------------------
(***************************************************************************)
(* What leave a policy grants an employee (leave/entitlement.py): a pure   *)
(* function of dates and days.  Days are counted in tenths, as policies    *)
(* are stored; a date is a number that keeps the order of dates and tells  *)
(* year, month and day apart.                                              *)
(***************************************************************************)
EXTENDS Integers

Earlier(a, b) == IF a < b THEN a ELSE b
Later(a, b)   == IF a > b THEN a ELSE b

Never == 0                              \* a date left blank
Date(year, month, day) == 384 * year + 32 * (month - 1) + day
YearOf(date)  == date \div 384
MonthOf(date) == date \div 32           \* of all years
DayOf(date)   == date % 32

YearStart(year) == Date(year, 1, 1)
YearEnd(year) == Date(year, 12, 31)

\* Twelfths of a number of tenths, in tenths: to the nearest half day, halves up.
Quantize(twelfths) == 5 * ((twelfths + 30) \div 60)

\* The months begun and not broken off before their day comes round.
CompletedMonths(start, end) ==
    IF end < start THEN 0
    ELSE MonthOf(end) - MonthOf(start) + (IF DayOf(end) < DayOf(start) THEN 0 ELSE 1)

WindowStart(year, joined) == IF joined = Never THEN YearStart(year) ELSE Later(YearStart(year), joined)
\* Mutant: who leaves in the course of the year was never in it.
MutWindowEnd(year, exited) == IF exited = Never THEN YearEnd(year) ELSE Earlier(YearStart(year), exited)
WindowEnd(year, exited) == IF exited = Never THEN YearEnd(year) ELSE Earlier(YearEnd(year), exited)

Methods == {"annual", "monthly"}

\* Mutant: what has been earned is not bounded by the day somebody left.
MutEntitlement(annual, method, year, joined, exited, asOf) ==
    LET start == WindowStart(year, joined)
        end   == WindowEnd(year, exited)
    IN IF annual <= 0 \/ CompletedMonths(start, end) = 0 THEN 0
       ELSE IF method = "monthly" THEN Quantize(annual * CompletedMonths(start, asOf))
       ELSE Quantize(annual * Earlier(12, CompletedMonths(start, end)))
\* Earned in a leave year.  Only monthly accrual looks at the day of
\* the question.
Entitlement(annual, method, year, joined, exited, asOf) ==
    LET start == WindowStart(year, joined)
        end   == WindowEnd(year, exited)
    IN IF annual <= 0 \/ CompletedMonths(start, end) = 0 THEN 0
       ELSE IF method = "monthly" THEN Quantize(annual * CompletedMonths(start, Earlier(end, asOf)))
       ELSE Quantize(annual * Earlier(12, CompletedMonths(start, end)))
==============================================================================
