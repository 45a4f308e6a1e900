------------------------------ MODULE PeriodPay ------------------------------
(***************************************************************************)
(* What a month pays (modules/payroll: seed_from_structure, compute_payslip*)
(* and pre_joining_days) for every reachable compensation timeline.  Money *)
(* is a whole number of the smallest unit, rounded half up as it is in the *)
(* code.  Off is the calendar: weekly offs and holidays.                   *)
(***************************************************************************)
EXTENDS Compensation, FiniteSetsExt, Functions

CONSTANT Off    \* days nobody works

ASSUME PeriodAssumption ==
    /\ Off \subseteq Days
    /\ Amounts \subseteq Nat    \* LineIn.amount: Field(ge=0)
    /\ IsFiniteSet(Versions)

Months == 0..((LastDay + 1) \div MonthLength - 1)
First(m) == m * MonthLength
Final(m) == First(m) + MonthLength - 1

Working(a, b) == Cardinality((a..b) \ Off)
PeriodDays(m) == Working(First(m), Final(m))

\* ROUND_HALF_UP to the smallest unit.
HalfUp(n, d) == (2 * n + d) \div (2 * d)

\* versions_for_period: the versions overlapping the month, clamped to it.
Overlapping(m) ==
    {v \in Live : from[v] <= Final(m) /\ (to[v] = Open \/ to[v] >= First(m))}
SegmentDays(v, m) ==
    Working(Max({from[v], First(m)}),
            IF to[v] = Open THEN Final(m) ELSE Min({to[v], Final(m)}))

\* Mutant: the segment's days are prorated over the days it does not cover.
MutShare(a, days, whole) == IF whole <= 0 THEN a ELSE HalfUp(a * (whole - days), whole)
\* prorate: a segment's share of a monthly amount, by working days.
Share(a, days, whole) ==
    IF whole <= 0 \/ days >= whole THEN a ELSE HalfUp(a * days, whole)

\* The structure row of the ledger: the segments' shares, summed.
Structure(m) ==
    SumFunctionOnSet([v \in Overlapping(m) |->
                         Share(amount[v], SegmentDays(v, m), PeriodDays(m))],
                     Overlapping(m))

\* Working days of the month before the employee joined.
PreJoining(m) ==
    IF joined = Open \/ joined <= First(m) THEN 0
    ELSE PeriodDays(m) - Working(joined, Final(m))

\* The gross of the payslip: the structure row, prorated by the days paid.
Gross(m) ==
    LET whole == PeriodDays(m) IN
    IF whole = 0 THEN Structure(m) ELSE HalfUp(Structure(m) * (whole - PreJoining(m)), whole)

\* Months the employee was there for from the start, and with pay agreed.
Full(m) == /\ joined = Open \/ joined <= First(m)
           /\ \A d \in First(m)..Final(m) : PayOn(d) # Nothing
AmountsIn(m) == {PayOn(d) : d \in First(m)..Final(m)}

-----------------------------------------------------------------------------
\* "Neither one alone": however often pay changed within a month, the month is
\* paid once: between the lowest and the highest amount in force in it, up to
\* half a unit of rounding for each segment.
MonthPaidOnce ==
    \A m \in Months : Full(m) /\ PeriodDays(m) > 0 =>
        LET slack == Cardinality(Overlapping(m)) IN    \* half units
        /\ 2 * Gross(m) + slack >= 2 * Min(AmountsIn(m))
        /\ 2 * Gross(m) <= 2 * Max(AmountsIn(m)) + slack

\* "A segment covering the whole period returns the amount EXACTLY": a month
\* that one version covers is paid its amount.
UnchangedPayIsExact ==
    \A m \in Months : Full(m) /\ Cardinality(Overlapping(m)) = 1 =>
        Gross(m) \in AmountsIn(m)

==============================================================================
