------------------------------ MODULE Statutory ------------------------------
(***************************************************************************)
(* What the law takes from a month's pay: provident fund with its pension  *)
(* and ESI, and the wage they are reckoned on (payroll/rules.py and        *)
(* statutory.py).  Pure functions.  Months are numbered, January of some   *)
(* year being 0; money is a number of paise, a rate one of ten-thousandths.*)
(***************************************************************************)
EXTENDS Integers

Scale == 10000
Rupee == 100
\* Half up, to the paisa and to the rupee; ESI is rounded up to the rupee.
Paise(n) == (2 * n + Scale) \div (2 * Scale)
Rupees(n) == Rupee * ((2 * n + Rupee * Scale) \div (2 * Rupee * Scale))
RupeesUp(n) == Rupee * ((n + Rupee * Scale - 1) \div (Rupee * Scale))
LesserOf(a, b) == IF a <= b THEN a ELSE b

\* statutory_wage: what is excluded beyond the share allowed is added back.
\* Without a cap only what was nominated counts.
NoCap == -1
StatutoryWage(wages, excluded, cap) ==
    IF cap = NoCap THEN wages
    ELSE LET excess == excluded * Scale - (wages + excluded) * cap IN
         wages + IF excess > 0 THEN Paise(excess) ELSE 0

(***************************************************************************)
(* Provident fund and pension.                                             *)
(***************************************************************************)
\* A date nobody recorded excludes nobody.
Unknown == -1
EpsEligible(rule, wage, ceiling, age, firstJoined) ==
    /\ age # Unknown => age < rule.maxAge
    /\ ~(firstJoined # Unknown /\ firstJoined >= rule.newMemberCutoff /\ wage > ceiling)

\* Mutant: the employer's share is a percentage of its own.
MutEmployerEpf(total, pension, base, rule) == Rupees(base * (rule.employer - rule.pension))
EmployerEpf(total, pension, base, rule) == total - pension

ProvidentFund(wage, ceiling, rule, onFullWage, eligible) ==
    LET base == IF onFullWage THEN wage ELSE LesserOf(wage, ceiling) IN
    IF base <= 0
    THEN [employee |-> 0, epf |-> 0, eps |-> 0]
    ELSE LET total   == Rupees(base * rule.employer)
             pension == IF eligible THEN Rupees(LesserOf(base, rule.pensionCap) * rule.pension) ELSE 0
         IN [employee |-> Rupees(base * rule.employee),
             epf      |-> EmployerEpf(total, pension, base, rule),
             eps      |-> pension]

(***************************************************************************)
(* ESI, in contribution periods from April and from October.               *)
(***************************************************************************)
\* Mutant: January belongs to a period that starts in October to come.
MutContributionPeriodStart(m) ==
    LET month == m % 12 IN
    IF month >= 9 \/ month <= 2 THEN m - month + 9 ELSE m - month + 3
ContributionPeriodStart(m) ==
    LET month == m % 12 IN
    IF month >= 9 THEN m - month + 9
    ELSE IF month <= 2 THEN m - month - 3
    ELSE m - month + 3

EsiShare(gross, ceiling, rate, lockedIn) ==
    IF gross <= 0 \/ (gross > ceiling /\ ~lockedIn) THEN 0 ELSE RupeesUp(gross * rate)

==============================================================================
