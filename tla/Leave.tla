-------------------------------- MODULE Leave --------------------------------
(***************************************************************************)
(* The leave of one type that one employee takes (modules/leave): requests *)
(* are filed, approved against the type's quota or rejected; policies say  *)
(* what the employee is entitled to; balances are derived, never stored.   *)
(*                                                                         *)
(* A decision reads the request and the year's use when it begins and      *)
(* writes when it commits; Requests may be in flight together.  Days of    *)
(* leave are counted in tenths, as policies grant them; requests are of    *)
(* half days.  What a request is billed is a number of the calendar's      *)
(* working days: WorkCalendar.                                             *)
(***************************************************************************)
EXTENDS Entitlement, FiniteSets, Functions, Sessions

CONSTANTS
    Leaves,      \* bound: leave requests
    Policies,    \* bound: leave policies alive at once
    Dates,       \* the dates that occur
    LeaveDates,    \* those on which leave begins
    ServiceDates,  \* those on which somebody joins or leaves
    Bills,       \* what a request may be billed
    Ranks,       \* the scopes policies are written for
    Terms,       \* what a policy may grant
    Spans,       \* from when, and until when or Never, a policy may be in force
    Quota        \* LeaveType.annual_quota

ASSUME LeaveAssumption ==
    /\ IsFiniteSet(Leaves)
    /\ Dates \subseteq Nat \ {Never} /\ Dates # {} /\ IsFiniteSet(Dates)
    /\ LeaveDates \subseteq Dates /\ ServiceDates \subseteq Dates
    /\ Bills \subseteq Nat \ {0}
    /\ Ranks \subseteq 1..4
    /\ Terms \subseteq [annual : Nat, method : Methods, prorateOnJoining : BOOLEAN,
                         prorateOnExit : BOOLEAN, probation : BOOLEAN, cap : Nat]
    /\ Spans \subseteq [from : Dates, to : Dates \cup {Never}]
    /\ Quota \in Nat

VARIABLES
    leave,      \* leave requests
    policy,     \* leave policies that concern the employee
    employee,
    today

vars == <<leave, policy, employee, today, req>>

Decisions == {"approved", "rejected"}
LeaveRequest == [start : LeaveDates, days : Bills, status : {"pending"}]
                \cup [start : LeaveDates, days : Bills, status : Decisions, decided : Dates]
NoLeave == [status |-> "none"]

\* Of the scopes an employee may fall under, in the order of precedence.
Scopes == <<"company", "establishment", "department", "worker_type">>
Policy == [rank : Ranks, terms : Terms, span : Spans]
NoPolicy == [rank |-> 0]

\* probation is a status, the only one that balances look at.
Employee == [joined : ServiceDates \cup {Never}, exited : ServiceDates \cup {Never},
             probation : BOOLEAN]

Request == {Idle} \cup [op : Decisions, leave : Leaves, on : Dates]

TypeOK ==
    /\ leave \in [Leaves -> {NoLeave} \cup LeaveRequest]
    /\ policy \in [Policies -> {NoPolicy} \cup Policy]
    /\ employee \in Employee
    /\ today \in Dates
    /\ req \in [Requests -> Request]

Init ==
    /\ leave = [l \in Leaves |-> NoLeave]
    /\ policy = [p \in Policies |-> NoPolicy]
    /\ employee \in Employee
    /\ today = CHOOSE d \in Dates : \A e \in Dates : d <= e
    /\ req = [t \in Requests |-> Idle]

-----------------------------------------------------------------------------
(***************************************************************************)
(* Balances.                                                               *)
(***************************************************************************)
Total(S) == SumFunctionOnSet([l \in S |-> leave[l].days], S)

\* Mutant: only what was taken up to today is used.
MutUsed(year) ==
    {l \in Leaves : leave[l].status = "approved" /\ YearOf(leave[l].start) = year
                    /\ leave[l].start <= today}
\* Approved requests, by the year they start in.
Used(year) == {l \in Leaves : leave[l].status = "approved" /\ YearOf(leave[l].start) = year}

Remaining == Quota - Total(Used(YearOf(today)))

Live == {p \in Policies : policy[p] # NoPolicy}
Covers(span, day) == span.from <= day /\ (span.to = Never \/ day <= span.to)
Matches(day) == {p \in Live : Covers(policy[p].span, day)}
\* Mutant: the latest policy wins, whatever its scope.
MutPickPolicy(day) ==
    {p \in Matches(day) : \A q \in Matches(day) : policy[q].span.from <= policy[p].span.from}
\* The most specific policy in force, and the latest of those; several can be.
PickPolicy(day) ==
    {p \in Matches(day) :
        \A q \in Matches(day) :
            \/ policy[q].rank < policy[p].rank
            \/ policy[q].rank = policy[p].rank /\ policy[q].span.from <= policy[p].span.from}

Joined(terms) == IF terms.prorateOnJoining THEN employee.joined ELSE Never
Exited(terms) == IF terms.prorateOnExit THEN employee.exited ELSE Never
Earned(terms, method, year, asOf) ==
    Entitlement(terms.annual, method, year, Joined(terms), Exited(terms), asOf)

\* What was left of last year, by this year's terms, up to their cap.
CarriedForward(terms, year) ==
    LET unused == Earned(terms, terms.method, year - 1, YearEnd(year - 1))
                    - Total(Used(year - 1))
    IN IF unused <= 0 THEN 0 ELSE IF unused > terms.cap THEN terms.cap ELSE unused

\* What a policy grants as of a day of the year.
Granted(terms, day) ==
    IF ~terms.probation /\ employee.probation THEN 0
    ELSE Earned(terms, terms.method, YearOf(day), day) + CarriedForward(terms, YearOf(day))

\* The allocations that a question asked today may be answered with.
Entitled ==
    IF PickPolicy(today) = {} THEN {Quota}
    ELSE {Granted(policy[p].terms, today) : p \in PickPolicy(today)}

-----------------------------------------------------------------------------

\* create_request, on somebody's behalf or one's own, for any date.
File(l, start, days) ==
    /\ leave[l] = NoLeave
    /\ leave' = [leave EXCEPT ![l] = [start |-> start, days |-> days, status |-> "pending"]]
    /\ UNCHANGED <<policy, employee, today, req>>

\* approve_leave_request: against this year's use, whatever year it is for.
BeginApprove(t, l) ==
    /\ leave[l].status = "pending"
    /\ leave[l].days <= Remaining
    /\ Start(t, [op |-> "approved", leave |-> l, on |-> today])
    /\ UNCHANGED <<leave, policy, employee, today>>

BeginReject(t, l) ==
    /\ leave[l].status = "pending"
    /\ Start(t, [op |-> "rejected", leave |-> l, on |-> today])
    /\ UNCHANGED <<leave, policy, employee, today>>

\* Mutant: when it was decided is left blank.
MutDecided(row, r) == [start |-> row.start, days |-> row.days, status |-> r.op, decided |-> Never]
Decided(row, r) == [start |-> row.start, days |-> row.days, status |-> r.op, decided |-> r.on]

Decide(t) ==
    /\ req[t] # Idle
    /\ leave' = [leave EXCEPT ![req[t].leave] = Decided(leave[req[t].leave], req[t])]
    /\ Finish(t)
    /\ UNCHANGED <<policy, employee, today>>

Rollback(t) ==
    /\ req[t] # Idle
    /\ Finish(t)
    /\ UNCHANGED <<leave, policy, employee, today>>

\* create_policy, whatever there is for the scope already; delete_policy.
CreatePolicy(p, rank, terms, span) ==
    /\ policy[p] = NoPolicy
    /\ policy' = [policy EXCEPT ![p] = [rank |-> rank, terms |-> terms, span |-> span]]
    /\ UNCHANGED <<leave, employee, today, req>>

DeletePolicy(p) ==
    /\ p \in Live
    /\ policy' = [policy EXCEPT ![p] = NoPolicy]
    /\ UNCHANGED <<leave, employee, today, req>>

\* update_employee: whichever of joining, leaving and status it is told.
UpdateEmployee ==
    /\ employee' \in Employee
    /\ UNCHANGED <<leave, policy, today, req>>

Tomorrow ==
    /\ \E day \in Dates :
          /\ day > today
          /\ \A d \in Dates : d <= today \/ d >= day
          /\ today' = day
    /\ UNCHANGED <<leave, policy, employee, req>>

Handler(t) ==
    \/ \E l \in Leaves : BeginApprove(t, l) \/ BeginReject(t, l)
    \/ Decide(t)
    \/ Rollback(t)

Record ==
    \/ \E l \in Leaves, start \in LeaveDates, days \in Bills : File(l, start, days)
    \/ \E p \in Policies, rank \in Ranks, terms \in Terms, span \in Spans :
          CreatePolicy(p, rank, terms, span)
    \/ \E p \in Policies : DeletePolicy(p)

Next ==
    \/ \E t \in Requests : Handler(t)
    \/ Record
    \/ UpdateEmployee
    \/ Tomorrow

Spec == Init /\ [][Next]_vars

-----------------------------------------------------------------------------
\* What is approved in the course of a year for that year never exceeds the
\* quota, in any order of filing and deciding, with what was approved for it
\* earlier.  It is a statement about decisions made one after another.
QuotaKept ==
    \A l \in Leaves :
        leave[l].status = "approved" =>
            (YearOf(leave[l].decided) = YearOf(leave[l].start) =>
                Total({m \in Leaves :
                         /\ leave[m].status = "approved"
                         /\ YearOf(leave[m].start) = YearOf(leave[l].start)
                         /\ leave[m].decided <= leave[l].decided}) <= Quota)

\* However somebody joined and left, the two ways to accrue come to the same at
\* the end of the year: to no more than the year's days and, for a year served
\* in full, to no less, but for the rounding of either to a half day.
WholeYear(terms, year) ==
    /\ Joined(terms) <= YearStart(year)
    /\ Exited(terms) = Never \/ Exited(terms) >= YearEnd(year)
MethodsMeet ==
    \A terms \in Terms :
        LET year  == YearOf(today)
            grant == Earned(terms, "annual", year, YearEnd(year))
        IN /\ grant = Earned(terms, "monthly", year, YearEnd(year))
           /\ 2 * grant <= 2 * terms.annual + 5
           /\ WholeYear(terms, year) => 2 * grant > 2 * terms.annual - 5

\* "A company-wide policy written in July must not take over a department that
\* has had its own since 2020": a policy for a wider scope changes no allocation
\* while a narrower one is in force.
NarrowerStands ==
    [][\A p \in Policies, rank \in Ranks, terms \in Terms, span \in Spans :
          CreatePolicy(p, rank, terms, span) =>
             ((\E q \in Matches(today) : policy[q].rank > rank) => Entitled' = Entitled)]_vars

\* "Asking in March must not hand over December's days": within a year, a day
\* that passes takes nothing of what a policy grants.  A leaver keeps what was
\* earned by today whatever the directory says of the leaving, as long as it
\* is not dated before today.
Accrued(terms) == Earned(terms, "monthly", YearOf(today), today)
NotPast(day) == day = Never \/ day >= today
EarnedStays ==
    [][\A terms \in Terms :
          /\ (Tomorrow /\ YearOf(today') = YearOf(today)) =>
                Granted(terms, today)' >= Granted(terms, today)
          /\ (UpdateEmployee /\ employee'.joined = employee.joined
                /\ NotPast(employee.exited) /\ NotPast(employee'.exited)) =>
                Accrued(terms)' = Accrued(terms)]_vars
==============================================================================
