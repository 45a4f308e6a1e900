----------------------------- MODULE LeaveProofs -----------------------------
(***************************************************************************)
(* What holds of leave for any requests, policies, dates and terms, and    *)
(* for any number of decisions in flight: types, that the two ways to      *)
(* accrue meet at the end of a year, that a policy for a wider scope takes *)
(* nothing over, and that what a day of service earned stays earned;       *)
(* of decisions in turn, that the days taken of a leave year are within    *)
(* its quota.  Days taken are a sum over the requests: deciding one moves  *)
(* one summand (SumTheorems).                                              *)
(***************************************************************************)
EXTENDS Leave, SumTheorems

\* A decision in flight is about a request that was filed.
Filed == \A t \in Requests : req[t] # Idle => leave[req[t].leave] # NoLeave

IInv == TypeOK /\ Filed

LEMMA FirstDate == \E d \in Dates : \A e \in Dates : d <= e
<1>1. Dates \in SUBSET Nat /\ Dates # {} BY LeaveAssumption
<1> QED BY <1>1, LeastOfNat

LEMMA InitIInv == Init => IInv
<1> SUFFICES ASSUME Init PROVE IInv OBVIOUS
<1>1. today \in Dates BY FirstDate DEF Init
<1>2. leave \in [Leaves -> {NoLeave} \cup LeaveRequest] BY DEF Init
<1>3. policy \in [Policies -> {NoPolicy} \cup Policy] BY DEF Init
<1>4. employee \in Employee BY DEF Init
<1>5. req \in [Requests -> Request] BY DEF Init, Request
<1>6. Filed BY DEF Init, Filed
<1> QED BY <1>1, <1>2, <1>3, <1>4, <1>5, <1>6 DEF IInv, TypeOK

-----------------------------------------------------------------------------
(***************************************************************************)
(* Each action keeps the types, and no request is ever unfiled.            *)
(***************************************************************************)
LEMMA BeginKeeps ==
    ASSUME IInv, NEW t \in Requests, NEW l \in Leaves, BeginApprove(t, l) \/ BeginReject(t, l)
    PROVE  IInv'
<1>1. PICK op \in Decisions :
        /\ Start(t, [op |-> op, leave |-> l, on |-> today])
        /\ leave[l].status = "pending"
        /\ UNCHANGED <<leave, policy, employee, today>>
  BY DEF BeginApprove, BeginReject, Decisions
<1>2. [op |-> op, leave |-> l, on |-> today] \in Request BY DEF Request, IInv, TypeOK
<1>3. TypeOK' BY <1>1, <1>2 DEF IInv, TypeOK, Start
<1>4. leave[l] # NoLeave BY <1>1 DEF NoLeave
<1>5. req'[t].leave = l BY <1>1 DEF Start, IInv, TypeOK
<1>6. Filed' BY <1>1, <1>4, <1>5 DEF IInv, TypeOK, Filed, Start
<1> QED BY <1>3, <1>6 DEF IInv

LEMMA DecideKeeps ==
    ASSUME IInv, NEW t \in Requests, Decide(t)
    PROVE  IInv'
<1> DEFINE r == req[t]
           l == r.leave
<1>1. r \in [op : Decisions, leave : Leaves, on : Dates] BY DEF Decide, IInv, TypeOK, Request
<1>2. leave[l] \in LeaveRequest BY <1>1 DEF Decide, IInv, TypeOK, Filed
<1>3. Decided(leave[l], r) \in LeaveRequest BY <1>1, <1>2 DEF Decided, LeaveRequest
<1>4. Decided(leave[l], r) # NoLeave BY <1>1 DEF Decided, NoLeave, Decisions
<1>5. /\ leave' = [leave EXCEPT ![l] = Decided(leave[l], r)]
      /\ req' = [req EXCEPT ![t] = Idle]
      /\ UNCHANGED <<policy, employee, today>>
  BY DEF Decide, Finish
<1> HIDE DEF l
<1>6. TypeOK' BY <1>1, <1>3, <1>5 DEF IInv, TypeOK, Request
<1>7. Filed' BY <1>4, <1>5 DEF IInv, TypeOK, Filed, Request
<1> QED BY <1>6, <1>7 DEF IInv

LEMMA FileKeeps ==
    ASSUME IInv, NEW l \in Leaves, NEW start \in LeaveDates, NEW days \in Bills, File(l, start, days)
    PROVE  IInv'
<1> DEFINE row == [start |-> start, days |-> days, status |-> "pending"]
<1>1. row \in LeaveRequest /\ row # NoLeave BY DEF LeaveRequest, NoLeave
<1>2. leave' = [leave EXCEPT ![l] = row] /\ UNCHANGED <<policy, employee, today, req>>
  BY DEF File
<1> HIDE DEF row
<1>3. TypeOK' BY <1>1, <1>2 DEF IInv, TypeOK
<1>4. Filed' BY <1>1, <1>2 DEF IInv, TypeOK, Filed, Request
<1> QED BY <1>3, <1>4 DEF IInv

LEMMA PolicyKeeps ==
    ASSUME IInv,
           \/ \E p \in Policies, rank \in Ranks, terms \in Terms, span \in Spans :
                 CreatePolicy(p, rank, terms, span)
           \/ \E p \in Policies : DeletePolicy(p)
    PROVE  IInv'
<1>1. policy' \in [Policies -> {NoPolicy} \cup Policy]
  BY DEF CreatePolicy, DeletePolicy, IInv, TypeOK, Policy
<1>2. UNCHANGED <<leave, employee, today, req>> BY DEF CreatePolicy, DeletePolicy
<1> QED BY <1>1, <1>2 DEF IInv, TypeOK, Filed

LEMMA NextKeeps == ASSUME IInv, [Next]_vars PROVE IInv'
<1>1. ASSUME NEW t \in Requests, Handler(t) PROVE IInv'
  <2>1. CASE Rollback(t) BY <2>1 DEF Rollback, Finish, IInv, TypeOK, Filed, Request
  <2> QED BY <1>1, <2>1, BeginKeeps, DecideKeeps DEF Handler
<1>2. ASSUME Record PROVE IInv' BY <1>2, FileKeeps, PolicyKeeps DEF Record
<1>3. ASSUME Tomorrow PROVE IInv' BY <1>3 DEF Tomorrow, IInv, TypeOK, Filed
<1>4. ASSUME UpdateEmployee PROVE IInv' BY <1>4 DEF UpdateEmployee, IInv, TypeOK, Filed
<1>5. ASSUME UNCHANGED vars PROVE IInv' BY <1>5 DEF vars, IInv, TypeOK, Filed
<1> QED BY <1>1, <1>2, <1>3, <1>4, <1>5 DEF Next

LEMMA Invariance == Spec => []IInv
BY InitIInv, NextKeeps, PTL DEF Spec

\* Every request, policy, employee and decision is one the handlers know.
THEOREM TypeCorrect == Spec => []TypeOK
<1>1. IInv => TypeOK BY DEF IInv
<1> QED BY <1>1, Invariance, PTL

-----------------------------------------------------------------------------
(***************************************************************************)
(* Entitlement.                                                            *)
(***************************************************************************)
LEMMA MonthsAndDays ==
    ASSUME NEW date \in Nat
    PROVE  /\ MonthOf(date) \in Nat /\ DayOf(date) \in 0..31
           /\ date = 32 * MonthOf(date) + DayOf(date)
           /\ YearOf(date) \in Nat
           /\ YearStart(YearOf(date)) \in Nat /\ YearEnd(YearOf(date)) \in Nat
BY DEF MonthOf, DayOf, YearOf, YearStart, YearEnd, Date

\* No more than twelve months are completed within a year.
LEMMA TwelveMonths ==
    ASSUME NEW year \in Nat, NEW start \in Nat, NEW end \in Nat,
           YearStart(year) <= start, end <= YearEnd(year)
    PROVE  CompletedMonths(start, end) \in 0..12
<1>1. 384 * year <= start /\ end <= 384 * year + 383 BY DEF YearStart, YearEnd, Date
<1>2. CASE end < start BY <1>2 DEF CompletedMonths
<1>3. CASE start <= end
  <2> DEFINE ms == MonthOf(start)
             me == MonthOf(end)
             ds == DayOf(start)
             de == DayOf(end)
  <2>1. /\ ms \in Nat /\ me \in Nat /\ ds \in 0..31 /\ de \in 0..31
        /\ start = 32 * ms + ds /\ end = 32 * me + de
    BY MonthsAndDays
  <2>2. CompletedMonths(start, end) = me - ms + (IF de < ds THEN 0 ELSE 1)
    BY <1>3 DEF CompletedMonths
  <2> HIDE DEF ms, me, ds, de
  <2>3. 12 * year <= ms /\ me <= 12 * year + 11 BY <1>1, <2>1
  <2>4. ms <= me /\ (de < ds => ms < me) BY <1>3, <2>1
  <2> QED BY <2>1, <2>2, <2>3, <2>4
<1> QED BY <1>2, <1>3

\* Who is here from its first day to its last completes all of them.
LEMMA WholeYearMonths ==
    ASSUME NEW year \in Nat
    PROVE  CompletedMonths(YearStart(year), YearEnd(year)) = 12
<1>1. YearStart(year) = 32 * (12 * year) + 1 /\ YearEnd(year) = 32 * (12 * year + 11) + 31
  BY DEF YearStart, YearEnd, Date
<1>2. /\ MonthOf(YearStart(year)) = 12 * year /\ MonthOf(YearEnd(year)) = 12 * year + 11
      /\ DayOf(YearStart(year)) = 1 /\ DayOf(YearEnd(year)) = 31
  BY <1>1 DEF MonthOf, DayOf
<1> QED BY <1>1, <1>2 DEF CompletedMonths

\* Rounding to half days moves a number of days by no more than a quarter.
LEMMA QuantizeNear ==
    ASSUME NEW twelfths \in Nat
    PROVE  /\ Quantize(twelfths) \in Nat
           /\ 24 * Quantize(twelfths) <= 2 * twelfths + 60
           /\ 2 * twelfths - 60 < 24 * Quantize(twelfths)
<1> DEFINE q == (twelfths + 30) \div 60
<1>1. q \in Int /\ 60 * q <= twelfths + 30 /\ twelfths + 30 < 60 * q + 60 BY Divided
<1>2. Quantize(twelfths) = 5 * q BY DEF Quantize
<1> HIDE DEF q
<1> QED BY <1>1, <1>2

\* However somebody joined and left, the two methods come to the same at the
\* end of any year: to no more than the year's days, and for a year served in
\* full to no less, but for a rounding by a quarter of a day at most.
THEOREM MethodsMeetHolds == Spec => []MethodsMeet
<1>1. ASSUME IInv PROVE MethodsMeet
  <2> SUFFICES ASSUME NEW terms \in Terms
               PROVE  LET year  == YearOf(today)
                          grant == Earned(terms, "annual", year, YearEnd(year))
                      IN /\ grant = Earned(terms, "monthly", year, YearEnd(year))
                         /\ 2 * grant <= 2 * terms.annual + 5
                         /\ WholeYear(terms, year) => 2 * grant > 2 * terms.annual - 5
    BY DEF MethodsMeet
  <2> DEFINE year  == YearOf(today)
             join  == Joined(terms)
             exit  == Exited(terms)
             start == WindowStart(year, join)
             end   == WindowEnd(year, exit)
             n     == CompletedMonths(start, end)
  <2>2. today \in Nat /\ terms.annual \in Nat BY <1>1, LeaveAssumption DEF IInv, TypeOK
  <2>3. join \in Nat /\ exit \in Nat
    <3>1. ServiceDates \cup {Never} \subseteq Nat /\ Never \in Nat BY LeaveAssumption DEF Never
    <3>2. /\ employee.joined \in ServiceDates \cup {Never}
          /\ employee.exited \in ServiceDates \cup {Never}
      BY <1>1 DEF IInv, TypeOK, Employee
    <3> QED BY <3>1, <3>2 DEF Joined, Exited
  <2>4. year \in Nat /\ YearStart(year) \in Nat /\ YearEnd(year) \in Nat
    BY <2>2, MonthsAndDays
  <2> HIDE DEF year, join, exit
  <2>5. start \in Nat /\ YearStart(year) <= start BY <2>3, <2>4 DEF WindowStart, Later
  <2>6. end \in Nat /\ end <= YearEnd(year) BY <2>3, <2>4 DEF WindowEnd, Earlier
  <2> HIDE DEF start, end
  <2>7. n \in 0..12 BY <2>4, <2>5, <2>6, TwelveMonths
  <2>8. Earlier(end, YearEnd(year)) = end BY <2>4, <2>6 DEF Earlier
  <2> HIDE DEF n
  <2>9. Earlier(12, n) = n BY <2>7 DEF Earlier
  <2>10. Earned(terms, "monthly", year, YearEnd(year))
           = IF terms.annual <= 0 \/ n = 0 THEN 0 ELSE Quantize(terms.annual * n)
    BY <2>8 DEF Earned, Entitlement, n, start, end, join, exit
  <2>11. Earned(terms, "annual", year, YearEnd(year))
           = IF terms.annual <= 0 \/ n = 0 THEN 0 ELSE Quantize(terms.annual * n)
    BY <2>9 DEF Earned, Entitlement, n, start, end, join, exit
  <2>12. terms.annual * n \in Nat /\ terms.annual * n <= 12 * terms.annual
    <3>1. \A a \in Nat, b \in 0..12 : a * b \in Nat /\ a * b <= 12 * a
      <4> SUFFICES ASSUME NEW a \in Nat, NEW b \in 0..12 PROVE a * b \in Nat /\ a * b <= 12 * a
        OBVIOUS
      <4>1. b \in {0, 1, 2, 3, 4, 5, 6, 7, 8, 9, 10, 11, 12} OBVIOUS
      <4> QED BY <4>1
    <3> QED BY <2>2, <2>7, <3>1
  <2> DEFINE w == terms.annual * n
             grant == Earned(terms, "annual", year, YearEnd(year))
  <2>13. w = 0 => Quantize(w) = 0 BY DEF Quantize
  <2>14. grant = Quantize(w) BY <2>2, <2>7, <2>11, <2>13
  <2>15. WholeYear(terms, year) => n = 12
    <3> SUFFICES ASSUME WholeYear(terms, year) PROVE n = 12 OBVIOUS
    <3>1. start = YearStart(year)
      BY <2>3, <2>4 DEF WholeYear, start, WindowStart, Later, join
    <3>2. end = YearEnd(year)
      BY <2>3, <2>4 DEF WholeYear, end, WindowEnd, Earlier, exit
    <3> QED BY <2>4, <3>1, <3>2, WholeYearMonths DEF n
  <2>16. /\ 24 * Quantize(w) <= 2 * w + 60 /\ 2 * w - 60 < 24 * Quantize(w)
         /\ Quantize(w) \in Nat /\ w \in Nat /\ w <= 12 * terms.annual
    BY <2>12, QuantizeNear
  <2>17. WholeYear(terms, year) => w = 12 * terms.annual BY <2>2, <2>15
  <2> HIDE DEF w, grant
  <2>18. 2 * grant <= 2 * terms.annual + 5 BY <2>2, <2>14, <2>16
  <2>19. WholeYear(terms, year) => 2 * grant > 2 * terms.annual - 5
    BY <2>2, <2>14, <2>16, <2>17
  <2> QED BY <2>10, <2>11, <2>18, <2>19 DEF year, grant
<1> QED BY <1>1, Invariance, PTL

-----------------------------------------------------------------------------
(***************************************************************************)
(* The policy that counts.                                                 *)
(***************************************************************************)
\* A policy for a wider scope is never among those that count while a narrower
\* one is in force, and leaves those that do as they were.
LEMMA PicksStand ==
    ASSUME IInv, NEW p \in Policies, NEW rank \in Ranks, NEW terms \in Terms,
           NEW span \in Spans, CreatePolicy(p, rank, terms, span),
           NEW n \in Matches(today), policy[n].rank > rank
    PROVE  /\ PickPolicy(today)' = PickPolicy(today)
           /\ \A q \in PickPolicy(today) : policy'[q] = policy[q]
<1> DEFINE row == [rank |-> rank, terms |-> terms, span |-> span]
<1>1. /\ policy[p] = NoPolicy /\ policy' = [policy EXCEPT ![p] = row] /\ today' = today
  BY DEF CreatePolicy
<1>2. row \in Policy /\ row.rank = rank BY DEF Policy
<1> HIDE DEF row
<1>3. /\ \A q \in Matches(today) : q \in Policies /\ q # p /\ policy'[q] = policy[q]
      /\ \A q \in Policies : q # p => policy'[q] = policy[q]
      /\ policy'[p] = row
  BY <1>1 DEF Matches, Live, IInv, TypeOK
<1>4. \A q \in Policies : q # p => (q \in Matches(today)' <=> q \in Matches(today))
  BY <1>1, <1>3 DEF Matches, Live
<1>5. \A q \in Matches(today) : policy[q].rank \in Nat
  <2>1. \A q \in Matches(today) : policy[q] \in Policy
    BY DEF Matches, Live, IInv, TypeOK
  <2>2. Ranks \subseteq Nat BY LeaveAssumption
  <2> QED BY <2>1, <2>2 DEF Policy
<1>6. rank \in Nat BY LeaveAssumption
<1>7. Matches(today)' \subseteq Policies BY DEF Matches, Live
<1>8. ASSUME NEW q \in PickPolicy(today) PROVE q \in PickPolicy(today)'
  <2>1. q \in Matches(today) /\ q \in Matches(today)' BY <1>3, <1>4, <1>8 DEF PickPolicy
  <2>2. policy[q].rank > rank
    <3>1. policy[n].rank <= policy[q].rank BY <1>5, <1>8, <2>1 DEF PickPolicy
    <3> QED BY <1>5, <1>6, <2>1, <3>1
  <2>3. ASSUME NEW o \in Matches(today)'
        PROVE  \/ policy'[o].rank < policy'[q].rank
               \/ policy'[o].rank = policy'[q].rank /\ policy'[o].span.from <= policy'[q].span.from
    <3>1. CASE o = p BY <1>2, <1>3, <1>5, <1>6, <2>1, <2>2, <3>1
    <3>2. CASE o # p
      <4>1. o \in Matches(today) /\ policy'[o] = policy[o] BY <1>3, <1>4, <1>7, <2>3, <3>2
      <4> QED BY <1>3, <1>8, <2>1, <4>1 DEF PickPolicy
    <3> QED BY <3>1, <3>2
  <2> QED BY <2>1, <2>3 DEF PickPolicy
<1>9. ASSUME NEW q \in PickPolicy(today)' PROVE q \in PickPolicy(today)
  <2>1. q \in Matches(today)' BY <1>9 DEF PickPolicy
  <2>2. n \in Matches(today)' BY <1>3, <1>4
  <2>3. q # p
    <3>1. SUFFICES ASSUME q = p PROVE FALSE OBVIOUS
    <3>2. policy'[n].rank < policy'[p].rank \/ policy'[n].rank = policy'[p].rank
      BY <1>9, <2>2, <3>1 DEF PickPolicy
    <3> QED BY <1>2, <1>3, <1>5, <1>6, <3>2
  <2>4. q \in Matches(today) BY <1>4, <1>7, <2>1, <2>3
  <2>5. ASSUME NEW o \in Matches(today)
        PROVE  \/ policy[o].rank < policy[q].rank
               \/ policy[o].rank = policy[q].rank /\ policy[o].span.from <= policy[q].span.from
    <3>1. o \in Matches(today)' BY <1>3, <1>4
    <3> QED BY <1>3, <1>9, <2>4, <3>1 DEF PickPolicy
  <2> QED BY <2>4, <2>5 DEF PickPolicy
<1>10. PickPolicy(today) \subseteq Matches(today) BY DEF PickPolicy
<1> QED BY <1>3, <1>8, <1>9, <1>10

\* What terms grant depends on requests, employee and day, not on policies.
LEMMA GrantsStand ==
    ASSUME UNCHANGED <<leave, employee, today>>, NEW terms
    PROVE  Granted(terms, today)' = Granted(terms, today)
<1>1. \A year : Used(year)' = Used(year) BY DEF Used
<1>2. \A S : Total(S)' = Total(S) BY DEF Total
<1>3. \A method, year, asOf :
        Earned(terms, method, year, asOf)' = Earned(terms, method, year, asOf)
  BY DEF Earned, Joined, Exited
<1>4. \A year : CarriedForward(terms, year)' = CarriedForward(terms, year)
  BY <1>1, <1>2, <1>3 DEF CarriedForward
<1> QED BY <1>3, <1>4 DEF Granted

\* However many decisions are in flight, a policy written for a wider scope
\* changes nobody's allocation while a narrower one is in force.
THEOREM NarrowerStandsHolds == Spec => NarrowerStands
<1>1. ASSUME IInv, NEW p \in Policies, NEW rank \in Ranks, NEW terms \in Terms,
             NEW span \in Spans, CreatePolicy(p, rank, terms, span),
             NEW n \in Matches(today), policy[n].rank > rank
      PROVE  Entitled' = Entitled
  <2>1. /\ PickPolicy(today)' = PickPolicy(today)
        /\ \A q \in PickPolicy(today) : policy'[q] = policy[q]
    BY <1>1, PicksStand
  <2>2. \A q \in PickPolicy(today) :
          Granted(policy[q].terms, today)' = Granted(policy[q].terms, today)
    <3>1. UNCHANGED <<leave, employee, today>> BY <1>1 DEF CreatePolicy
    <3>2. \A any : Granted(any, today)' = Granted(any, today) BY <3>1, GrantsStand
    <3> QED BY <2>1, <3>2
  <2> QED BY <2>1, <2>2 DEF Entitled
<1>2. IInv /\ [Next]_vars =>
        [\A p \in Policies, rank \in Ranks, terms \in Terms, span \in Spans :
          CreatePolicy(p, rank, terms, span) =>
             ((\E q \in Matches(today) : policy[q].rank > rank) => Entitled' = Entitled)]_vars
  BY <1>1
<1> QED BY <1>2, Invariance, PTL DEF Spec, NarrowerStands

-----------------------------------------------------------------------------
(***************************************************************************)
(* What requests sum to.                                                   *)
(***************************************************************************)
TotalOf(rows, S) == SumFunctionOnSet([l \in S |-> rows[l].days], S)

LEMMA TotalIsTotalOf ==
    ASSUME NEW S
    PROVE  Total(S) = TotalOf(leave, S) /\ Total(S)' = TotalOf(leave', S)
BY DEF Total, TotalOf

LEMMA TotalOfType ==
    ASSUME NEW S, IsFiniteSet(S), NEW rows, \A l \in S : rows[l].days \in Int
    PROVE  TotalOf(rows, S) \in Int
BY SumType DEF TotalOf

LEMMA TotalOfSame ==
    ASSUME NEW S, IsFiniteSet(S), NEW rows, NEW others,
           \A l \in S : rows[l].days = others[l].days
    PROVE  TotalOf(rows, S) = TotalOf(others, S)
BY DEF TotalOf

LEMMA TotalOfPart ==
    ASSUME NEW S, IsFiniteSet(S), NEW rows, \A l \in S : rows[l].days \in Nat, NEW T \in SUBSET S
    PROVE  TotalOf(rows, T) <= TotalOf(rows, S)
<1> DEFINE f == [l \in S |-> rows[l].days]
           g == [l \in T |-> rows[l].days]
<1>1. IsFiniteSet(T) BY FS_Subset
<1>2. \A l \in T : f[l] = g[l] OBVIOUS
<1>3. \A l \in S : f[l] \in Nat OBVIOUS
<1> HIDE DEF f, g
<1>4. SumFunctionOnSet(f, T) = SumFunctionOnSet(g, T) BY <1>1, <1>2, SumSame
<1>5. SumFunctionOnSet(f, T) <= SumFunctionOnSet(f, S) BY <1>3, SumMonotone
<1> QED BY <1>4, <1>5 DEF TotalOf, f, g

LEMMA TotalOfWith ==
    ASSUME NEW S, IsFiniteSet(S), NEW rows, NEW x, x \notin S,
           \A l \in S \cup {x} : rows[l].days \in Int
    PROVE  TotalOf(rows, S \cup {x}) = rows[x].days + TotalOf(rows, S)
<1> DEFINE f == [l \in S \cup {x} |-> rows[l].days]
           g == [l \in S |-> rows[l].days]
<1>1. \A l \in S : f[l] = g[l] OBVIOUS
<1>2. \A l \in S \cup {x} : f[l] \in Int OBVIOUS
<1>3. f[x] = rows[x].days OBVIOUS
<1> HIDE DEF f, g
<1>4. SumFunctionOnSet(f, S) = SumFunctionOnSet(g, S) BY <1>1, SumSame
<1>5. SumFunctionOnSet(f, S \cup {x}) = f[x] + SumFunctionOnSet(f, S) BY <1>2, SumWith
<1> QED BY <1>3, <1>4, <1>5 DEF TotalOf, f, g

LEMMA ApprovedRow ==
    ASSUME TypeOK, NEW l \in Leaves, leave[l].status \in Decisions
    PROVE  /\ leave[l] \in LeaveRequest
           /\ leave[l].days \in Nat \ {0}
           /\ leave[l].start \in Nat /\ leave[l].decided \in Nat
           /\ leave[l].decided \in Dates
<1>1. leave[l] \in LeaveRequest BY DEF TypeOK, NoLeave, Decisions
<1>2. leave[l].days \in Bills /\ leave[l].start \in LeaveDates BY <1>1 DEF LeaveRequest
<1>3. leave[l].decided \in Dates BY <1>1 DEF LeaveRequest, Decisions
<1> QED BY <1>1, <1>2, <1>3, LeaveAssumption

\* What some rows say is used of a year.
UsedOf(rows, year) ==
    TotalOf(rows, {l \in Leaves : rows[l].status = "approved" /\ YearOf(rows[l].start) = year})

LEMMA UsedIsUsedOf ==
    ASSUME NEW year
    PROVE  Total(Used(year)) = UsedOf(leave, year)
BY DEF Total, TotalOf, Used, UsedOf

LEMMA UsedTotal ==
    ASSUME TypeOK, NEW year
    PROVE  /\ IsFiniteSet(Used(year))
           /\ UsedOf(leave, year) \in Int
<1>1. IsFiniteSet(Used(year)) BY LeaveAssumption, FS_Subset DEF Used
<1>2. \A l \in Used(year) : leave[l].days \in Int BY ApprovedRow DEF Used, Decisions
<1>3. TotalOf(leave, Used(year)) \in Int BY <1>1, <1>2, TotalOfType
<1> QED BY <1>1, <1>3 DEF UsedOf, Used

-----------------------------------------------------------------------------
(***************************************************************************)
(* The quota, while decisions do not overlap.  What an approval about to   *)
(* commit has checked is still so: nothing else is approved in between,    *)
(* and nothing was decided later than it is.                               *)
(***************************************************************************)
InTurn == \A t, u \in Requests : req[t] # Idle /\ req[u] # Idle => t = u

DecidedBy(rows, day) == \A l \in Leaves : rows[l].status \in Decisions => rows[l].decided <= day

Checked(rows, day, r) ==
    r # Idle =>
        /\ rows[r.leave].status = "pending"
        /\ r.on <= day
        /\ DecidedBy(rows, r.on)
        /\ r.op = "approved" => rows[r.leave].days + UsedOf(rows, YearOf(r.on)) <= Quota

QuotaInv ==
    /\ QuotaKept
    /\ DecidedBy(leave, today)
    /\ \A t \in Requests : Checked(leave, today, req[t])

\* What is approved for the year a request is for, up to when it was decided.
UpTo(rows, l) ==
    {m \in Leaves :
        /\ rows[m].status = "approved"
        /\ YearOf(rows[m].start) = YearOf(rows[l].start)
        /\ rows[m].decided <= rows[l].decided}

Kept(rows) ==
    \A l \in Leaves :
        rows[l].status = "approved" /\ YearOf(rows[l].decided) = YearOf(rows[l].start)
            => TotalOf(rows, UpTo(rows, l)) <= Quota

LEMMA QuotaKeptIsKept == (QuotaKept <=> Kept(leave)) /\ (QuotaKept' <=> Kept(leave'))
BY DEF QuotaKept, Kept, UpTo, Total, TotalOf

LEMMA UpToTotal ==
    ASSUME TypeOK, NEW l
    PROVE  /\ IsFiniteSet(UpTo(leave, l))
           /\ \A m \in UpTo(leave, l) : leave[m].days \in Nat
<1>1. IsFiniteSet(UpTo(leave, l)) BY LeaveAssumption, FS_Subset DEF UpTo
<1>2. \A m \in UpTo(leave, l) : leave[m].days \in Nat BY ApprovedRow DEF UpTo, Decisions
<1> QED BY <1>1, <1>2

\* As long as the approved requests stay what they are, so does the quota.
LEMMA KeptStays ==
    ASSUME TypeOK, Kept(leave), NEW rows,
           \A l \in Leaves : rows[l].status = "approved" <=> leave[l].status = "approved",
           \A l \in Leaves : leave[l].status = "approved" => rows[l] = leave[l]
    PROVE  Kept(rows) /\ \A year : UsedOf(rows, year) = UsedOf(leave, year)
<1>1. ASSUME NEW l \in Leaves, leave[l].status = "approved"
      PROVE  TotalOf(rows, UpTo(rows, l)) = TotalOf(leave, UpTo(leave, l))
  <2>1. UpTo(rows, l) = UpTo(leave, l) BY <1>1 DEF UpTo
  <2>2. \A m \in UpTo(leave, l) : rows[m].days = leave[m].days BY DEF UpTo
  <2>3. TotalOf(rows, UpTo(leave, l)) = TotalOf(leave, UpTo(leave, l))
    BY <2>2, UpToTotal, TotalOfSame
  <2> QED BY <2>1, <2>3
<1>2. ASSUME NEW year PROVE UsedOf(rows, year) = UsedOf(leave, year)
  <2> DEFINE used == {l \in Leaves : rows[l].status = "approved" /\ YearOf(rows[l].start) = year}
  <2>1. used = Used(year) BY DEF Used
  <2>2. \A m \in Used(year) : rows[m].days = leave[m].days BY DEF Used
  <2>3. TotalOf(rows, Used(year)) = TotalOf(leave, Used(year)) BY <2>2, UsedTotal, TotalOfSame
  <2> QED BY <2>1, <2>3 DEF UsedOf, Used
<1>3. Kept(rows) BY <1>1 DEF Kept
<1> QED BY <1>2, <1>3

\* Whatever begins, is filed, is rolled back or passes decides nothing.
LEMMA QuietQuota ==
    ASSUME IInv, QuotaInv, IInv', today <= today',
           \A l \in Leaves : leave[l].status # "none" => leave'[l] = leave[l],
           \A l \in Leaves : leave[l].status = "none" => leave'[l].status \in {"none", "pending"},
           \A t \in Requests : req'[t] = req[t] \/ Checked(leave, today, req'[t])
    PROVE  QuotaInv'
<1>1. \A l \in Leaves : leave[l].status \in {"none", "pending"} \cup Decisions
  BY DEF IInv, TypeOK, NoLeave, LeaveRequest
<1>2. /\ \A l \in Leaves : leave'[l].status = "approved" <=> leave[l].status = "approved"
      /\ \A l \in Leaves : leave[l].status = "approved" => leave'[l] = leave[l]
      /\ \A l \in Leaves : leave'[l].status \in Decisions =>
            leave'[l] = leave[l] /\ leave[l].status \in Decisions
  BY <1>1 DEF Decisions
<1>3. Kept(leave') /\ \A year : UsedOf(leave', year) = UsedOf(leave, year)
  BY <1>2, QuotaKeptIsKept, KeptStays DEF QuotaInv, IInv
<1>4. today \in Nat /\ today' \in Nat BY LeaveAssumption DEF IInv, TypeOK
<1>5. \A day : DecidedBy(leave, day) => DecidedBy(leave', day) BY <1>2 DEF DecidedBy
<1>6. DecidedBy(leave', today')
  <2> SUFFICES ASSUME NEW l \in Leaves, leave'[l].status \in Decisions
               PROVE  leave'[l].decided <= today'
    BY DEF DecidedBy
  <2>1. leave'[l] = leave[l] /\ leave[l].status \in Decisions BY <1>2
  <2>2. leave[l].decided <= today BY <2>1 DEF QuotaInv, DecidedBy
  <2>3. leave[l].decided \in Nat BY <2>1, ApprovedRow DEF IInv
  <2> QED BY <1>4, <2>1, <2>2, <2>3
<1>7. ASSUME NEW t \in Requests PROVE Checked(leave', today', req'[t])
  <2> DEFINE r == req'[t]
  <2> SUFFICES ASSUME r # Idle PROVE Checked(leave', today', r) BY DEF Checked
  <2>1. Checked(leave, today, r) BY DEF QuotaInv
  <2>2. r.on \in Nat /\ r.leave \in Leaves
    <3>1. r \in Request BY DEF IInv, TypeOK
    <3> QED BY <3>1, LeaveAssumption DEF Request
  <2> HIDE DEF r
  <2>3. leave'[r.leave] = leave[r.leave] BY <2>1, <2>2 DEF Checked
  <2>4. r.on <= today' BY <1>4, <2>1, <2>2 DEF Checked
  <2>5. DecidedBy(leave', r.on) BY <1>5, <2>1 DEF Checked
  <2> QED BY <1>3, <2>1, <2>3, <2>4, <2>5 DEF Checked
<1> QED BY <1>3, <1>6, <1>7, QuotaKeptIsKept DEF QuotaInv

\* An approval adds its days to what was used of the year it was checked for,
\* and to the totals of requests for that year that were decided with it.
LEMMA DecideQuota ==
    ASSUME IInv, QuotaInv, IInv', InTurn, NEW t \in Requests, Decide(t)
    PROVE  QuotaInv'
<1> DEFINE r  == req[t]
           l0 == r.leave
<1>1. /\ r \in [op : Decisions, leave : Leaves, on : Dates]
      /\ r # Idle
      /\ Checked(leave, today, r)
  BY DEF Decide, IInv, TypeOK, Request, QuotaInv
<1>2. /\ l0 \in Leaves /\ r.on \in Nat /\ r.on <= today /\ today \in Nat
      /\ leave[l0].status = "pending" /\ DecidedBy(leave, r.on)
      /\ r.op \in Decisions
  BY <1>1, LeaveAssumption DEF Checked, IInv, TypeOK
<1>3. /\ leave' = [leave EXCEPT ![l0] = Decided(leave[l0], r)]
      /\ req' = [req EXCEPT ![t] = Idle] /\ today' = today
  BY DEF Decide, Finish
<1>4. /\ leave'[l0].status = r.op /\ leave'[l0].decided = r.on
      /\ leave'[l0].start = leave[l0].start /\ leave'[l0].days = leave[l0].days
      /\ \A l \in Leaves : l # l0 => leave'[l] = leave[l]
  BY <1>2, <1>3 DEF Decided, IInv, TypeOK
<1>5. \A u \in Requests : req'[u] = Idle BY <1>1, <1>3 DEF InTurn, IInv, TypeOK
<1>6. \A u \in Requests : Checked(leave', today', req'[u]) BY <1>5 DEF Checked
<1>7. leave[l0].days \in Nat /\ leave[l0].start \in Nat
  <2>1. leave[l0] \in LeaveRequest BY <1>2 DEF IInv, TypeOK, NoLeave
  <2> QED BY <2>1, LeaveAssumption DEF LeaveRequest
<1>8. \A l \in Leaves : leave'[l].status \in Decisions => leave'[l].decided <= r.on
  BY <1>2, <1>4 DEF DecidedBy
<1>9. DecidedBy(leave', today')
  <2>1. \A l \in Leaves : leave'[l].status \in Decisions => leave'[l].decided \in Nat
    BY ApprovedRow, <1>2, <1>4 DEF IInv
  <2> QED BY <1>2, <1>3, <1>8, <2>1 DEF DecidedBy
<1> HIDE DEF r, l0
<1>10. ASSUME NEW l \in Leaves, leave'[l].status = "approved",
              YearOf(leave'[l].decided) = YearOf(leave'[l].start)
       PROVE  TotalOf(leave', UpTo(leave', l)) <= Quota
  <2> DEFINE after == UpTo(leave', l)
  <2>1. CASE l0 \notin after
    <3>1. l # l0
      <4>1. leave'[l].decided \in Nat BY <1>2, <1>4, <1>10, ApprovedRow DEF IInv, Decisions
      <4> QED BY <1>10, <2>1, <4>1 DEF UpTo
    <3>2. after = UpTo(leave, l)
      BY <1>2, <1>4, <2>1, <3>1 DEF UpTo
    <3>3. l0 \notin UpTo(leave, l) /\ UpTo(leave, l) \subseteq Leaves BY <2>1, <3>2 DEF UpTo
    <3>4. \A m \in UpTo(leave, l) : leave'[m].days = leave[m].days BY <1>4, <3>3
    <3>5. TotalOf(leave', UpTo(leave, l)) = TotalOf(leave, UpTo(leave, l))
      BY <3>4, UpToTotal, TotalOfSame DEF IInv
    <3>6. TotalOf(leave, UpTo(leave, l)) <= Quota
      BY <1>4, <1>10, <3>1, QuotaKeptIsKept DEF QuotaInv, Kept
    <3> QED BY <3>2, <3>5, <3>6
  <2>2. CASE l0 \in after
    <3> DEFINE rest == after \ {l0}
               year == YearOf(r.on)
    <3>1. r.op = "approved" /\ YearOf(leave[l0].start) = YearOf(leave'[l].start)
          /\ r.on <= leave'[l].decided
      BY <1>4, <2>2 DEF UpTo
    <3>2. leave'[l].decided = r.on
      <4>1. leave'[l].decided <= r.on BY <1>8, <1>10 DEF Decisions
      <4>2. leave'[l].decided \in Nat BY <1>2, <1>4, <1>10, ApprovedRow DEF IInv, Decisions
      <4> QED BY <1>2, <3>1, <4>1, <4>2
    <3>3. year = YearOf(leave'[l].start) BY <1>10, <3>2
    <3>4. rest \subseteq Used(year) BY <1>4, <3>3 DEF UpTo, Used
    <3>5. l0 \notin Used(year) BY <1>2 DEF Used
    <3>6. IsFiniteSet(rest) /\ l0 \notin rest /\ after = rest \cup {l0}
      BY <2>2, <3>4, UsedTotal, FS_Subset DEF IInv
    <3>7. \A m \in Used(year) : leave[m].days \in Nat BY ApprovedRow DEF Used, Decisions, IInv
    <3>8. \A m \in rest : leave'[m].days = leave[m].days
      <4>1. rest \subseteq Leaves BY DEF UpTo
      <4> QED BY <1>4, <4>1
    <3>9. TotalOf(leave', after) = leave[l0].days + TotalOf(leave', rest)
      <4>1. \A m \in rest \cup {l0} : leave'[m].days \in Int
        BY <1>4, <1>7, <3>4, <3>7, <3>8
      <4>2. TotalOf(leave', rest \cup {l0}) = leave'[l0].days + TotalOf(leave', rest)
        BY <3>6, <4>1, TotalOfWith
      <4> QED BY <1>4, <3>6, <4>2
    <3> HIDE DEF rest, after
    <3>10. TotalOf(leave', rest) = TotalOf(leave, rest) BY <3>6, <3>8, TotalOfSame
    <3>11. TotalOf(leave, rest) <= TotalOf(leave, Used(year))
      BY <3>4, <3>7, UsedTotal, TotalOfPart DEF IInv
    <3>12. TotalOf(leave, Used(year)) = UsedOf(leave, year) BY DEF UsedOf, Used
    <3>13. leave[l0].days + UsedOf(leave, year) <= Quota BY <1>1, <3>1 DEF Checked, l0
    <3>14. TotalOf(leave, rest) \in Int /\ UsedOf(leave, year) \in Int
      <4>1. \A m \in rest : leave[m].days \in Int BY <3>4, <3>7
      <4> QED BY <3>6, <4>1, UsedTotal, TotalOfType DEF IInv
    <3> QED BY <1>7, <3>9, <3>10, <3>11, <3>12, <3>13, <3>14, LeaveAssumption DEF after
  <2> QED BY <2>1, <2>2
<1>11. Kept(leave') BY <1>10 DEF Kept
<1> QED BY <1>6, <1>9, <1>11, QuotaKeptIsKept DEF QuotaInv

LEMMA BeginQuota ==
    ASSUME IInv, QuotaInv, IInv', NEW t \in Requests, NEW l \in Leaves,
           BeginApprove(t, l) \/ BeginReject(t, l)
    PROVE  QuotaInv'
<1>1. PICK op \in Decisions :
        /\ req' = [req EXCEPT ![t] = [op |-> op, leave |-> l, on |-> today]]
        /\ leave[l].status = "pending"
        /\ op = "approved" => leave[l].days <= Remaining
        /\ UNCHANGED <<leave, policy, employee, today>>
  BY DEF BeginApprove, BeginReject, Decisions, Start
<1> DEFINE r == [op |-> op, leave |-> l, on |-> today]
<1>2. today \in Nat /\ Quota \in Nat BY LeaveAssumption DEF IInv, TypeOK
<1>3. op = "approved" => leave[l].days + UsedOf(leave, YearOf(today)) <= Quota
  <2>1. leave[l] \in LeaveRequest BY <1>1 DEF IInv, TypeOK, NoLeave
  <2>2. leave[l].days \in Nat BY <2>1, LeaveAssumption DEF LeaveRequest
  <2>3. Remaining = Quota - UsedOf(leave, YearOf(today)) BY UsedIsUsedOf DEF Remaining
  <2>4. UsedOf(leave, YearOf(today)) \in Int BY UsedTotal DEF IInv
  <2> QED BY <1>1, <1>2, <2>2, <2>3, <2>4
<1>4. Checked(leave, today, r) BY <1>1, <1>2, <1>3 DEF Checked, QuotaInv
<1> HIDE DEF r
<1>5. \A u \in Requests : req'[u] = req[u] \/ req'[u] = r BY <1>1 DEF IInv, TypeOK, r
<1>6. /\ \A m \in Leaves : leave'[m] = leave[m]
      /\ today <= today'
  BY <1>1, <1>2
<1> QED BY <1>4, <1>5, <1>6, QuietQuota

LEMMA NextQuota ==
    ASSUME IInv, QuotaInv, InTurn, [Next]_vars
    PROVE  QuotaInv'
<1>1. IInv' BY NextKeeps
<1>2. today \in Nat BY LeaveAssumption DEF IInv, TypeOK
<1>3. \A u \in Requests : Checked(leave, today, Idle) BY DEF Checked
<1>4. ASSUME UNCHANGED <<leave, req>>, today <= today' PROVE QuotaInv'
  BY <1>1, <1>4, QuietQuota
<1>5. ASSUME NEW t \in Requests, Handler(t) PROVE QuotaInv'
  <2>1. CASE Rollback(t)
    <3>1. /\ \A u \in Requests : req'[u] = req[u] \/ req'[u] = Idle
          /\ \A m \in Leaves : leave'[m] = leave[m]
          /\ today <= today'
      BY <1>2, <2>1 DEF Rollback, Finish, IInv, TypeOK
    <3> QED BY <1>1, <1>3, <3>1, QuietQuota
  <2> QED BY <1>1, <1>5, <2>1, BeginQuota, DecideQuota DEF Handler
<1>6. ASSUME NEW l \in Leaves, NEW start \in LeaveDates, NEW days \in Bills, File(l, start, days)
      PROVE  QuotaInv'
  <2>1. /\ leave[l] = NoLeave /\ leave'[l].status = "pending"
        /\ \A m \in Leaves : m # l => leave'[m] = leave[m]
        /\ req' = req /\ today <= today'
    BY <1>2, <1>6 DEF File, IInv, TypeOK
  <2> QED BY <1>1, <2>1, QuietQuota DEF NoLeave
<1>7. ASSUME Record PROVE QuotaInv'
  <2>1. CASE UNCHANGED <<leave, req, today>> BY <1>2, <1>4, <2>1
  <2> QED BY <1>6, <1>7, <2>1 DEF Record, CreatePolicy, DeletePolicy
<1>8. ASSUME UpdateEmployee PROVE QuotaInv' BY <1>2, <1>4, <1>8 DEF UpdateEmployee
<1>9. ASSUME Tomorrow PROVE QuotaInv'
  <2>1. today' \in Nat BY <1>1, LeaveAssumption DEF IInv, TypeOK
  <2> QED BY <1>2, <1>4, <1>9, <2>1 DEF Tomorrow
<1>10. ASSUME UNCHANGED vars PROVE QuotaInv' BY <1>2, <1>4, <1>10 DEF vars
<1> QED BY <1>5, <1>7, <1>8, <1>9, <1>10 DEF Next

\* As long as no two decisions overlap, what is approved in the course of a
\* year for that year never exceeds the quota, whatever is filed, for whenever,
\* and in whatever order it is decided.
THEOREM QuotaKeptHolds == Spec /\ []InTurn => []QuotaKept
<1>1. Init => QuotaInv
  <2> SUFFICES ASSUME Init PROVE QuotaInv OBVIOUS
  <2>1. \A l \in Leaves : leave[l].status = "none" BY DEF Init, NoLeave
  <2>2. Kept(leave) /\ DecidedBy(leave, today) BY <2>1 DEF Kept, DecidedBy, Decisions
  <2>3. \A t \in Requests : Checked(leave, today, req[t]) BY DEF Init, Checked
  <2> QED BY <2>2, <2>3, QuotaKeptIsKept DEF QuotaInv
<1>2. IInv /\ QuotaInv /\ InTurn /\ [Next]_vars => QuotaInv' BY NextQuota
<1>3. QuotaInv => QuotaKept BY DEF QuotaInv
<1> QED BY <1>1, <1>2, <1>3, Invariance, PTL DEF Spec

-----------------------------------------------------------------------------
(***************************************************************************)
(* What is earned stays.  Months completed, and what they are worth, only  *)
(* grow with the day they are counted to.                                  *)
(***************************************************************************)
LEMMA MonthsGrow ==
    ASSUME NEW start \in Nat, NEW end \in Nat, NEW later \in Nat, end <= later
    PROVE  /\ CompletedMonths(start, end) \in Nat /\ CompletedMonths(start, later) \in Nat
           /\ CompletedMonths(start, end) <= CompletedMonths(start, later)
<1> DEFINE completed(m, d) == m - MonthOf(start) + (IF d < DayOf(start) THEN 0 ELSE 1)
<1>1. \A e \in Nat : /\ MonthOf(e) \in Nat /\ DayOf(e) \in 0..31
                     /\ e = 32 * MonthOf(e) + DayOf(e)
  BY MonthsAndDays
<1>2. \A e \in Nat : CompletedMonths(start, e)
                       = IF e < start THEN 0 ELSE completed(MonthOf(e), DayOf(e))
  BY DEF CompletedMonths
<1>3. ASSUME NEW e \in Nat, start <= e PROVE completed(MonthOf(e), DayOf(e)) \in Nat
  BY <1>1, <1>3
<1>4. CASE end < start BY <1>2, <1>3, <1>4
<1>5. CASE start <= end
  <2>1. completed(MonthOf(end), DayOf(end)) <= completed(MonthOf(later), DayOf(later))
    <3> DEFINE ms == MonthOf(start)
               ds == DayOf(start)
               me == MonthOf(end)
               de == DayOf(end)
               ml == MonthOf(later)
               dl == DayOf(later)
    <3>1. /\ ms \in Nat /\ me \in Nat /\ ml \in Nat
          /\ ds \in 0..31 /\ de \in 0..31 /\ dl \in 0..31
          /\ end = 32 * me + de /\ later = 32 * ml + dl
      BY <1>1
    <3> HIDE DEF ms, ds, me, de, ml, dl
    <3>2. me < ml \/ (me = ml /\ de <= dl) BY <3>1
    <3>3. me - ms + (IF de < ds THEN 0 ELSE 1) <= ml - ms + (IF dl < ds THEN 0 ELSE 1)
      BY <3>1, <3>2
    <3> QED BY <3>3 DEF ms, ds, me, de, ml, dl
  <2> QED BY <1>2, <1>3, <1>5, <2>1
<1> QED BY <1>4, <1>5

LEMMA WorthGrows ==
    ASSUME NEW annual \in Nat, NEW m \in Nat, NEW n \in Nat, m <= n
    PROVE  /\ Quantize(annual * m) \in Nat /\ Quantize(annual * n) \in Nat
           /\ Quantize(annual * m) <= Quantize(annual * n)
<1>1. PICK k \in Nat : n = m + k
  <2>1. n - m \in Nat /\ n = m + (n - m) OBVIOUS
  <2> QED BY <2>1
<1>2. annual * m \in Nat /\ annual * k \in Nat OBVIOUS
<1>3. annual * n = annual * m + annual * k BY <1>1
<1> DEFINE x == annual * m
           y == annual * n
<1>4. x \in Nat /\ y \in Nat /\ x <= y BY <1>2, <1>3
<1> HIDE DEF x, y
<1>5. Quantize(x) \in Nat /\ Quantize(y) \in Nat /\ Quantize(x) <= Quantize(y)
  <2> DEFINE p == (x + 30) \div 60
             q == (y + 30) \div 60
  <2>1. /\ p \in Int /\ 60 * p <= x + 30 /\ x + 30 < 60 * p + 60
        /\ q \in Int /\ 60 * q <= y + 30 /\ y + 30 < 60 * q + 60
    BY <1>4, Divided
  <2>2. Quantize(x) = 5 * p /\ Quantize(y) = 5 * q BY DEF Quantize
  <2> HIDE DEF p, q
  <2> QED BY <1>4, <2>1, <2>2
<1> QED BY <1>5 DEF x, y

\* Who was in the year, from when to when.
LEMMA Window ==
    ASSUME NEW year \in Nat, NEW joined \in Nat, NEW exited \in Nat
    PROVE  /\ WindowStart(year, joined) \in Nat
           /\ WindowEnd(year, exited) \in Nat
           /\ WindowEnd(year, exited) <= YearEnd(year)
<1>1. YearStart(year) \in Nat /\ YearEnd(year) \in Nat BY DEF YearStart, YearEnd, Date
<1> QED BY <1>1 DEF WindowStart, WindowEnd, Earlier, Later

\* By the month, the worth of the months completed by then, nothing if none.
LEMMA MonthlyIs ==
    ASSUME NEW annual \in Nat, NEW year \in Nat, NEW joined \in Nat, NEW exited \in Nat,
           NEW asOf \in Nat
    PROVE  Entitlement(annual, "monthly", year, joined, exited, asOf)
             = Quantize(annual * CompletedMonths(WindowStart(year, joined),
                                                 Earlier(WindowEnd(year, exited), asOf)))
<1> DEFINE start == WindowStart(year, joined)
           end   == WindowEnd(year, exited)
           until == Earlier(end, asOf)
<1>1. start \in Nat /\ end \in Nat BY Window
<1> HIDE DEF start, end
<1>2. until \in Nat /\ until <= end BY <1>1 DEF Earlier
<1>3. /\ CompletedMonths(start, until) \in Nat
      /\ CompletedMonths(start, until) <= CompletedMonths(start, end)
      /\ CompletedMonths(start, end) \in Nat
  BY <1>1, <1>2, MonthsGrow
<1>4. Quantize(0) = 0 BY DEF Quantize
<1>5. CASE annual <= 0 \/ CompletedMonths(start, end) = 0
  <2>1. annual * CompletedMonths(start, until) = 0 BY <1>3, <1>5
  <2> QED BY <1>4, <1>5, <2>1 DEF Entitlement, start, end
<1>6. CASE ~(annual <= 0 \/ CompletedMonths(start, end) = 0)
  BY <1>6 DEF Entitlement, start, end
<1> QED BY <1>5, <1>6 DEF start, end

\* What a day that passes does to what has been earned.
LEMMA EntitlementGrows ==
    ASSUME NEW annual \in Nat, NEW method \in Methods, NEW year \in Nat, NEW joined \in Nat,
           NEW exited \in Nat, NEW asOf \in Nat, NEW later \in Nat, asOf <= later
    PROVE  /\ Entitlement(annual, method, year, joined, exited, asOf) \in Nat
           /\ Entitlement(annual, method, year, joined, exited, later) \in Nat
           /\ Entitlement(annual, method, year, joined, exited, asOf)
                <= Entitlement(annual, method, year, joined, exited, later)
<1> DEFINE start == WindowStart(year, joined)
           end   == WindowEnd(year, exited)
           n     == CompletedMonths(start, end)
<1>1. start \in Nat /\ end \in Nat BY Window
<1>2. CASE method = "monthly"
  <2> HIDE DEF start, end
  <2>1. /\ Earlier(end, asOf) \in Nat /\ Earlier(end, later) \in Nat
        /\ Earlier(end, asOf) <= Earlier(end, later)
    BY <1>1 DEF Earlier
  <2>2. /\ CompletedMonths(start, Earlier(end, asOf)) \in Nat
        /\ CompletedMonths(start, Earlier(end, later)) \in Nat
        /\ CompletedMonths(start, Earlier(end, asOf)) <= CompletedMonths(start, Earlier(end, later))
    BY <1>1, <2>1, MonthsGrow
  <2> DEFINE a == annual * CompletedMonths(start, Earlier(end, asOf))
             b == annual * CompletedMonths(start, Earlier(end, later))
  <2>3. Quantize(a) \in Nat /\ Quantize(b) \in Nat /\ Quantize(a) <= Quantize(b)
    BY <2>2, WorthGrows
  <2>4. Entitlement(annual, method, year, joined, exited, asOf) = Quantize(a)
    BY <1>2, MonthlyIs DEF start, end
  <2>5. Entitlement(annual, method, year, joined, exited, later) = Quantize(b)
    BY <1>2, MonthlyIs DEF start, end
  <2> QED BY <2>3, <2>4, <2>5
<1>3. CASE method = "annual"
  <2>1. n \in Nat BY <1>1, MonthsGrow
  <2> HIDE DEF n
  <2>2. Earlier(12, n) \in Nat BY <2>1 DEF Earlier
  <2>3. Quantize(annual * Earlier(12, n)) \in Nat BY <2>2, WorthGrows
  <2>4. \A day \in Nat :
          Entitlement(annual, method, year, joined, exited, day)
            = IF annual <= 0 \/ n = 0 THEN 0 ELSE Quantize(annual * Earlier(12, n))
    BY <1>3 DEF Entitlement, n
  <2> QED BY <2>3, <2>4
<1> QED BY <1>2, <1>3 DEF Methods

LEMMA EmployeeDates ==
    ASSUME TypeOK, NEW terms \in Terms
    PROVE  /\ Joined(terms) \in Nat /\ Exited(terms) \in Nat
           /\ terms.annual \in Nat /\ terms.cap \in Nat /\ terms.method \in Methods
           /\ terms.prorateOnExit \in BOOLEAN
           /\ today \in Nat /\ YearOf(today) \in Nat
<1>1. Dates \subseteq Nat /\ ServiceDates \cup {Never} \subseteq Nat /\ Never \in Nat
  BY LeaveAssumption DEF Never
<1>2. /\ employee.joined \in ServiceDates \cup {Never}
      /\ employee.exited \in ServiceDates \cup {Never}
  BY DEF TypeOK, Employee
<1>3. today \in Nat BY <1>1 DEF TypeOK
<1>4. YearOf(today) \in Nat BY <1>3 DEF YearOf
<1> QED BY <1>1, <1>2, <1>3, <1>4, LeaveAssumption DEF Joined, Exited

\* Whatever the year, also the one before the first, what is earned is a number.
LEMMA EntitlementType ==
    ASSUME NEW annual \in Nat, NEW method, NEW year \in Int, NEW joined \in Nat,
           NEW exited \in Nat
    PROVE  Entitlement(annual, method, year, joined, exited, YearEnd(year)) \in Int
<1> DEFINE start == WindowStart(year, joined)
           end   == WindowEnd(year, exited)
           until == Earlier(end, YearEnd(year))
           n     == CompletedMonths(start, end)
           m     == CompletedMonths(start, until)
<1>1. YearStart(year) \in Int /\ YearEnd(year) \in Int BY DEF YearStart, YearEnd, Date
<1>2. start \in Int /\ end \in Int /\ until \in Int
  BY <1>1 DEF WindowStart, WindowEnd, Earlier, Later
<1> HIDE DEF start, end, until
<1>3. n \in Int /\ m \in Int BY <1>2 DEF CompletedMonths, MonthOf, DayOf
<1> HIDE DEF n, m
<1>4. Earlier(12, n) \in Int BY <1>3 DEF Earlier
<1>5. annual * m \in Int /\ annual * Earlier(12, n) \in Int BY <1>3, <1>4
<1>6. \A x \in Int : Quantize(x) \in Int BY DEF Quantize
<1>7. Entitlement(annual, method, year, joined, exited, YearEnd(year))
        \in {0, Quantize(annual * m), Quantize(annual * Earlier(12, n))}
  BY DEF Entitlement, start, end, until, m, n
<1> QED BY <1>5, <1>6, <1>7

\* What is carried forward is a number; which, the day does not change.
LEMMA CarriedType ==
    ASSUME TypeOK, NEW terms \in Terms
    PROVE  CarriedForward(terms, YearOf(today)) \in Int
<1> DEFINE year == YearOf(today)
           used == Total(Used(year - 1))
           earned == Earned(terms, terms.method, year - 1, YearEnd(year - 1))
<1>1. used \in Int BY UsedTotal, UsedIsUsedOf
<1>2. terms.cap \in Int /\ year - 1 \in Int BY EmployeeDates
<1>3. earned \in Int BY <1>2, EmployeeDates, EntitlementType DEF Earned
<1> HIDE DEF used, earned
<1>4. CarriedForward(terms, year) \in {0, terms.cap, earned - used}
  BY DEF CarriedForward, used, earned
<1> QED BY <1>1, <1>2, <1>3, <1>4

LEMMA TomorrowGrants ==
    ASSUME IInv, IInv', Tomorrow, YearOf(today') = YearOf(today), NEW terms \in Terms
    PROVE  Granted(terms, today)' >= Granted(terms, today)
<1> DEFINE year == YearOf(today)
           carried == CarriedForward(terms, year)
<1>1. today' \in Nat /\ today <= today' /\ UNCHANGED <<leave, policy, employee, req>>
  <2>1. today' \in Nat /\ today \in Nat BY LeaveAssumption DEF IInv, TypeOK
  <2> QED BY <2>1 DEF Tomorrow
<1>2. carried \in Int BY CarriedType DEF IInv
<1>3. \A any, method, y, asOf : Earned(any, method, y, asOf)' = Earned(any, method, y, asOf)
  BY <1>1 DEF Earned, Joined, Exited
<1>4. \A any, y : CarriedForward(any, y)' = CarriedForward(any, y)
  <2>1. \A y : Used(y)' = Used(y) BY <1>1 DEF Used
  <2>2. \A S : Total(S)' = Total(S) BY <1>1 DEF Total
  <2> QED BY <1>3, <2>1, <2>2 DEF CarriedForward
<1>5. /\ Earned(terms, terms.method, year, today) \in Nat
      /\ Earned(terms, terms.method, year, today') \in Nat
      /\ Earned(terms, terms.method, year, today) <= Earned(terms, terms.method, year, today')
  BY <1>1, EmployeeDates, EntitlementGrows DEF Earned, IInv
<1> DEFINE away == ~terms.probation /\ employee.probation
<1>6. Granted(terms, today) = IF away THEN 0 ELSE Earned(terms, terms.method, year, today) + carried
  BY DEF Granted
<1>7. Granted(terms, today)'
        = IF away THEN 0 ELSE Earned(terms, terms.method, year, today') + carried
  <2>1. Granted(terms, today)'
          = IF away THEN 0 ELSE Earned(terms, terms.method, YearOf(today), today)'
                                  + CarriedForward(terms, YearOf(today))'
    BY <1>1 DEF Granted
  <2>2. CarriedForward(terms, YearOf(today))' = carried BY <1>4
  <2>3. Earned(terms, terms.method, YearOf(today), today)'
          = Earned(terms, terms.method, year, today')
    BY <1>1 DEF Earned, Joined, Exited
  <2> QED BY <2>1, <2>2, <2>3
<1> QED BY <1>2, <1>5, <1>6, <1>7

\* A day of leaving that is not past cuts nothing off what is earned so far.
LEMMA ExitAccrues ==
    ASSUME IInv, IInv', UpdateEmployee, employee'.joined = employee.joined,
           NotPast(employee.exited), NotPast(employee'.exited), NEW terms \in Terms
    PROVE  Accrued(terms)' = Accrued(terms)
<1> DEFINE year   == YearOf(today)
           joined == Joined(terms)
           exited == Exited(terms)
           after  == Exited(terms)'
<1>1. /\ joined \in Nat /\ exited \in Nat /\ after \in Nat /\ today \in Nat /\ year \in Nat
      /\ terms.annual \in Nat
  <2>1. Exited(terms)' \in Nat
    <3>1. ServiceDates \cup {Never} \subseteq Nat /\ Never \in Nat BY LeaveAssumption DEF Never
    <3>2. employee'.exited \in ServiceDates \cup {Never} BY DEF IInv, TypeOK, Employee
    <3> QED BY <3>1, <3>2 DEF Exited
  <2> QED BY <2>1, EmployeeDates DEF IInv
<1>2. Joined(terms)' = joined /\ today' = today BY DEF UpdateEmployee, Joined
<1>3. (exited = Never \/ exited >= today) /\ (after = Never \/ after >= today)
  BY <1>2 DEF NotPast, Exited
<1>4. today <= YearEnd(year)
  <2>1. today <= 384 * (today \div 384) + 383 BY <1>1
  <2> QED BY <1>1, <2>1 DEF YearOf, YearEnd, Date
<1>5. YearEnd(year) \in Nat BY <1>1 DEF YearEnd, Date
<1> HIDE DEF year, joined, exited, after
<1>6. Earlier(WindowEnd(year, after), today) = Earlier(WindowEnd(year, exited), today)
  <2>1. \A day \in Nat :
          day = Never \/ day >= today => Earlier(WindowEnd(year, day), today) = today
    BY <1>1, <1>4, <1>5 DEF WindowEnd, Earlier
  <2> QED BY <1>1, <1>3, <2>1
<1>7. Accrued(terms) = Entitlement(terms.annual, "monthly", year, joined, exited, today)
  BY DEF Accrued, Earned, year, joined, exited
<1>8. Accrued(terms)' = Entitlement(terms.annual, "monthly", year, joined, after, today)
  BY <1>2 DEF Accrued, Earned, year, joined, after
<1> QED BY <1>1, <1>6, <1>7, <1>8, MonthlyIs

\* However many decisions are in flight, within a year a day that passes takes
\* nothing of what any policy grants; and nothing is taken of what was earned by
\* today by a day of leaving that is written, moved or cleared, if not in the past.
THEOREM EarnedStaysHolds == Spec => EarnedStays
<1>1. ASSUME IInv, IInv', NEW terms \in Terms
      PROVE  /\ (Tomorrow /\ YearOf(today') = YearOf(today)) =>
                   Granted(terms, today)' >= Granted(terms, today)
             /\ (UpdateEmployee /\ employee'.joined = employee.joined
                   /\ NotPast(employee.exited) /\ NotPast(employee'.exited)) =>
                   Accrued(terms)' = Accrued(terms)
  BY <1>1, TomorrowGrants, ExitAccrues
<1>2. IInv /\ IInv' /\ [Next]_vars =>
        [\A terms \in Terms :
          /\ (Tomorrow /\ YearOf(today') = YearOf(today)) =>
                Granted(terms, today)' >= Granted(terms, today)
          /\ (UpdateEmployee /\ employee'.joined = employee.joined
                /\ NotPast(employee.exited) /\ NotPast(employee'.exited)) =>
                Accrued(terms)' = Accrued(terms)]_vars
  BY <1>1
<1> QED BY <1>2, Invariance, PTL DEF Spec, EarnedStays
=============================================================================
