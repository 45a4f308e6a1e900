--------------------------- MODULE TimeProofs --------------------------------
(***************************************************************************)
(* Theorems about a day's time on its way to payroll: the punches and what *)
(* a day is read as (Attendance), the work fact derived from it, signed    *)
(* off and locked (WorkFacts), and the inbox in which a fact waits for its *)
(* approver (Inbox).  They are stated for any number of instants, punches, *)
(* days, rows, people and requests; a theorem that holds only of requests  *)
(* served in turn says so in its hypothesis.                               *)
(*                                                                         *)
(* The three are proved about one by one, each of the requests its own     *)
(* specification describes: what is recorded may differ from what          *)
(* attendance says by the time it is read.                                 *)
(***************************************************************************)
EXTENDS Attendance, WorkFacts, Inbox, SumTheorems

-----------------------------------------------------------------------------
(***************************************************************************)
(* The walk over a day's punches, by one reading of its ties.              *)
(***************************************************************************)
Walk(S, O, g, n) ==
    g = [i \in 0..n |-> IF i = 0 THEN NoPunch ELSE PairAt(S, O, g[i - 1], i - 1)]

LEMMA WalkOf ==
    ASSUME NEW S, NEW O, NEW n \in Nat, NEW g, Walk(S, O, g, n)
    PROVE  \A i \in 0..n : g[i] = IF i = 0 THEN NoPunch ELSE PairAt(S, O, g[i - 1], i - 1)
<1> DEFINE at(j) == IF j = 0 THEN NoPunch ELSE PairAt(S, O, g[j - 1], j - 1)
<1>1. g = [j \in 0..n |-> at(j)] BY DEF Walk
<1> HIDE DEF at
<1>2. \A i \in 0..n : g[i] = at(i) BY <1>1
<1> QED BY <1>2 DEF at

LEMMA WalkLonger ==
    ASSUME NEW S, NEW O, NEW n \in Nat, NEW g, Walk(S, O, g, n)
    PROVE  \E h : Walk(S, O, h, n + 1)
<1> DEFINE at(f, j) == IF j = 0 THEN NoPunch ELSE PairAt(S, O, f[j - 1], j - 1)
           h == [i \in 0..n + 1 |-> IF i = n + 1 THEN PairAt(S, O, g[n], n) ELSE g[i]]
<1>1. \A i \in 0..n : g[i] = at(g, i) BY WalkOf
<1>2. \A i \in 0..n + 1 : h[i] = IF i = n + 1 THEN PairAt(S, O, g[n], n) ELSE g[i] OBVIOUS
<1>3. h = [i \in 0..n + 1 |-> h[i]] OBVIOUS
<1> HIDE DEF h
<1>4. ASSUME NEW i \in 0..n + 1 PROVE h[i] = at(h, i)
  <2>1. CASE i = n + 1
    <3>1. h[i - 1] = g[n] BY <1>2, <2>1
    <3> QED BY <1>2, <2>1, <3>1
  <2>2. CASE i # n + 1
    <3>1. i \in 0..n /\ h[i] = g[i] BY <1>2, <2>2
    <3>2. i # 0 => h[i - 1] = g[i - 1] BY <1>2, <3>1
    <3> QED BY <1>1, <3>1, <3>2
  <2> QED BY <2>1, <2>2
<1> HIDE DEF at
<1>5. h = [i \in 0..n + 1 |-> at(h, i)] BY <1>3, <1>4
<1> QED BY <1>5 DEF at, Walk

LEMMA WalkExists ==
    ASSUME NEW S, NEW O, NEW n \in Nat
    PROVE  \E g : Walk(S, O, g, n)
<1> DEFINE Bad == {k \in Nat : ~ \E g : Walk(S, O, g, k)}
<1>1. SUFFICES ASSUME Bad # {} PROVE FALSE OBVIOUS
<1>2. Bad \in SUBSET Nat OBVIOUS
<1>3. PICK k \in Bad : \A m \in Bad : k <= m
  <2> HIDE DEF Bad
  <2> QED BY <1>1, <1>2, LeastOfNat
<1>4. k \in Nat /\ ~ \E g : Walk(S, O, g, k) OBVIOUS
<1>5. k # 0
  <2> DEFINE g == [i \in 0..0 |-> NoPunch]
  <2>1. g = [i \in 0..0 |-> IF i = 0 THEN NoPunch ELSE PairAt(S, O, g[i - 1], i - 1)] OBVIOUS
  <2> HIDE DEF g
  <2>2. Walk(S, O, g, 0) BY <2>1 DEF Walk
  <2> QED BY <1>4, <2>2
<1> DEFINE m == k - 1
<1>6. m \in Nat /\ m \notin Bad /\ k = m + 1 BY <1>3, <1>4, <1>5
<1>7. \E g : Walk(S, O, g, m) BY <1>6
<1> HIDE DEF m, Bad
<1>8. \E h : Walk(S, O, h, m + 1) BY <1>6, <1>7, WalkLonger
<1> QED BY <1>4, <1>6, <1>8

LEMMA PairEventsWalk ==
    ASSUME NEW S, NEW O
    PROVE  \E g : Walk(S, O, g, Horizon + 1) /\ PairEvents(S, O) = g[Horizon + 1]
<1> DEFINE g == CHOOSE g : Walk(S, O, g, Horizon + 1)
<1>1. Horizon + 1 \in Nat BY AttendanceAssumption
<1>2. Walk(S, O, g, Horizon + 1) BY <1>1, WalkExists
<1>3. PairEvents(S, O) = g[Horizon + 1] BY DEF PairEvents, Walk
<1> QED BY <1>2, <1>3

-----------------------------------------------------------------------------
(***************************************************************************)
(* A clock that a check-in starts and a check-out stops.                   *)
(***************************************************************************)
Running(S, O, j) ==
    \E p \in S : /\ p.kind = "in" /\ p.at <= j
                 /\ \A q \in S : q.kind = "out" /\ q.at <= j => ~Since(q, p, O)

Ran(S, O, n) == {j \in 0..n - 1 : Running(S, O, j)}

Ins(S, n) == {j \in 0..n - 1 : Event("in", j) \in S}

LEMMA PunchForm ==
    ASSUME NEW p \in Punch
    PROVE  /\ p.kind \in {"in", "out"} /\ p.at \in Instants /\ p.at \in Nat
           /\ p = Event(p.kind, p.at)
BY AttendanceAssumption DEF Punch, Kinds, Instants, Event

LEMMA EventIs ==
    ASSUME NEW kind, NEW at
    PROVE  Event(kind, at).kind = kind /\ Event(kind, at).at = at
BY DEF Event

LEMMA RunningStep ==
    ASSUME NEW S, S \subseteq Punch, NEW O, NEW i \in Instants
    PROVE  /\ Event("in", i) \in S /\ (Event("out", i) \notin S \/ i \in O) => Running(S, O, i)
           /\ Event("out", i) \in S /\ (Event("in", i) \notin S \/ i \notin O) =>
                ~Running(S, O, i)
           /\ Event("in", i) \notin S /\ Event("out", i) \notin S =>
                (Running(S, O, i) <=> Running(S, O, i - 1))
<1>1. i \in Nat BY AttendanceAssumption DEF Instants
<1>2. \A p \in S : p.kind \in {"in", "out"} /\ p.at \in Nat /\ p = Event(p.kind, p.at)
  BY PunchForm
<1>3. ASSUME Event("in", i) \in S, Event("out", i) \notin S \/ i \in O PROVE Running(S, O, i)
  <2> DEFINE p == Event("in", i)
  <2>1. p \in S /\ p.kind = "in" /\ p.at = i BY <1>3, EventIs
  <2> HIDE DEF p
  <2>2. ASSUME NEW q \in S, q.kind = "out", q.at <= i PROVE ~Since(q, p, O)
    <3>1. q.at = i => i \in O BY <1>2, <1>3, <2>2
    <3> QED BY <1>1, <1>2, <2>1, <2>2, <3>1 DEF Since
  <2> QED BY <1>1, <2>1, <2>2 DEF Running
<1>4. ASSUME Event("out", i) \in S, Event("in", i) \notin S \/ i \notin O PROVE ~Running(S, O, i)
  <2> DEFINE q == Event("out", i)
  <2>1. q \in S /\ q.kind = "out" /\ q.at = i BY <1>4, EventIs
  <2> HIDE DEF q
  <2>2. ASSUME NEW p \in S, p.kind = "in", p.at <= i PROVE Since(q, p, O)
    <3>1. p.at = i => i \notin O BY <1>2, <1>4, <2>2
    <3> QED BY <1>1, <1>2, <2>1, <2>2, <3>1 DEF Since
  <2> QED BY <1>1, <2>1, <2>2 DEF Running
<1>5. ASSUME Event("in", i) \notin S, Event("out", i) \notin S
      PROVE  Running(S, O, i) <=> Running(S, O, i - 1)
  <2>1. \A p \in S : p.at # i BY <1>2, <1>5
  <2>2. \A p \in S : p.at <= i <=> p.at <= i - 1 BY <1>1, <1>2, <2>1
  <2> QED BY <2>2 DEF Running
<1> QED BY <1>3, <1>4, <1>5

LEMMA NotRunningYet ==
    ASSUME NEW S, S \subseteq Punch, NEW O PROVE ~Running(S, O, -1)
<1>1. \A p \in S : p.at \in Nat BY PunchForm
<1> QED BY <1>1 DEF Running

LEMMA RanFinite ==
    ASSUME NEW S, NEW O, NEW n \in Nat
    PROVE  /\ IsFiniteSet(Ran(S, O, n)) /\ Cardinality(Ran(S, O, n)) \in Nat
           /\ IsFiniteSet(Ins(S, n)) /\ Cardinality(Ins(S, n)) \in Nat
<1>1. IsFiniteSet(0..n - 1) BY FS_Interval
<1>2. Ran(S, O, n) \subseteq 0..n - 1 /\ Ins(S, n) \subseteq 0..n - 1 BY DEF Ran, Ins
<1>3. IsFiniteSet(Ran(S, O, n)) /\ IsFiniteSet(Ins(S, n)) BY <1>1, <1>2, FS_Subset
<1> QED BY <1>3, FS_CardinalityType

\* While the clock runs, each slot counts.
LEMMA RanSpan ==
    ASSUME NEW S, NEW O, NEW a \in Nat, NEW b \in Nat, a <= b,
           \A j \in a..b - 1 : Running(S, O, j)
    PROVE  Cardinality(Ran(S, O, b)) = Cardinality(Ran(S, O, a)) + (b - a)
<1>1. Ran(S, O, b) = Ran(S, O, a) \cup (a..b - 1) BY DEF Ran
<1>2. Ran(S, O, a) \cap (a..b - 1) = {} BY DEF Ran
<1>3. IsFiniteSet(a..b - 1) /\ Cardinality(a..b - 1) = b - a
  <2>1. a \in Int /\ b - 1 \in Int OBVIOUS
  <2>2. IsFiniteSet(a..b - 1) BY <2>1, FS_Interval
  <2>3. Cardinality(a..b - 1) = IF a > b - 1 THEN 0 ELSE b - 1 - a + 1
    BY <2>1, FS_Interval
  <2> QED BY <2>2, <2>3
<1>4. IsFiniteSet(Ran(S, O, a)) /\ Cardinality(Ran(S, O, a)) \in Nat BY RanFinite
<1> DEFINE A == Ran(S, O, a)
           B == a..b - 1
<1>5. Cardinality(A \cap B) = 0 BY <1>2, FS_EmptySet
<1> HIDE DEF A, B
<1>6. Cardinality(A \cup B) = Cardinality(A) + Cardinality(B) - Cardinality(A \cap B)
  <2>1. IsFiniteSet(A) /\ IsFiniteSet(B) BY <1>3, <1>4 DEF A, B
  <2> QED BY <2>1, FS_Union, Zenon
<1> QED BY <1>1, <1>3, <1>4, <1>5, <1>6 DEF A, B

\* The check-ins before an instant, and one more.
LEMMA InsGrow ==
    ASSUME NEW S, NEW a \in Nat, NEW b \in Nat, a <= b
    PROVE  /\ Cardinality(Ins(S, a)) <= Cardinality(Ins(S, b))
           /\ Event("in", a) \in S /\ a < b => Cardinality(Ins(S, a)) + 1 <= Cardinality(Ins(S, b))
<1>1. /\ IsFiniteSet(Ins(S, a)) /\ Cardinality(Ins(S, a)) \in Nat
      /\ IsFiniteSet(Ins(S, b)) /\ Cardinality(Ins(S, b)) \in Nat
  BY RanFinite
<1>2. Ins(S, a) \subseteq Ins(S, b) BY DEF Ins
<1>3. ASSUME Event("in", a) \in S, a < b
      PROVE  Cardinality(Ins(S, a)) + 1 <= Cardinality(Ins(S, b))
  <2> DEFINE A == Ins(S, a)
             more == Ins(S, a) \cup {a}
  <2>1. a \notin A BY DEF Ins
  <2>2. more \subseteq Ins(S, b) BY <1>3 DEF Ins
  <2>3. Cardinality(more) = Cardinality(A) + 1 BY <1>1, <2>1, FS_AddElement
  <2>4. Cardinality(more) <= Cardinality(Ins(S, b)) BY <1>1, <2>2, FS_Subset
  <2> QED BY <2>3, <2>4
<1> QED BY <1>1, <1>2, <1>3, FS_Subset

-----------------------------------------------------------------------------
(***************************************************************************)
(* What the walk has found before each instant.                            *)
(***************************************************************************)
Found == [openAt : Int, firstIn : Int, worked : Int]

\* The clock runs, since the punch remembered.
ClockAt(S, O, day, i) ==
    IF day.openAt = Nothing THEN ~Running(S, O, i - 1)
    ELSE /\ day.openAt \in 0..i - 1 /\ Event("in", day.openAt) \in S
         /\ ~Running(S, O, day.openAt - 1) \/ Event("out", day.openAt) \in S
         /\ \A j \in day.openAt..i - 1 : Running(S, O, j)
         /\ \A q \in S : q.kind = "out" => ~(day.openAt < q.at /\ q.at <= i - 1)

\* The minutes counted are those that ran, but for part of one per check-in.
Kept(S, O, w, n) ==
    /\ w \in Nat
    /\ Minute * w <= Cardinality(Ran(S, O, n))
    /\ Cardinality(Ran(S, O, n)) <= Minute * w + (Minute - 1) * Cardinality(Ins(S, n))

WorkedAt(S, O, day, i) ==
    Kept(S, O, day.worked, IF day.openAt = Nothing THEN i ELSE day.openAt)

FirstAt(S, day, i) ==
    IF day.firstIn = Nothing
    THEN /\ day.openAt = Nothing
         /\ \A p \in S : p.kind = "in" => ~(p.at < i)
    ELSE /\ day.firstIn \in 0..i - 1 /\ Event("in", day.firstIn) \in S
         /\ \A p \in S : p.kind = "in" => day.firstIn <= p.at

WalkInv(S, O, day, i) ==
    /\ day \in Found
    /\ ClockAt(S, O, day, i) /\ WorkedAt(S, O, day, i) /\ FirstAt(S, day, i)

LEMMA WalkStarts == ASSUME NEW S, S \subseteq Punch, NEW O PROVE WalkInv(S, O, NoPunch, 0)
<1>1. NoPunch \in Found /\ NoPunch.openAt = Nothing /\ NoPunch.firstIn = Nothing
      /\ NoPunch.worked = 0
  BY DEF NoPunch, Found, Nothing
<1>2. ClockAt(S, O, NoPunch, 0)
  <2>1. 0 - 1 = -1 OBVIOUS
  <2> QED BY <1>1, <2>1, NotRunningYet DEF ClockAt
<1>3. WorkedAt(S, O, NoPunch, 0)
  <2>1. Ran(S, O, 0) = {} /\ Ins(S, 0) = {} BY DEF Ran, Ins
  <2>2. Cardinality(Ran(S, O, 0)) = 0 /\ Cardinality(Ins(S, 0)) = 0 BY <2>1, FS_EmptySet
  <2>3. Kept(S, O, 0, 0) BY <2>2, AttendanceAssumption DEF Kept
  <2> QED BY <1>1, <2>3 DEF WorkedAt
<1>4. FirstAt(S, NoPunch, 0)
  <2>1. \A p \in S : p.at \in Nat BY PunchForm
  <2> QED BY <1>1, <2>1 DEF FirstAt
<1> QED BY <1>1, <1>2, <1>3, <1>4 DEF WalkInv

\* A session that ends counts its whole minutes.
LEMMA Closing ==
    ASSUME NEW S, NEW O, NEW w, NEW a \in Nat, NEW b \in Nat, a <= b, Kept(S, O, w, a),
           Event("in", a) \in S, \A j \in a..b - 1 : Running(S, O, j)
    PROVE  Kept(S, O, w + (b - a) \div Minute, b)
<1> DEFINE q == (b - a) \div Minute
           r == Cardinality(Ran(S, O, a))
           s == Cardinality(Ran(S, O, b))
           m == Cardinality(Ins(S, a))
           n == Cardinality(Ins(S, b))
<1>1. Minute \in Nat \ {0} BY AttendanceAssumption
<1>2. r \in Nat /\ s \in Nat /\ m \in Nat /\ n \in Nat BY RanFinite
<1>3. s = r + (b - a) BY RanSpan
<1>4. w \in Nat /\ Minute * w <= r /\ r <= Minute * w + (Minute - 1) * m BY DEF Kept
<1>5. m <= n /\ (a < b => m + 1 <= n) BY InsGrow
<1>6. q \in Int /\ Minute * q <= b - a /\ b - a < Minute * q + Minute
  <2>1. b - a \in Int OBVIOUS
  <2> QED BY <1>1, <2>1, Divided
<1>7. q \in Nat
  <2> SUFFICES ASSUME q <= -1 PROVE FALSE BY <1>6
  <2> HIDE DEF q
  <2>1. q * Minute <= (-1) * Minute BY <1>1, <1>6, TimesKeepsOrder
  <2>2. Minute * q = q * Minute /\ (-1) * Minute = -Minute BY <1>1, <1>6
  <2> QED BY <1>1, <1>6, <2>1, <2>2
<1> HIDE DEF q, r, s, m, n
<1>8. Minute * (w + q) = Minute * w + Minute * q BY <1>1, <1>4, <1>7, Distributes
<1>9. (Minute - 1) * m <= (Minute - 1) * n
  <2>1. m * (Minute - 1) <= n * (Minute - 1) BY <1>1, <1>2, <1>5, TimesKeepsOrder
  <2> QED BY <1>1, <1>2, <2>1
<1>10. a < b => (Minute - 1) * m + (Minute - 1) <= (Minute - 1) * n
  <2> SUFFICES ASSUME a < b PROVE (Minute - 1) * m + (Minute - 1) <= (Minute - 1) * n OBVIOUS
  <2>1. (m + 1) * (Minute - 1) <= n * (Minute - 1) BY <1>1, <1>2, <1>5, TimesKeepsOrder
  <2>2. (m + 1) * (Minute - 1) = (Minute - 1) * m + (Minute - 1) BY <1>1, <1>2
  <2>3. n * (Minute - 1) = (Minute - 1) * n BY <1>1, <1>2
  <2> QED BY <2>1, <2>2, <2>3
<1>11. /\ Minute * w \in Int /\ Minute * q \in Int
       /\ (Minute - 1) * m \in Int /\ (Minute - 1) * n \in Int
  BY <1>1, <1>2, <1>4, <1>7
<1>12. Minute * (w + q) <= s BY <1>2, <1>3, <1>4, <1>6, <1>8, <1>11
<1>13. s <= Minute * (w + q) + (Minute - 1) * n
  <2>1. CASE a < b
    BY <1>1, <1>2, <1>3, <1>4, <1>6, <1>8, <1>10, <1>11, <2>1
  <2>2. CASE a = b
    <3>1. Minute * q >= 0 BY <1>1, <1>7
    <3> QED BY <1>1, <1>2, <1>3, <1>4, <1>8, <1>9, <1>11, <2>2, <3>1
  <2> QED BY <2>1, <2>2
<1> QED BY <1>4, <1>7, <1>12, <1>13 DEF Kept, q, s, n

\* A slot the clock does not run in counts for nothing.
LEMMA Standing ==
    ASSUME NEW S, NEW O, NEW w, NEW i \in Nat, Kept(S, O, w, i), ~Running(S, O, i)
    PROVE  Kept(S, O, w, i + 1)
<1> DEFINE m == Cardinality(Ins(S, i))
           n == Cardinality(Ins(S, i + 1))
<1>1. Ran(S, O, i + 1) = Ran(S, O, i)
  <2>1. 0..(i + 1) - 1 = (0..i - 1) \cup {i} OBVIOUS
  <2> QED BY <2>1 DEF Ran
<1>2. Minute \in Nat \ {0} BY AttendanceAssumption
<1>3. m \in Nat /\ n \in Nat /\ Cardinality(Ran(S, O, i)) \in Nat BY RanFinite
<1>4. m <= n BY InsGrow
<1>5. w \in Nat /\ Cardinality(Ran(S, O, i)) <= Minute * w + (Minute - 1) * m
      /\ Minute * w <= Cardinality(Ran(S, O, i))
  BY DEF Kept
<1> HIDE DEF m, n
<1>6. (Minute - 1) * m <= (Minute - 1) * n
  <2>1. m * (Minute - 1) <= n * (Minute - 1) BY <1>2, <1>3, <1>4, TimesKeepsOrder
  <2> QED BY <1>2, <1>3, <2>1
<1>7. Minute * w \in Int /\ (Minute - 1) * m \in Int /\ (Minute - 1) * n \in Int
  BY <1>2, <1>3, <1>5
<1>8. Cardinality(Ran(S, O, i)) <= Minute * w + (Minute - 1) * n
  BY <1>3, <1>5, <1>6, <1>7
<1> QED BY <1>1, <1>5, <1>8 DEF Kept, n

LEMMA NoTime == ASSUME NEW i \in Nat PROVE (i - i) \div Minute = 0
<1>1. Minute \in Nat \ {0} /\ i - i = 0 BY AttendanceAssumption
<1> DEFINE q == 0 \div Minute
<1>2. q \in Int /\ Minute * q <= 0 /\ 0 < Minute * q + Minute BY <1>1, Divided
<1> HIDE DEF q
<1>3. ~(q >= 1)
  <2> SUFFICES ASSUME 1 <= q PROVE FALSE BY <1>2
  <2>1. 1 * Minute <= q * Minute BY <1>1, <1>2, TimesKeepsOrder
  <2> QED BY <1>1, <1>2, <2>1
<1>4. ~(q <= -1)
  <2> SUFFICES ASSUME q <= -1 PROVE FALSE OBVIOUS
  <2>1. q * Minute <= (-1) * Minute BY <1>1, <1>2, TimesKeepsOrder
  <2>2. (-1) * Minute = -Minute /\ q * Minute = Minute * q BY <1>1, <1>2
  <2> QED BY <1>1, <1>2, <2>1, <2>2
<1>5. q = 0 BY <1>2, <1>3, <1>4
<1> QED BY <1>1, <1>5 DEF q

LEMMA CheckInForm ==
    ASSUME NEW day \in Found, NEW i \in Nat
    PROVE  CheckIn(day, i) =
               [openAt  |-> IF day.openAt = Nothing THEN i ELSE day.openAt,
                firstIn |-> IF day.openAt = Nothing /\ day.firstIn = Nothing THEN i
                            ELSE day.firstIn,
                worked  |-> day.worked]
BY DEF CheckIn, Found

LEMMA CheckOutForm ==
    ASSUME NEW day \in Found, NEW i \in Nat
    PROVE  CheckOut(day, i) =
               [openAt  |-> Nothing, firstIn |-> day.firstIn,
                worked  |-> IF day.openAt = Nothing THEN day.worked
                            ELSE day.worked + (i - day.openAt) \div Minute]
BY DEF CheckOut, Found

\* What the rows of one instant make of a day.
Stepped(S, O, day, next, i) ==
    LET in  == Event("in", i) \in S
        out == Event("out", i) \in S
    IN /\ next \in Found
       /\ next.openAt = IF in /\ (~out \/ i \in O)
                        THEN IF out \/ day.openAt = Nothing THEN i ELSE day.openAt
                        ELSE IF out THEN Nothing ELSE day.openAt
       /\ next.firstIn = IF in /\ day.firstIn = Nothing THEN i ELSE day.firstIn
       /\ next.worked = IF out /\ day.openAt # Nothing
                        THEN day.worked + (i - day.openAt) \div Minute
                        ELSE day.worked

LEMMA StepForm ==
    ASSUME NEW S, NEW O, NEW i \in Nat, NEW day \in Found,
           day.firstIn = Nothing => day.openAt = Nothing
    PROVE  Stepped(S, O, day, PairAt(S, O, day, i), i)
<1> DEFINE in   == Event("in", i) \in S
           out  == Event("out", i) \in S
           next == PairAt(S, O, day, i)
           arrived == CheckIn(day, i)
           left == CheckOut(day, i)
<1>1. day.openAt \in Int /\ day.firstIn \in Int /\ day.worked \in Int /\ Nothing = -1
  BY DEF Found, Nothing
<1>2. ASSUME NEW a \in Int PROVE (i - a) \div Minute \in Int
  BY <1>2, AttendanceAssumption, Divided
<1>3. arrived = [openAt  |-> IF day.openAt = Nothing THEN i ELSE day.openAt,
                 firstIn |-> IF day.firstIn = Nothing THEN i ELSE day.firstIn,
                 worked  |-> day.worked]
  BY CheckInForm
<1>4. left = [openAt |-> Nothing, firstIn |-> day.firstIn,
              worked |-> IF day.openAt = Nothing THEN day.worked
                         ELSE day.worked + (i - day.openAt) \div Minute]
  BY CheckOutForm
<1>5. arrived \in Found /\ left \in Found
  BY <1>1, <1>2, <1>3, <1>4 DEF Found
<1>6. CheckIn(left, i) = [openAt |-> i,
                          firstIn |-> IF left.firstIn = Nothing THEN i ELSE left.firstIn,
                          worked |-> left.worked]
  <2>1. left.openAt = Nothing BY <1>4
  <2> HIDE DEF left
  <2> QED BY <1>5, <2>1, CheckInForm
<1>7. CheckOut(arrived, i) = [openAt |-> Nothing, firstIn |-> arrived.firstIn,
                              worked |-> arrived.worked + (i - arrived.openAt) \div Minute]
  <2>1. arrived.openAt # Nothing BY <1>1, <1>3
  <2> HIDE DEF arrived
  <2> QED BY <1>5, <2>1, CheckOutForm
<1>8. next = IF in /\ out
             THEN IF i \in O THEN CheckIn(left, i) ELSE CheckOut(arrived, i)
             ELSE IF in THEN arrived ELSE IF out THEN left ELSE day
  BY DEF PairAt
<1> HIDE DEF in, out, next, Stepped, arrived, left
<1>9. CASE in /\ out /\ i \in O
  <2>1. left.firstIn = day.firstIn
        /\ left.worked = IF day.openAt = Nothing THEN day.worked
                         ELSE day.worked + (i - day.openAt) \div Minute
    BY <1>4
  <2>2. left.worked \in Int BY <1>5 DEF Found
  <2> QED BY <1>1, <1>6, <1>8, <1>9, <2>1, <2>2 DEF Found, in, out, next, Stepped
<1>10. CASE in /\ out /\ i \notin O
  <2>1. /\ arrived.openAt = IF day.openAt = Nothing THEN i ELSE day.openAt
        /\ arrived.firstIn = IF day.firstIn = Nothing THEN i ELSE day.firstIn
        /\ arrived.worked = day.worked
    BY <1>3
  <2>2. day.worked + 0 = day.worked BY <1>1
  <2>3. day.openAt = Nothing => (i - arrived.openAt) \div Minute = 0 BY <2>1, NoTime
  <2>4. arrived.worked + (i - arrived.openAt) \div Minute =
            IF day.openAt = Nothing THEN day.worked
            ELSE day.worked + (i - day.openAt) \div Minute
    BY <2>1, <2>2, <2>3
  <2>5. (i - day.openAt) \div Minute \in Int BY <1>1, <1>2
  <2>6. day.worked + (i - day.openAt) \div Minute \in Int BY <1>1, <2>5
  <2>7. next = [openAt |-> Nothing,
                firstIn |-> IF day.firstIn = Nothing THEN i ELSE day.firstIn,
                worked |-> IF day.openAt = Nothing THEN day.worked
                           ELSE day.worked + (i - day.openAt) \div Minute]
    BY <1>7, <1>8, <1>10, <2>1, <2>4
  <2> QED BY <1>1, <1>10, <2>6, <2>7 DEF Found, in, out, next, Stepped
<1>11. CASE in /\ ~out BY <1>1, <1>3, <1>5, <1>8, <1>11 DEF in, out, next, Stepped
<1>12. CASE ~in /\ out BY <1>1, <1>4, <1>5, <1>8, <1>12 DEF in, out, next, Stepped
<1>13. CASE ~in /\ ~out BY <1>1, <1>8, <1>13 DEF in, out, next, Stepped
<1> QED BY <1>9, <1>10, <1>11, <1>12, <1>13

LEMMA WalkSteps ==
    ASSUME NEW S, S \subseteq Punch, NEW O, NEW i \in Instants, NEW day, WalkInv(S, O, day, i)
    PROVE  WalkInv(S, O, PairAt(S, O, day, i), i + 1)
<1> DEFINE in   == Event("in", i) \in S
           out  == Event("out", i) \in S
           next == PairAt(S, O, day, i)
<1>1. /\ i \in Nat /\ (i + 1) - 1 = i /\ Nothing = -1
      /\ day \in Found /\ day.openAt \in Int /\ day.firstIn \in Int /\ day.worked \in Int
  BY AttendanceAssumption DEF Instants, Nothing, WalkInv, Found
<1>2. ClockAt(S, O, day, i) /\ WorkedAt(S, O, day, i) /\ FirstAt(S, day, i) BY DEF WalkInv
<1>3. \A p \in S : p.kind \in {"in", "out"} /\ p.at \in Nat /\ p = Event(p.kind, p.at)
  BY PunchForm
<1>4. day.firstIn = Nothing => day.openAt = Nothing BY <1>2 DEF FirstAt
<1>5. /\ next \in Found
      /\ next.openAt = IF in /\ (~out \/ i \in O)
                       THEN IF out \/ day.openAt = Nothing THEN i ELSE day.openAt
                       ELSE IF out THEN Nothing ELSE day.openAt
      /\ next.firstIn = IF in /\ day.firstIn = Nothing THEN i ELSE day.firstIn
      /\ next.worked = IF out /\ day.openAt # Nothing
                       THEN day.worked + (i - day.openAt) \div Minute
                       ELSE day.worked
  <2>1. Stepped(S, O, day, next, i) BY <1>1, <1>4, StepForm
  <2> HIDE DEF next
  <2> QED BY <2>1 DEF Stepped
<1>6. /\ in /\ (~out \/ i \in O) => Running(S, O, i)
      /\ out /\ (~in \/ i \notin O) => ~Running(S, O, i)
      /\ ~in /\ ~out => (Running(S, O, i) <=> Running(S, O, i - 1))
  BY RunningStep
<1>7. /\ ~in => \A p \in S : p.kind = "in" => p.at # i
      /\ ~out => \A q \in S : q.kind = "out" => q.at # i
  BY <1>3
<1>8. i # Nothing BY <1>1
<1>9. day.openAt # Nothing =>
        /\ day.openAt \in Nat /\ day.openAt <= i - 1 /\ day.openAt <= i
        /\ Event("in", day.openAt) \in S
        /\ ~Running(S, O, day.openAt - 1) \/ Event("out", day.openAt) \in S
        /\ \A j \in day.openAt..i - 1 : Running(S, O, j)
        /\ \A q \in S : q.kind = "out" => ~(day.openAt < q.at /\ q.at <= i - 1)
  BY <1>1, <1>2 DEF ClockAt
<1>10. day.openAt = Nothing => ~Running(S, O, i - 1) BY <1>2 DEF ClockAt
<1>11. Kept(S, O, day.worked, IF day.openAt = Nothing THEN i ELSE day.openAt)
  BY <1>2 DEF WorkedAt
<1>12. in => Event("in", i) \in S OBVIOUS
<1>13. out => Event("out", i) \in S OBVIOUS
<1> HIDE DEF in, out, next
<1>14. ClockAt(S, O, next, i + 1)
  <2>1. CASE next.openAt = Nothing
    <3>1. ~Running(S, O, i) BY <1>5, <1>6, <1>8, <1>10, <2>1
    <3> QED BY <1>1, <2>1, <3>1 DEF ClockAt
  <2>2. CASE next.openAt = i
    <3>1. in /\ Running(S, O, i) /\ (~Running(S, O, i - 1) \/ out)
      BY <1>1, <1>5, <1>6, <1>8, <1>9, <1>10, <2>2
    <3>2. \A j \in i..i : Running(S, O, j) BY <1>1, <3>1
    <3>3. \A q \in S : q.kind = "out" => ~(i < q.at /\ q.at <= i) BY <1>1, <1>3
    <3> QED BY <1>1, <1>8, <1>12, <1>13, <2>2, <3>1, <3>2, <3>3 DEF ClockAt
  <2>3. CASE next.openAt # Nothing /\ next.openAt # i
    <3>1. next.openAt = day.openAt /\ ~out /\ day.openAt # Nothing BY <1>5, <2>3
    <3>2. Running(S, O, i)
      <4>1. i - 1 \in day.openAt..i - 1 BY <1>1, <1>9, <3>1
      <4>2. Running(S, O, i - 1) BY <1>9, <3>1, <4>1
      <4> QED BY <1>6, <3>1, <4>2
    <3>3. \A j \in day.openAt..i : Running(S, O, j) BY <1>1, <1>9, <3>1, <3>2
    <3>4. \A q \in S : q.kind = "out" => ~(day.openAt < q.at /\ q.at <= i)
      BY <1>1, <1>3, <1>7, <1>9, <3>1
    <3> QED BY <1>1, <1>9, <3>1, <3>3, <3>4 DEF ClockAt
  <2> QED BY <2>1, <2>2, <2>3
<1>15. WorkedAt(S, O, next, i + 1)
  <2> DEFINE w == day.worked + (i - day.openAt) \div Minute
  <2>1. CASE out /\ day.openAt # Nothing
    <3>1. next.worked = w BY <1>5, <2>1
    <3>2. Kept(S, O, w, i)
      <4>1. Kept(S, O, day.worked, day.openAt) BY <1>11, <2>1
      <4> QED BY <1>1, <1>9, <2>1, <4>1, Closing
    <3> HIDE DEF w
    <3>3. CASE next.openAt = Nothing
      <4>1. ~Running(S, O, i) BY <1>5, <1>6, <1>8, <2>1, <3>3
      <4>2. Kept(S, O, w, i + 1) BY <1>1, <3>2, <4>1, Standing
      <4> QED BY <3>1, <3>3, <4>2 DEF WorkedAt
    <3>4. CASE next.openAt # Nothing
      <4>1. next.openAt = i BY <1>5, <2>1, <3>4
      <4> QED BY <3>1, <3>2, <3>4, <4>1 DEF WorkedAt
    <3> QED BY <3>3, <3>4
  <2>2. CASE ~(out /\ day.openAt # Nothing)
    <3>1. next.worked = day.worked BY <1>5, <2>2
    <3>2. CASE next.openAt = Nothing
      <4>1. day.openAt = Nothing /\ ~Running(S, O, i) BY <1>5, <1>6, <1>8, <1>10, <2>2, <3>2
      <4>2. Kept(S, O, day.worked, i + 1) BY <1>1, <1>11, <4>1, Standing
      <4> QED BY <3>1, <3>2, <4>2 DEF WorkedAt
    <3>3. CASE next.openAt # Nothing
      <4>1. next.openAt = IF day.openAt = Nothing THEN i ELSE day.openAt BY <1>5, <2>2, <3>3
      <4> QED BY <1>11, <3>1, <3>3, <4>1 DEF WorkedAt
    <3> QED BY <3>2, <3>3
  <2> QED BY <2>1, <2>2
<1>16. FirstAt(S, next, i + 1)
  <2>1. \A p \in S : p.at < i + 1 <=> (p.at < i \/ p.at = i) BY <1>1, <1>3
  <2>2. CASE day.firstIn = Nothing
    <3>1. day.openAt = Nothing /\ \A p \in S : p.kind = "in" => ~(p.at < i)
      BY <1>2, <2>2 DEF FirstAt
    <3>2. CASE in
      <4>1. next.firstIn = i BY <1>5, <2>2, <3>2
      <4>2. \A p \in S : p.kind = "in" => i <= p.at BY <1>1, <1>3, <3>1
      <4> QED BY <1>1, <1>8, <1>12, <3>2, <4>1, <4>2 DEF FirstAt
    <3>3. CASE ~in
      <4>1. next.firstIn = Nothing /\ next.openAt = Nothing BY <1>5, <2>2, <3>1, <3>3
      <4>2. \A p \in S : p.kind = "in" => ~(p.at < i + 1) BY <1>7, <2>1, <3>1, <3>3
      <4> QED BY <4>1, <4>2 DEF FirstAt
    <3> QED BY <3>2, <3>3
  <2>3. CASE day.firstIn # Nothing
    <3>1. next.firstIn = day.firstIn BY <1>5, <2>3
    <3> QED BY <1>1, <1>2, <2>3, <3>1 DEF FirstAt
  <2> QED BY <2>2, <2>3
<1> QED BY <1>5, <1>14, <1>15, <1>16 DEF WalkInv, next

LEMMA WalkAt ==
    ASSUME NEW S, NEW O, NEW g, Walk(S, O, g, Horizon + 1)
    PROVE  \A j \in 0..Horizon + 1 :
              g[j] = IF j = 0 THEN NoPunch ELSE PairAt(S, O, g[j - 1], j - 1)
<1> DEFINE n == Horizon + 1
<1>1. n \in Nat /\ Walk(S, O, g, n) BY AttendanceAssumption
<1> HIDE DEF n
<1>2. \A j \in 0..n : g[j] = IF j = 0 THEN NoPunch ELSE PairAt(S, O, g[j - 1], j - 1)
  BY <1>1, WalkOf
<1> QED BY <1>2 DEF n

LEMMA WalkKeeps ==
    ASSUME NEW S, S \subseteq Punch, NEW O, NEW g, Walk(S, O, g, Horizon + 1)
    PROVE  \A i \in 0..Horizon + 1 : WalkInv(S, O, g[i], i)
<1>1. Horizon + 1 \in Nat BY AttendanceAssumption
<1> DEFINE Bad == {i \in 0..Horizon + 1 : ~WalkInv(S, O, g[i], i)}
<1>2. SUFFICES ASSUME Bad # {} PROVE FALSE OBVIOUS
<1>3. Bad \in SUBSET Nat OBVIOUS
<1>4. PICK i \in Bad : \A j \in Bad : i <= j
  <2> HIDE DEF Bad
  <2> QED BY <1>2, <1>3, LeastOfNat
<1>5. i \in 0..Horizon + 1 /\ ~WalkInv(S, O, g[i], i) OBVIOUS
<1>6. \A j \in 0..Horizon + 1 : g[j] = IF j = 0 THEN NoPunch ELSE PairAt(S, O, g[j - 1], j - 1)
  BY WalkAt
<1>7. i # 0 BY <1>5, <1>6, WalkStarts
<1> DEFINE k == i - 1
<1>8. k \in 0..Horizon + 1 /\ k + 1 = i /\ k \in Instants
  BY <1>1, <1>5, <1>7, AttendanceAssumption DEF Instants
<1>9. WalkInv(S, O, g[k], k)
  <2>1. k \notin Bad BY <1>4, <1>8
  <2> QED BY <1>8, <2>1
<1>10. g[i] = PairAt(S, O, g[k], k) BY <1>5, <1>6, <1>7
<1> HIDE DEF k
<1>11. WalkInv(S, O, PairAt(S, O, g[k], k), k + 1) BY <1>8, <1>9, WalkSteps
<1> QED BY <1>5, <1>8, <1>10, <1>11

LEMMA DayWalk ==
    ASSUME NEW S, S \subseteq Punch, NEW O
    PROVE  WalkInv(S, O, PairEvents(S, O), Horizon + 1)
<1>1. Horizon + 1 \in 0..Horizon + 1 BY AttendanceAssumption
<1>2. PICK g : Walk(S, O, g, Horizon + 1) /\ PairEvents(S, O) = g[Horizon + 1]
  BY PairEventsWalk
<1> QED BY <1>1, <1>2, WalkKeeps

-----------------------------------------------------------------------------
(***************************************************************************)
(* Every reachable state.                                                  *)
(***************************************************************************)
LEMMA TypeInit == Init => TypeOK
<1> SUFFICES ASSUME Init PROVE TypeOK OBVIOUS
<1>1. req \in [Requests -> Request] BY DEF Init, Request
<1>2. leave \in [Days -> Leaves] BY DEF Init, Leaves
<1>3. now \in Instants BY AttendanceAssumption DEF Init, Instants
<1> QED BY <1>1, <1>2, <1>3 DEF Init, TypeOK

LEMMA EventType ==
    ASSUME NEW kind \in Kinds, NEW at \in Instants PROVE Event(kind, at) \in Punch
BY DEF Event, Punch

LEMMA PunchRequest ==
    ASSUME NEW r \in Request, r.op = "punch"
    PROVE  r.kind \in Kinds /\ r.at \in Instants
BY DEF Request, Idle

LEMMA TypeNext == TypeOK /\ [Next]_vars => TypeOK'
<1> SUFFICES ASSUME TypeOK, [Next]_vars PROVE TypeOK' OBVIOUS
<1>1. Idle \in Request BY DEF Request
<1>2. ASSUME NEW t \in Requests, NEW kind \in Kinds, BeginPunch(t, kind) PROVE TypeOK'
  <2>1. [op |-> "punch", kind |-> kind, at |-> now] \in Request BY DEF TypeOK, Request
  <2> QED BY <1>2, <2>1 DEF TypeOK, BeginPunch, Start
<1>3. ASSUME NEW t \in Requests, CommitPunch(t) PROVE TypeOK'
  <2>1. req[t] \in Request /\ req[t].op = "punch" BY <1>3 DEF TypeOK, CommitPunch
  <2>2. Event(req[t].kind, req[t].at) \in Punch BY <2>1, PunchRequest, EventType
  <2>3. req' \in [Requests -> Request] BY <1>1, <1>3 DEF TypeOK, CommitPunch, Finish
  <2> QED BY <1>3, <2>2, <2>3 DEF TypeOK, CommitPunch
<1>4. ASSUME NEW t \in Requests, Rollback(t) PROVE TypeOK'
  BY <1>1, <1>4 DEF TypeOK, Rollback, Finish
<1>5. ASSUME NEW t \in Requests, NEW kind \in Kinds, NEW at \in Instants,
             PunchOnBehalf(t, kind, at)
      PROVE  TypeOK'
  BY <1>5, EventType DEF TypeOK, PunchOnBehalf
<1>6. ASSUME NEW t \in Requests, NEW o \in Offsets, UpdatePolicy(t, o) PROVE TypeOK'
  BY <1>6 DEF TypeOK, UpdatePolicy
<1>7. CASE Tick BY <1>7, AttendanceAssumption DEF TypeOK, Tick, Instants
<1>8. ASSUME NEW d \in Days, NEW kind \in DayKinds, Declare(d, kind) PROVE TypeOK'
  BY <1>8 DEF TypeOK, Declare
<1>9. ASSUME NEW d \in Days, NEW kind \in Leaves, DecideLeave(d, kind) PROVE TypeOK'
  BY <1>9 DEF TypeOK, DecideLeave
<1>10. CASE UNCHANGED vars BY <1>10 DEF TypeOK, vars
<1> QED BY <1>2, <1>3, <1>4, <1>5, <1>6, <1>7, <1>8, <1>9, <1>10 DEF Next, Handler, World

\* Every reachable state is well typed, two punches at one instant and all.
THEOREM TypeCorrect == Spec => []TypeOK
<1> QED BY TypeInit, TypeNext, PTL DEF Spec

-----------------------------------------------------------------------------
(***************************************************************************)
(* What the day of a well typed state comes to.                            *)
(***************************************************************************)
LEMMA OwnPunches == ASSUME TypeOK, NEW d PROVE PunchesOf(d) \subseteq Punch
BY DEF TypeOK, PunchesOf

LEMMA SummaryIs ==
    ASSUME NEW d, NEW O
    PROVE  LET day == PairEvents(PunchesOf(d), O) IN
           /\ SummaryOf(d, O).firstIn = day.firstIn
           /\ SummaryOf(d, O).open = (day.openAt # Nothing)
           /\ SummaryOf(d, O).worked =
                  day.worked + IF day.openAt # Nothing /\ now > day.openAt
                               THEN (now - day.openAt) \div Minute ELSE 0
           /\ SummaryOf(d, O).late =
                  (calendar[d] = "working" /\ day.firstIn # Nothing
                   /\ day.firstIn + offset > d * DayLength + WorkdayStart + Grace)
BY DEF SummaryOf

OnClock(d, O) == {i \in Instants : OnTheClock(d, O, i)}

LEMMA ClockIsRunning ==
    ASSUME NEW d, NEW O, NEW i
    PROVE  OnTheClock(d, O, i) <=>
              /\ Running(PunchesOf(d), O, i)
              /\ i < now \/ \E q \in PunchesOf(d) : q.kind = "out" /\ q.at > i
BY DEF OnTheClock, Running

\* A clock that has stopped was stopped by a check-out.
LEMMA StoppedBy ==
    ASSUME NEW S, S \subseteq Punch, NEW O, NEW i \in Nat, NEW n \in Nat, i <= n,
           Running(S, O, i), ~Running(S, O, n)
    PROVE  \E q \in S : q.kind = "out" /\ q.at > i /\ q.at <= n
<1>1. \A p \in S : p.at \in Nat BY PunchForm
<1>2. PICK p \in S : /\ p.kind = "in" /\ p.at <= i
                     /\ \A q \in S : q.kind = "out" /\ q.at <= i => ~Since(q, p, O)
  BY DEF Running
<1>3. p.at <= n BY <1>1, <1>2
<1>4. PICK q \in S : q.kind = "out" /\ q.at <= n /\ Since(q, p, O)
  BY <1>2, <1>3 DEF Running
<1>5. q.at > i BY <1>1, <1>2, <1>4
<1> QED BY <1>4, <1>5

\* The slots of the clock are those that ran before some instant, and what is
\* counted is what was kept of them.
LEMMA WorkedIsKept ==
    ASSUME TypeOK, NEW d, NEW O
    PROVE  \E n \in 0..Horizon + 1 :
              /\ OnClock(d, O) = Ran(PunchesOf(d), O, n)
              /\ Kept(PunchesOf(d), O, SummaryOf(d, O).worked, n)
<1> DEFINE S == PunchesOf(d)
           day == PairEvents(S, O)
           a == day.openAt
           w == SummaryOf(d, O).worked
<1>1. /\ now \in Nat /\ Horizon \in Nat /\ now <= Horizon /\ Nothing = -1
  BY AttendanceAssumption DEF TypeOK, Instants, Nothing
<1>2. S \subseteq Punch BY OwnPunches
<1>3. \A p \in S : p.kind \in {"in", "out"} /\ p.at \in Nat /\ p.at <= Horizon
  BY <1>2, PunchForm DEF Instants
<1>4. day \in Found /\ ClockAt(S, O, day, Horizon + 1) /\ WorkedAt(S, O, day, Horizon + 1)
  BY <1>2, DayWalk DEF WalkInv
<1>5. day.worked \in Int /\ a \in Int BY <1>4 DEF Found
<1>6. w = day.worked + IF a # Nothing /\ now > a THEN (now - a) \div Minute ELSE 0
  BY SummaryIs
<1>7. \A i \in Instants : OnTheClock(d, O, i) <=>
          /\ Running(S, O, i)
          /\ i < now \/ \E q \in S : q.kind = "out" /\ q.at > i
  BY ClockIsRunning
<1>8. \A i : i \in Instants <=> i \in Int /\ 0 <= i /\ i <= Horizon
  BY <1>1 DEF Instants
<1> HIDE DEF S, day, w
<1>9. CASE a = Nothing
  <2>1. ~Running(S, O, Horizon) /\ Kept(S, O, day.worked, Horizon + 1)
    BY <1>1, <1>4, <1>9 DEF ClockAt, WorkedAt
  <2>2. ASSUME NEW i \in Instants, Running(S, O, i)
        PROVE  \E q \in S : q.kind = "out" /\ q.at > i
    <3>1. i \in Nat /\ i <= Horizon BY <1>1, <1>8
    <3> QED BY <1>1, <1>2, <2>1, <2>2, <3>1, StoppedBy
  <2>3. OnClock(d, O) = Ran(S, O, Horizon + 1)
    BY <1>1, <1>7, <1>8, <2>2 DEF OnClock, Ran
  <2>4. w = day.worked BY <1>5, <1>6, <1>9
  <2>5. Horizon + 1 \in 0..Horizon + 1 BY <1>1
  <2> QED BY <2>1, <2>3, <2>4, <2>5 DEF S, w
<1>10. CASE a # Nothing
  <2>1. /\ a \in Nat /\ a <= Horizon /\ Event("in", a) \in S
        /\ ~Running(S, O, a - 1) \/ Event("out", a) \in S
        /\ \A j \in a..Horizon : Running(S, O, j)
        /\ \A q \in S : q.kind = "out" => ~(a < q.at /\ q.at <= Horizon)
        /\ Kept(S, O, day.worked, a)
    BY <1>1, <1>4, <1>10 DEF ClockAt, WorkedAt
  <2>2. \A q \in S : q.kind = "out" => q.at <= a BY <1>3, <2>1
  <2>3. ASSUME NEW i \in Instants, Running(S, O, i), i < a
        PROVE  \E q \in S : q.kind = "out" /\ q.at > i
    <3>1. i \in Nat /\ i <= a - 1 /\ a - 1 \in Nat BY <1>8, <2>1, <2>3
    <3>2. CASE ~Running(S, O, a - 1) BY <1>2, <2>3, <3>1, <3>2, StoppedBy
    <3>3. CASE Event("out", a) \in S
      <4>1. Event("out", a).kind = "out" /\ Event("out", a).at = a BY EventIs
      <4> QED BY <2>3, <3>3, <4>1
    <3> QED BY <2>1, <3>2, <3>3
  <2>4. \A i \in Instants : i >= a => (OnTheClock(d, O, i) <=> i < now)
    <3>1. \A i \in Instants : i >= a => Running(S, O, i) BY <1>8, <2>1
    <3>2. \A i \in Instants : i >= a => ~ \E q \in S : q.kind = "out" /\ q.at > i
      BY <1>3, <1>8, <2>1, <2>2
    <3> QED BY <1>7, <3>1, <3>2
  <2>5. \A i \in Instants : i < a => (OnTheClock(d, O, i) <=> Running(S, O, i))
    BY <1>7, <2>3
  <2>6. CASE now > a
    <3>1. OnClock(d, O) = Ran(S, O, now)
      <4>1. \A i : i \in 0..now - 1 <=> i \in Int /\ 0 <= i /\ i < now BY <1>1
      <4>2. ASSUME NEW i PROVE i \in OnClock(d, O) <=> i \in Ran(S, O, now)
        <5>1. i \in OnClock(d, O) <=> i \in Instants /\ OnTheClock(d, O, i) BY DEF OnClock
        <5>2. i \in Ran(S, O, now) <=> i \in 0..now - 1 /\ Running(S, O, i) BY DEF Ran
        <5>3. CASE i \notin Instants BY <1>1, <1>8, <4>1, <5>1, <5>2, <5>3
        <5>4. CASE i \in Instants /\ i < a
          BY <1>1, <1>8, <2>1, <2>5, <2>6, <4>1, <5>1, <5>2, <5>4
        <5>5. CASE i \in Instants /\ i >= a
          BY <1>1, <1>8, <2>1, <2>4, <4>1, <5>1, <5>2, <5>5
        <5>6. i \in Instants => i < a \/ i >= a BY <1>8, <2>1
        <5> QED BY <5>3, <5>4, <5>5, <5>6
      <4> QED BY <4>2
    <3>2. \A j \in a..now - 1 : Running(S, O, j) BY <1>1, <2>1
    <3>3. Kept(S, O, day.worked + (now - a) \div Minute, now)
      BY <1>1, <2>1, <2>6, <3>2, Closing
    <3>4. w = day.worked + (now - a) \div Minute BY <1>6, <1>10, <2>6
    <3>5. now \in 0..Horizon + 1 BY <1>1
    <3> QED BY <3>1, <3>3, <3>4, <3>5 DEF S, w
  <2>7. CASE ~(now > a)
    <3>1. OnClock(d, O) = Ran(S, O, a)
      <4>1. \A i : i \in 0..a - 1 <=> i \in Int /\ 0 <= i /\ i < a BY <2>1
      <4>2. ASSUME NEW i PROVE i \in OnClock(d, O) <=> i \in Ran(S, O, a)
        <5>1. i \in OnClock(d, O) <=> i \in Instants /\ OnTheClock(d, O, i) BY DEF OnClock
        <5>2. i \in Ran(S, O, a) <=> i \in 0..a - 1 /\ Running(S, O, i) BY DEF Ran
        <5>3. CASE i \notin Instants BY <1>1, <1>8, <2>1, <4>1, <5>1, <5>2, <5>3
        <5>4. CASE i \in Instants /\ i < a
          BY <1>8, <2>1, <2>5, <4>1, <5>1, <5>2, <5>4
        <5>5. CASE i \in Instants /\ i >= a
          BY <1>1, <1>8, <2>1, <2>4, <2>7, <4>1, <5>1, <5>2, <5>5
        <5>6. i \in Instants => i < a \/ i >= a BY <1>8, <2>1
        <5> QED BY <5>3, <5>4, <5>5, <5>6
      <4> QED BY <4>2
    <3>2. w = day.worked BY <1>5, <1>6, <2>7
    <3>3. a \in 0..Horizon + 1 BY <1>1, <2>1
    <3> QED BY <2>1, <3>1, <3>2, <3>3 DEF S, w
  <2> QED BY <2>6, <2>7
<1> QED BY <1>9, <1>10

LEMMA WorkedNow == TypeOK => WorkedMatchesClock
<1> SUFFICES ASSUME TypeOK, NEW d \in Days, NEW order \in Readings
             PROVE  LET counted == Minute * SummaryOf(d, order).worked
                        ran     == Cardinality({i \in Instants : OnTheClock(d, order, i)})
                    IN counted <= ran
                       /\ ran <= counted + (Minute - 1) * Cardinality(CheckIns(d))
  BY DEF WorkedMatchesClock
<1> DEFINE S == PunchesOf(d)
           w == SummaryOf(d, order).worked
           ran == Cardinality(OnClock(d, order))
<1>1. PICK n \in 0..Horizon + 1 : OnClock(d, order) = Ran(S, order, n) /\ Kept(S, order, w, n)
  BY WorkedIsKept
<1>2. Minute \in Nat \ {0} /\ Horizon \in Nat /\ Horizon + 1 \in Nat /\ n \in Nat
      /\ n <= Horizon + 1
  BY AttendanceAssumption
<1>3. CheckIns(d) = Ins(S, Horizon + 1) BY <1>2 DEF CheckIns, Ins, Instants
<1> DEFINE m == Cardinality(Ins(S, n))
           ins == Cardinality(CheckIns(d))
<1>4. m \in Nat /\ ins \in Nat /\ ran \in Nat BY <1>1, <1>2, <1>3, RanFinite
<1>5. m <= ins BY <1>2, <1>3, InsGrow
<1>6. w \in Nat /\ Minute * w <= ran /\ ran <= Minute * w + (Minute - 1) * m
  BY <1>1 DEF Kept
<1> HIDE DEF w, ran, m, ins
<1>7. (Minute - 1) * m <= (Minute - 1) * ins
  <2>1. m * (Minute - 1) <= ins * (Minute - 1) BY <1>2, <1>4, <1>5, TimesKeepsOrder
  <2> QED BY <1>2, <1>4, <2>1
<1>8. Minute * w \in Int /\ (Minute - 1) * m \in Int /\ (Minute - 1) * ins \in Int
  BY <1>2, <1>4, <1>6
<1>9. Minute * w <= ran /\ ran <= Minute * w + (Minute - 1) * ins
  BY <1>4, <1>6, <1>7, <1>8
<1> QED BY <1>9 DEF w, ran, ins, OnClock

\* The minutes worked on a day are those a clock ran that a check-in starts and
\* a check-out stops, but for less than a minute of each session: for any
\* punches, recorded in any order and by anybody and read in any order where
\* they tie, any timezone and any time of asking.
THEOREM WorkedMatchesClockHolds == Spec => []WorkedMatchesClock
<1> QED BY TypeCorrect, WorkedNow, PTL

-----------------------------------------------------------------------------
(***************************************************************************)
(* The day of somebody who came in.                                        *)
(***************************************************************************)
LEMMA DayOfPunch ==
    ASSUME TypeOK, NEW p \in punches
    PROVE  p \in PunchesOf(LocalDay(p.at)) /\ p.at \in Nat /\ p.at <= Horizon
BY PunchForm, AttendanceAssumption DEF TypeOK, PunchesOf, Instants

LEMMA CameIn ==
    ASSUME TypeOK, NEW d, NEW O, NEW p \in PunchesOf(d), p.kind = "in"
    PROVE  SummaryOf(d, O).firstIn # Nothing
<1>1. FirstAt(PunchesOf(d), PairEvents(PunchesOf(d), O), Horizon + 1)
  BY OwnPunches, DayWalk DEF WalkInv
<1>2. p.at < Horizon + 1
  <2>1. p \in punches BY DEF PunchesOf
  <2> QED BY <2>1, DayOfPunch, AttendanceAssumption
<1> QED BY <1>1, <1>2, SummaryIs DEF FirstAt

\* A day is open to its end, unless what is read last of it is a leaving.
LEMMA OpenUnlessLeft ==
    ASSUME TypeOK, NEW d, NEW O, NEW p \in PunchesOf(d), p.kind = "in"
    PROVE  ~SummaryOf(d, O).open <=> LeftLast(d, O)
<1> DEFINE S == PunchesOf(d)
           day == PairEvents(S, O)
<1>1. Horizon \in Nat /\ (Horizon + 1) - 1 = Horizon BY AttendanceAssumption
<1>2. S \subseteq Punch BY OwnPunches
<1>3. \A q \in S : q.kind \in {"in", "out"} /\ q.at \in Nat /\ q.at <= Horizon
  BY <1>2, PunchForm DEF Instants
<1>4. ~SummaryOf(d, O).open <=> ~Running(S, O, Horizon)
  <2>1. ClockAt(S, O, day, Horizon + 1) /\ day \in Found BY <1>2, DayWalk DEF WalkInv
  <2>2. SummaryOf(d, O).open = (day.openAt # Nothing) BY SummaryIs
  <2> HIDE DEF S, day
  <2>3. day.openAt = Nothing => ~Running(S, O, Horizon) BY <1>1, <2>1 DEF ClockAt
  <2>4. day.openAt # Nothing => Running(S, O, Horizon) BY <1>1, <2>1 DEF ClockAt, Found
  <2> QED BY <2>2, <2>3, <2>4
<1>5. p \in S OBVIOUS
<1>6. LeftLast(d, O) <=>
          \E q \in S : q.kind = "out" /\ \A r \in S : r.kind = "in" => Since(q, r, O)
  BY DEF LeftLast
<1> HIDE DEF S, day
<1>7. ASSUME LeftLast(d, O) PROVE ~Running(S, O, Horizon)
  BY <1>3, <1>6, <1>7 DEF Running
<1>8. ASSUME ~Running(S, O, Horizon) PROVE LeftLast(d, O)
  <2> DEFINE left == {Horizon - r.at : r \in {s \in S : s.kind = "in"}}
  <2>1. left \in SUBSET Nat /\ left # {} BY <1>1, <1>3, <1>5
  <2>2. \A r \in S : r.kind = "in" => Horizon - r.at \in left OBVIOUS
  <2>3. \A n \in left : \E r \in S : r.kind = "in" /\ n = Horizon - r.at OBVIOUS
  <2> HIDE DEF left
  <2>4. PICK n \in left : \A m \in left : n <= m BY <2>1, LeastOfNat
  <2>5. PICK r \in S : r.kind = "in" /\ n = Horizon - r.at BY <2>3
  <2>6. ASSUME NEW s \in S, s.kind = "in" PROVE s.at <= r.at
    <3>1. n <= Horizon - s.at BY <2>2, <2>4, <2>6
    <3> QED BY <1>1, <1>3, <2>5, <3>1
  <2>7. r.at <= Horizon BY <1>3
  <2>8. PICK q \in S : q.kind = "out" /\ Since(q, r, O) BY <1>8, <2>5, <2>7 DEF Running
  <2>9. ASSUME NEW s \in S, s.kind = "in" PROVE Since(q, s, O)
    BY <1>3, <2>6, <2>8, <2>9 DEF Since
  <2> QED BY <1>6, <2>8, <2>9
<1> QED BY <1>4, <1>7, <1>8

LEMMA EvidenceNow == TypeOK => EvidenceIsNotAbsence
<1> SUFFICES ASSUME TypeOK, NEW order \in Readings, NEW p \in punches, p.kind = "in",
                    calendar[LocalDay(p.at)] = "working"
             PROVE  LET d == LocalDay(p.at) IN
                    /\ Derive(d, order).status = "worked"
                    /\ Derive(d, order).approved <=> UtcDay <= d \/ LeftLast(d, order)
                    /\ d = LocalDay(now) => StateToday(order) = "present"
  BY DEF EvidenceIsNotAbsence
<1> DEFINE d == LocalDay(p.at)
<1>1. p \in PunchesOf(d) BY DayOfPunch
<1>2. SummaryOf(d, order).firstIn # Nothing BY <1>1, CameIn
<1>3. ~SummaryOf(d, order).open <=> LeftLast(d, order) BY <1>1, OpenUnlessLeft
<1>4. d \in Int /\ UtcDay \in Int
  <2>1. now \in Nat /\ DayLength \in Nat \ {0} /\ offset \in Int /\ p.at \in Nat
    BY AttendanceAssumption, DayOfPunch DEF TypeOK, Instants
  <2>2. p.at + offset \in Int BY <2>1
  <2> QED BY <2>1, <2>2, Divided DEF LocalDay, UtcDay
<1>5. ASSUME NEW today
      PROVE  DayState(d, today, order) =
                 IF SummaryOf(d, order).open /\ d < today THEN "missing_punch" ELSE "present"
  BY <1>2 DEF DayState
<1>6. d = LocalDay(now) => StateToday(order) = "present"
  <2> SUFFICES ASSUME d = LocalDay(now) PROVE DayState(d, d, order) = "present"
    BY DEF StateToday
  <2> HIDE DEF d
  <2> QED BY <1>4, <1>5
<1> DEFINE state == DayState(d, UtcDay, order)
           derived == Derive(d, order)
<1>7. state = IF SummaryOf(d, order).open /\ d < UtcDay THEN "missing_punch" ELSE "present"
  BY <1>5
<1>8. derived = CASE state \in {"holiday", "weekly_off"}      -> [status |-> "none", approved |-> FALSE]
                  [] state \in {"paid_leave", "unpaid_leave"} -> [status |-> "leave", approved |-> TRUE]
                  [] state = "absent"        -> [status |-> "absent", approved |-> FALSE]
                  [] state = "missing_punch" -> [status |-> "worked", approved |-> FALSE]
                  [] state = "present"       -> [status |-> "worked", approved |-> TRUE]
  BY DEF Derive
<1> HIDE DEF d, state, derived
<1>9. derived = [status |-> "worked", approved |-> state = "present"]
  <2>1. CASE state = "missing_punch" BY <1>8, <2>1
  <2>2. CASE state = "present" BY <1>8, <2>2
  <2> QED BY <1>7, <2>1, <2>2
<1>10. derived.status = "worked" BY <1>9
<1>11. derived.approved <=> UtcDay <= d \/ LeftLast(d, order)
  <2>1. state = "present" <=> ~SummaryOf(d, order).open \/ ~(d < UtcDay) BY <1>7
  <2>2. derived.approved = (state = "present") BY <1>9
  <2>3. ~(d < UtcDay) <=> UtcDay <= d BY <1>4
  <2> QED BY <1>3, <2>1, <2>2, <2>3, Zenon
<1> QED BY <1>6, <1>10, <1>11 DEF d, derived

\* "Somebody worked and the record is incomplete - which is NOT absence":
\* whatever else is recorded of the day, by whom and in what order, a check-in
\* on a working day is a day's work, and the bridge signs it off just if the
\* day is not over in UTC or what is read last of it is a leaving.
THEOREM EvidenceIsNotAbsenceHolds == Spec => []EvidenceIsNotAbsence
<1> QED BY TypeCorrect, EvidenceNow, PTL

-----------------------------------------------------------------------------
(***************************************************************************)
(* One more check-in.  The walk with it is never behind the walk without.  *)
(***************************************************************************)
\* More was worked, and the clock runs if the other's does, from no later on.
Ahead(a, b) ==
    /\ a.worked <= b.worked
    /\ a.openAt # Nothing => b.openAt # Nothing /\ b.openAt <= a.openAt

LEMMA DivideKeepsOrder ==
    ASSUME NEW m \in Int, NEW n \in Int, m <= n
    PROVE  /\ m \div Minute \in Int /\ n \div Minute \in Int
           /\ m \div Minute <= n \div Minute
<1>1. Minute \in Nat \ {0} BY AttendanceAssumption
<1> DEFINE x == m \div Minute
           y == n \div Minute
<1>2. /\ x \in Int /\ Minute * x <= m
      /\ y \in Int /\ n < Minute * y + Minute
  BY <1>1, Divided
<1> HIDE DEF x, y
<1>3. ~(y + 1 <= x)
  <2> SUFFICES ASSUME y + 1 <= x PROVE FALSE OBVIOUS
  <2>1. (y + 1) * Minute <= x * Minute BY <1>1, <1>2, TimesKeepsOrder
  <2>2. (y + 1) * Minute = Minute * y + Minute /\ x * Minute = Minute * x BY <1>1, <1>2
  <2>3. Minute * x \in Int /\ Minute * y \in Int BY <1>1, <1>2
  <2> QED BY <1>1, <1>2, <2>1, <2>2, <2>3
<1> QED BY <1>2, <1>3 DEF x, y

LEMMA SessionIsNat ==
    ASSUME NEW m \in Nat PROVE m \div Minute \in Int /\ 0 <= m \div Minute
<1>1. 0 - 0 = 0 /\ 0 \in Nat OBVIOUS
<1>2. 0 \div Minute = 0 BY <1>1, NoTime
<1> QED BY <1>2, DivideKeepsOrder

LEMMA StaysAhead ==
    ASSUME NEW S, S \subseteq Punch, NEW O, NEW e \in Punch, e.kind = "in",
           NEW i \in Instants, NEW a, NEW b, Ahead(a, b),
           WalkInv(S, O, a, i), WalkInv(S \cup {e}, O, b, i)
    PROVE  Ahead(PairAt(S, O, a, i), PairAt(S \cup {e}, O, b, i))
<1> DEFINE T == S \cup {e}
           in(U) == Event("in", i) \in U
           out == Event("out", i) \in S
           na == PairAt(S, O, a, i)
           nb == PairAt(T, O, b, i)
<1>1. i \in Nat /\ Nothing = -1 BY AttendanceAssumption DEF Instants, Nothing
<1>2. (in(S) => in(T)) /\ (Event("out", i) \in T <=> out)
  <2>1. e # Event("out", i) BY EventIs
  <2> QED BY <2>1
<1>3. /\ a \in Found /\ (a.openAt # Nothing => a.openAt \in 0..i - 1)
      /\ b \in Found /\ (b.openAt # Nothing => b.openAt \in 0..i - 1)
      /\ (a.firstIn = Nothing => a.openAt = Nothing)
      /\ (b.firstIn = Nothing => b.openAt = Nothing)
  BY DEF WalkInv, ClockAt, FirstAt
<1>4. Stepped(S, O, a, na, i) /\ Stepped(T, O, b, nb, i)
  <2>1. Stepped(S, O, a, na, i) BY <1>1, <1>3, StepForm
  <2>2. Stepped(T, O, b, nb, i) BY <1>1, <1>3, StepForm
  <2> QED BY <2>1, <2>2
<1>5. /\ a.worked \in Int /\ a.openAt \in Int /\ b.worked \in Int /\ b.openAt \in Int
  BY <1>3 DEF Found
<1>6. a.worked <= b.worked /\ (a.openAt # Nothing => b.openAt # Nothing /\ b.openAt <= a.openAt)
  BY DEF Ahead
<1> HIDE DEF na, nb, T
<1>7. /\ na.openAt = IF in(S) /\ (~out \/ i \in O)
                     THEN IF out \/ a.openAt = Nothing THEN i ELSE a.openAt
                     ELSE IF out THEN Nothing ELSE a.openAt
      /\ na.worked = IF out /\ a.openAt # Nothing
                     THEN a.worked + (i - a.openAt) \div Minute ELSE a.worked
  BY <1>4 DEF Stepped
<1>8. /\ nb.openAt = IF in(T) /\ (~out \/ i \in O)
                     THEN IF out \/ b.openAt = Nothing THEN i ELSE b.openAt
                     ELSE IF out THEN Nothing ELSE b.openAt
      /\ nb.worked = IF out /\ b.openAt # Nothing
                     THEN b.worked + (i - b.openAt) \div Minute ELSE b.worked
  <2>1. nb.openAt = IF in(T) /\ (~(Event("out", i) \in T) \/ i \in O)
                    THEN IF Event("out", i) \in T \/ b.openAt = Nothing THEN i ELSE b.openAt
                    ELSE IF Event("out", i) \in T THEN Nothing ELSE b.openAt
    BY <1>4 DEF Stepped
  <2>2. nb.worked = IF Event("out", i) \in T /\ b.openAt # Nothing
                    THEN b.worked + (i - b.openAt) \div Minute ELSE b.worked
    BY <1>4 DEF Stepped
  <2> QED BY <1>2, <2>1, <2>2
<1>9. na.worked <= nb.worked
  <2>1. CASE out /\ a.openAt # Nothing
    <3>1. (i - a.openAt) \div Minute \in Int /\ (i - b.openAt) \div Minute \in Int
          /\ (i - a.openAt) \div Minute <= (i - b.openAt) \div Minute
      <4>1. i - a.openAt \in Int /\ i - b.openAt \in Int /\ i - a.openAt <= i - b.openAt
        BY <1>1, <1>5, <1>6, <2>1
      <4> QED BY <4>1, DivideKeepsOrder
    <3> QED BY <1>5, <1>6, <1>7, <1>8, <2>1, <3>1
  <2>2. CASE out /\ a.openAt = Nothing /\ b.openAt # Nothing
    <3>1. i - b.openAt \in Nat BY <1>1, <1>3, <2>2
    <3>2. (i - b.openAt) \div Minute \in Int /\ 0 <= (i - b.openAt) \div Minute
      BY <3>1, SessionIsNat
    <3> QED BY <1>5, <1>6, <1>7, <1>8, <2>2, <3>2
  <2>3. CASE ~out \/ b.openAt = Nothing BY <1>6, <1>7, <1>8, <2>3
  <2> QED BY <2>1, <2>2, <2>3
<1>10. na.openAt # Nothing => nb.openAt # Nothing /\ nb.openAt <= na.openAt
  <2>1. b.openAt # Nothing => b.openAt <= i BY <1>1, <1>3
  <2>2. i # Nothing /\ i <= i BY <1>1
  <2>3. CASE in(S) BY <1>2, <1>5, <1>6, <1>7, <1>8, <2>1, <2>2, <2>3
  <2>4. CASE ~in(S) BY <1>5, <1>6, <1>7, <1>8, <2>1, <2>2, <2>4
  <2> QED BY <2>3, <2>4
<1> QED BY <1>9, <1>10 DEF Ahead, na, nb, T

LEMMA EndsAhead ==
    ASSUME NEW S, S \subseteq Punch, NEW O, NEW e \in Punch, e.kind = "in"
    PROVE  Ahead(PairEvents(S, O), PairEvents(S \cup {e}, O))
<1> DEFINE T == S \cup {e}
           n == Horizon + 1
<1>1. n \in Nat BY AttendanceAssumption
<1>2. T \subseteq Punch OBVIOUS
<1>3. PICK g : Walk(S, O, g, n) /\ PairEvents(S, O) = g[n] BY PairEventsWalk
<1>4. PICK h : Walk(T, O, h, n) /\ PairEvents(T, O) = h[n] BY PairEventsWalk
<1>5. \A i \in 0..n : WalkInv(S, O, g[i], i) BY <1>3, WalkKeeps
<1>6. \A i \in 0..n : WalkInv(T, O, h[i], i) BY <1>2, <1>4, WalkKeeps
<1>7. \A i \in 0..n : i \in Int /\ (i = 0 \/ i - 1 \in Instants)
  BY AttendanceAssumption DEF Instants
<1>8. \A j \in 0..n : g[j] = IF j = 0 THEN NoPunch ELSE PairAt(S, O, g[j - 1], j - 1)
  BY <1>3, WalkAt
<1> HIDE DEF T
<1>9. \A j \in 0..n : h[j] = IF j = 0 THEN NoPunch ELSE PairAt(T, O, h[j - 1], j - 1)
  BY <1>4, WalkAt
<1> HIDE DEF n
<1> DEFINE Bad == {i \in 0..n : ~Ahead(g[i], h[i])}
<1>10. SUFFICES ASSUME Bad # {} PROVE FALSE BY <1>1, <1>3, <1>4 DEF T
<1>11. Bad \in SUBSET Nat OBVIOUS
<1>12. PICK i \in Bad : \A j \in Bad : i <= j
  <2> HIDE DEF Bad
  <2> QED BY <1>10, <1>11, LeastOfNat
<1>13. i \in 0..n /\ ~Ahead(g[i], h[i]) OBVIOUS
<1>14. i # 0
  <2>1. Ahead(NoPunch, NoPunch) BY DEF Ahead, NoPunch
  <2>2. 0 \in 0..n BY <1>1
  <2> QED BY <1>8, <1>9, <1>13, <2>1, <2>2
<1> DEFINE k == i - 1
<1>15. k \in 0..n /\ k \in Instants /\ k \notin Bad BY <1>1, <1>7, <1>12, <1>13, <1>14
<1>16. Ahead(g[k], h[k]) BY <1>15
<1>17. g[i] = PairAt(S, O, g[k], k) /\ h[i] = PairAt(T, O, h[k], k)
  BY <1>8, <1>9, <1>13, <1>14
<1> HIDE DEF k, Bad
<1>18. WalkInv(S, O, g[k], k) /\ WalkInv(T, O, h[k], k) BY <1>5, <1>6, <1>15
<1>19. Ahead(PairAt(S, O, g[k], k), PairAt(T, O, h[k], k))
  BY <1>15, <1>16, <1>18, StaysAhead DEF T
<1> QED BY <1>13, <1>17, <1>19

\* A step that adds a punch adds it alone, and changes nothing else a day is
\* read by.
LEMMA PunchAdded ==
    ASSUME TypeOK, [Next]_vars, NEW p \in punches' \ punches
    PROVE  /\ p \in Punch /\ punches' = punches \cup {p}
           /\ UNCHANGED <<now, offset, calendar>>
<1>1. ASSUME NEW t \in Requests, CommitPunch(t)
      PROVE  /\ p \in Punch /\ punches' = punches \cup {p}
             /\ UNCHANGED <<now, offset, calendar>>
  <2>1. Event(req[t].kind, req[t].at) \in Punch
    BY <1>1, PunchRequest, EventType DEF TypeOK, CommitPunch
  <2> QED BY <1>1, <2>1 DEF CommitPunch
<1>2. ASSUME NEW t \in Requests, NEW kind \in Kinds, NEW at \in Instants,
             PunchOnBehalf(t, kind, at)
      PROVE  /\ p \in Punch /\ punches' = punches \cup {p}
             /\ UNCHANGED <<now, offset, calendar>>
  BY <1>2, EventType DEF PunchOnBehalf
<1> QED BY <1>1, <1>2
     DEF Next, Handler, World, vars, BeginPunch, Rollback, UpdatePolicy, Tick, Declare,
         DecideLeave

LEMMA CheckInKeeps ==
    ASSUME TypeOK, NEW p \in Punch, p.kind = "in", punches' = punches \cup {p},
           UNCHANGED <<now, offset, calendar>>, NEW order, NEW d, d = LocalDay(p.at)
    PROVE  /\ SummaryOf(d, order).worked <= SummaryOf(d, order)'.worked
           /\ SummaryOf(d, order).firstIn # Nothing =>
                 (SummaryOf(d, order)'.late => SummaryOf(d, order).late)
<1> DEFINE S == PunchesOf(d)
           T == S \cup {p}
           before == PairEvents(S, order)
           after == PairEvents(T, order)
           running(c) == IF c.openAt # Nothing /\ now > c.openAt
                         THEN (now - c.openAt) \div Minute ELSE 0
<1>1. PunchesOf(d)' = T
  <2>1. p.at + offset = p.at + offset' OBVIOUS
  <2> QED BY DEF PunchesOf, LocalDay
<1>2. /\ SummaryOf(d, order).worked = before.worked + running(before)
      /\ SummaryOf(d, order).firstIn = before.firstIn
      /\ SummaryOf(d, order).late =
            (calendar[d] = "working" /\ before.firstIn # Nothing
             /\ before.firstIn + offset > d * DayLength + WorkdayStart + Grace)
  BY SummaryIs
<1>3. /\ SummaryOf(d, order)'.worked = after.worked + running(after)
      /\ SummaryOf(d, order)'.late =
            (calendar[d] = "working" /\ after.firstIn # Nothing
             /\ after.firstIn + offset > d * DayLength + WorkdayStart + Grace)
  BY <1>1 DEF SummaryOf
<1>4. S \subseteq Punch /\ T \subseteq Punch BY OwnPunches
<1>5. /\ FirstAt(S, before, Horizon + 1) /\ before \in Found
      /\ ClockAt(S, order, before, Horizon + 1)
  BY <1>4, DayWalk DEF WalkInv
<1>6. /\ FirstAt(T, after, Horizon + 1) /\ after \in Found
      /\ ClockAt(T, order, after, Horizon + 1)
  BY <1>4, DayWalk DEF WalkInv
<1>7. Ahead(before, after) BY <1>4, EndsAhead
<1>8. /\ before.worked \in Int /\ before.openAt \in Int /\ before.firstIn \in Int
      /\ after.worked \in Int /\ after.openAt \in Int /\ after.firstIn \in Int
  BY <1>5, <1>6 DEF Found
<1>9. now \in Nat BY AttendanceAssumption DEF TypeOK, Instants
<1>10. S \subseteq T OBVIOUS
<1> HIDE DEF S, T, before, after
<1>11. running(before) \in Int /\ running(after) \in Int /\ running(before) <= running(after)
  <2>1. ASSUME NEW c, c.openAt \in Int, c.openAt # Nothing, now > c.openAt
        PROVE  (now - c.openAt) \div Minute \in Int /\ 0 <= (now - c.openAt) \div Minute
    <3>1. now - c.openAt \in Nat BY <1>9, <2>1
    <3> QED BY <3>1, SessionIsNat
  <2>2. CASE before.openAt # Nothing /\ now > before.openAt
    <3>1. after.openAt # Nothing /\ now > after.openAt /\ after.openAt <= before.openAt
      BY <1>7, <1>8, <1>9, <2>2 DEF Ahead
    <3>2. now - before.openAt \in Int /\ now - after.openAt \in Int
          /\ now - before.openAt <= now - after.openAt
      BY <1>8, <1>9, <3>1
    <3>3. (now - before.openAt) \div Minute <= (now - after.openAt) \div Minute
      BY <3>2, DivideKeepsOrder
    <3>4. (now - before.openAt) \div Minute \in Int /\ (now - after.openAt) \div Minute \in Int
      BY <3>2, DivideKeepsOrder
    <3> QED BY <2>2, <3>1, <3>3, <3>4
  <2>3. CASE ~(before.openAt # Nothing /\ now > before.openAt)
    <3>1. running(before) = 0 BY <2>3
    <3>2. running(after) \in Int /\ 0 <= running(after)
      <4>1. CASE after.openAt # Nothing /\ now > after.openAt BY <1>8, <2>1, <4>1
      <4>2. CASE ~(after.openAt # Nothing /\ now > after.openAt) BY <4>2
      <4> QED BY <4>1, <4>2
    <3> HIDE DEF running
    <3> QED BY <3>1, <3>2
  <2> QED BY <2>2, <2>3
<1>12. SummaryOf(d, order).worked <= SummaryOf(d, order)'.worked
  <2> HIDE DEF running
  <2>1. before.worked <= after.worked BY <1>7 DEF Ahead
  <2> QED BY <1>2, <1>3, <1>8, <1>11, <2>1
<1>13. ASSUME SummaryOf(d, order).firstIn # Nothing, SummaryOf(d, order)'.late
       PROVE  SummaryOf(d, order).late
  <2>1. before.firstIn # Nothing BY <1>2, <1>13
  <2>2. /\ calendar[d] = "working" /\ after.firstIn # Nothing
        /\ after.firstIn + offset > d * DayLength + WorkdayStart + Grace
    BY <1>3, <1>13
  <2>3. /\ d \in Int /\ DayLength \in Nat /\ WorkdayStart \in Nat /\ Grace \in Nat
        /\ offset \in Int
    <3>1. DayLength \in Nat \ {0} /\ WorkdayStart \in Nat /\ Grace \in Nat /\ offset \in Int
      BY AttendanceAssumption DEF TypeOK
    <3>2. p.at + offset \in Int BY <3>1, PunchForm
    <3>3. d \in Int BY <3>1, <3>2, Divided DEF LocalDay
    <3> QED BY <3>1, <3>3
  <2>4. after.firstIn <= before.firstIn
    <3> DEFINE e == Event("in", before.firstIn)
    <3>1. e \in S BY <1>5, <2>1 DEF FirstAt
    <3>2. e.kind = "in" /\ e.at = before.firstIn BY EventIs
    <3> HIDE DEF e
    <3>3. after.firstIn <= e.at BY <1>6, <1>10, <2>2, <3>1, <3>2 DEF FirstAt
    <3> QED BY <3>2, <3>3
  <2>5. d * DayLength \in Int BY <2>3
  <2>6. before.firstIn + offset > d * DayLength + WorkdayStart + Grace
    BY <1>8, <2>2, <2>3, <2>4, <2>5
  <2> QED BY <1>2, <2>1, <2>2, <2>6, Zenon
<1> QED BY <1>12, <1>13

\* "Someone tapping twice shouldn't restart their clock and lose the earlier
\* minutes": one more check-in, whenever and by whoever, takes no time from
\* its day and makes nobody late who had come in.
THEOREM CheckInNeverLosesHolds == Spec => CheckInNeverLoses
<1> DEFINE Loses == \A d \in Days, order \in Readings' :
          (\E p \in punches' \ punches : p.kind = "in" /\ LocalDay(p.at) = d) =>
             \A before \in {SummaryOf(d, order)}, after \in {SummaryOf(d, order)'} :
                /\ before.worked <= after.worked
                /\ before.firstIn # Nothing => (after.late => before.late)
<1>1. TypeOK /\ [Next]_vars => Loses
  <2> SUFFICES ASSUME TypeOK, [Next]_vars, NEW d \in Days, NEW order \in Readings',
                      NEW p \in punches' \ punches, p.kind = "in", LocalDay(p.at) = d
               PROVE  /\ SummaryOf(d, order).worked <= SummaryOf(d, order)'.worked
                      /\ SummaryOf(d, order).firstIn # Nothing =>
                            (SummaryOf(d, order)'.late => SummaryOf(d, order).late)
    OBVIOUS
  <2>1. /\ p \in Punch /\ punches' = punches \cup {p}
        /\ UNCHANGED <<now, offset, calendar>>
    BY PunchAdded
  <2> QED BY <2>1, CheckInKeeps
<1> QED BY <1>1, TypeCorrect, PTL DEF CheckInNeverLoses, Spec
-----------------------------------------------------------------------------
(***************************************************************************)
(* Work facts.                                                             *)
(***************************************************************************)
(***************************************************************************)
(* What the writes of a commit leave of a day.                             *)
(***************************************************************************)
LEMMA NoFactType == NoFact \in Fact
BY FactsAssumption DEF NoFact, Fact

LEMMA UpdatedType ==
    ASSUME FactTypeOK, NEW d \in FactDays, NEW loaded \in Fact, NEW new \in Fact
    PROVE  Updated(d, loaded, new) \in Fact
<1>1. fact[d] \in Fact BY DEF FactTypeOK
<1> QED BY <1>1 DEF Updated, Flush, FlushTime, Fact

LEMMA RemovedType ==
    ASSUME FactTypeOK, NEW d \in FactDays, NEW loaded \in Fact
    PROVE  Removed(d, loaded) \in Fact
<1>1. fact[d] \in Fact BY DEF FactTypeOK
<1> QED BY <1>1, NoFactType DEF Removed, NoFact, Fact

LEMMA SavedType ==
    ASSUME FactTypeOK, NEW d \in FactDays, NEW loaded \in Fact, NEW new \in Fact,
           loaded.live \/ CanInsert(d)
    PROVE  Saved(d, loaded, new) \in Fact
<1>1. fact[d] \in Fact BY DEF FactTypeOK
<1>2. CASE loaded.live
  BY <1>2, UpdatedType DEF Saved
<1>3. CASE ~loaded.live
  <2>1. fact[d].row + 1 \in 0..MaxFacts
    BY <1>1, <1>3, FactsAssumption DEF CanInsert, Fact
  <2> QED BY <1>3, <2>1 DEF Saved, Inserted, Fact
<1> QED BY <1>2, <1>3

LEMMA RecordedType ==
    ASSUME NEW loaded \in Fact, NEW r, r.status \in Statuses, r.source \in Sources
    PROVE  Recorded(r, loaded) \in Fact
BY DEF Recorded, Fact

LEMMA DerivedType ==
    ASSUME FactTypeOK, NEW d \in FactDays, NEW state \in DayStates, NEW loaded \in Fact,
           ~loaded.live /\ state # "off" => CanInsert(d)
    PROVE  Derived(d, state, loaded) \in Fact
<1> DEFINE base == IF loaded.live THEN loaded ELSE NoFact
           new == [base EXCEPT !.status = StatusOf(state),
                               !.approved = AutoApprove(state), !.signed = FALSE]
<1>1. fact[d] \in Fact BY DEF FactTypeOK
<1>2. base \in Fact BY NoFactType
<1>3. StatusOf(state) \in Statuses /\ AutoApprove(state) \in BOOLEAN
  BY FactsAssumption DEF StatusOf, AutoApprove
<1>4. new \in Fact BY <1>2, <1>3 DEF Fact
<1> HIDE DEF base, new
<1>5. Removed(d, loaded) \in Fact BY RemovedType
<1>6. state # "off" => Saved(d, loaded, new) \in Fact BY <1>4, SavedType
<1>7. Derived(d, state, loaded) =
        IF Typed(loaded) THEN fact[d]
        ELSE IF state = "off" THEN IF loaded.live THEN Removed(d, loaded) ELSE fact[d]
        ELSE Saved(d, loaded, new)
  BY DEF Derived, base, new
<1> QED BY <1>1, <1>5, <1>6, <1>7

-----------------------------------------------------------------------------
(***************************************************************************)
(* Type correctness.                                                       *)
(***************************************************************************)
LEMMA InitFactType == FactInit => FactTypeOK
BY NoFactType DEF FactInit, FactTypeOK, DayStates, FactRequest, Idle

\* A handler that only begins keeps a well-typed request.
LEMMA BeginFactType ==
    ASSUME FactTypeOK, NEW t \in Requests, NEW request \in FactRequest,
           Start(t, request), UNCHANGED <<attendance, fact, closed>>
    PROVE  FactTypeOK'
BY DEF FactTypeOK, Start

LEMMA FinishFactType ==
    ASSUME FactTypeOK, NEW t \in Requests, Finish(t)
    PROVE  req' \in [Requests -> FactRequest]
BY DEF FactTypeOK, Finish, FactRequest

LEMMA RecordType ==
    ASSUME FactTypeOK, NEW t \in Requests, CommitRecord(t)
    PROVE  FactTypeOK'
<1> DEFINE r == req[t]
           base == IF r.loaded[r.day].live THEN r.loaded[r.day] ELSE NoFact
<1>1. /\ r.day \in FactDays /\ r.status \in Statuses /\ r.source \in Sources
      /\ r.loaded \in [FactDays -> Fact]
  BY DEF CommitRecord, FactTypeOK, FactRequest, Idle
<1>2. base \in Fact BY <1>1, NoFactType
<1>3. Recorded(r, base) \in Fact BY <1>1, <1>2, RecordedType
<1>4. Saved(r.day, r.loaded[r.day], Recorded(r, base)) \in Fact
  BY <1>1, <1>3, SavedType DEF CommitRecord
<1>5. fact' \in [FactDays -> Fact] BY <1>4 DEF CommitRecord, FactTypeOK
<1>6. req' \in [Requests -> FactRequest] BY FinishFactType DEF CommitRecord
<1> QED BY <1>5, <1>6 DEF CommitRecord, FactTypeOK

LEMMA ApproveType ==
    ASSUME FactTypeOK, NEW t \in Requests, CommitApprove(t)
    PROVE  FactTypeOK'
<1> DEFINE r == req[t]
<1>0. r.op = "approve" BY DEF CommitApprove
<1>1. r.loaded \in [FactDays -> Fact]
  BY <1>0 DEF FactTypeOK, FactRequest, Idle
<1> DEFINE Signed(d) == [r.loaded[d] EXCEPT !.approved = TRUE, !.signed = TRUE]
<1>2. \A d \in FactDays : Signed(d) \in Fact BY <1>1 DEF Fact
<1>3. \A d \in FactDays : Updated(d, r.loaded[d], Signed(d)) \in Fact
  BY <1>1, <1>2, UpdatedType
<1>4. fact' \in [FactDays -> Fact] BY <1>3 DEF CommitApprove, FactTypeOK
<1>5. req' \in [Requests -> FactRequest] BY FinishFactType DEF CommitApprove
<1> QED BY <1>4, <1>5 DEF CommitApprove, FactTypeOK

LEMMA DeleteType ==
    ASSUME FactTypeOK, NEW t \in Requests, CommitDelete(t)
    PROVE  FactTypeOK'
<1> DEFINE r == req[t]
<1>1. r.day \in FactDays /\ r.loaded \in [FactDays -> Fact]
  BY DEF CommitDelete, FactTypeOK, FactRequest, Idle
<1>2. Removed(r.day, r.loaded[r.day]) \in Fact BY <1>1, RemovedType
<1>3. fact' \in [FactDays -> Fact] BY <1>2 DEF CommitDelete, FactTypeOK
<1>4. req' \in [Requests -> FactRequest] BY FinishFactType DEF CommitDelete
<1> QED BY <1>3, <1>4 DEF CommitDelete, FactTypeOK

LEMMA DeriveType ==
    ASSUME FactTypeOK, NEW t \in Requests, CommitDerive(t)
    PROVE  FactTypeOK'
<1> DEFINE r == req[t]
<1>1. r.seen \in [FactDays -> DayStates] /\ r.loaded \in [FactDays -> Fact]
  BY DEF CommitDerive, FactTypeOK, FactRequest, Idle
<1>2. \A d \in FactDays : Derived(d, r.seen[d], r.loaded[d]) \in Fact
  BY <1>1, DerivedType DEF CommitDerive
<1>3. fact' \in [FactDays -> Fact] BY <1>2 DEF CommitDerive
<1>4. req' \in [Requests -> FactRequest] BY FinishFactType DEF CommitDerive
<1> QED BY <1>3, <1>4 DEF CommitDerive, FactTypeOK

LEMMA NextFactType == FactTypeOK /\ [FactNext]_factVars => FactTypeOK'
<1> SUFFICES ASSUME FactTypeOK, [FactNext]_factVars PROVE FactTypeOK' OBVIOUS
<1>1. fact \in [FactDays -> Fact] /\ attendance \in [FactDays -> DayStates] BY DEF FactTypeOK
<1>2. CASE UNCHANGED factVars BY <1>2 DEF factVars, FactTypeOK
<1>3. ASSUME NEW t \in Requests, FactHandler(t) PROVE FactTypeOK'
  <2>1. ASSUME NEW d \in FactDays, NEW status \in Statuses, NEW source \in Sources,
               BeginRecord(t, d, status, source)
        PROVE  FactTypeOK'
    <3>1. [op |-> "record", day |-> d, status |-> status, source |-> source,
           loaded |-> fact] \in FactRequest
      BY <1>1 DEF FactRequest
    <3> QED BY <2>1, <3>1, BeginFactType DEF BeginRecord
  <2>2. ASSUME NEW S \in SUBSET FactDays, BeginApprove(t, S) PROVE FactTypeOK'
    <3>1. [op |-> "approve", days |-> S, loaded |-> fact] \in FactRequest
      BY <1>1 DEF FactRequest
    <3> QED BY <2>2, <3>1, BeginFactType DEF BeginApprove
  <2>3. ASSUME NEW d \in FactDays, BeginDelete(t, d) PROVE FactTypeOK'
    <3>1. [op |-> "delete", day |-> d, loaded |-> fact] \in FactRequest
      BY <1>1 DEF FactRequest
    <3> QED BY <2>3, <3>1, BeginFactType DEF BeginDelete
  <2>4. CASE BeginDerive(t)
    <3>1. [op |-> "derive", seen |-> attendance, loaded |-> fact] \in FactRequest
      BY <1>1 DEF FactRequest
    <3> QED BY <2>4, <3>1, BeginFactType DEF BeginDerive
  <2>5. CASE BeginFinalize(t)
    <3>1. [op |-> "finalize"] \in FactRequest BY DEF FactRequest
    <3> QED BY <2>5, <3>1, BeginFactType DEF BeginFinalize
  <2>6. CASE CommitRecord(t) BY <2>6, RecordType
  <2>7. CASE CommitApprove(t) BY <2>7, ApproveType
  <2>8. CASE CommitDelete(t) BY <2>8, DeleteType
  <2>9. CASE CommitDerive(t) BY <2>9, DeriveType
  <2>10. CASE CommitFinalize(t)
    BY <2>10, FinishFactType DEF CommitFinalize, FactTypeOK
  <2>11. CASE FactRollback(t)
    BY <2>11, FinishFactType DEF FactRollback, FactTypeOK
  <2> QED
    BY <1>3, <2>1, <2>2, <2>3, <2>4, <2>5, <2>6, <2>7, <2>8, <2>9, <2>10, <2>11
    DEF FactHandler
<1>4. ASSUME NEW d \in FactDays, NEW state \in DayStates, AttendanceChanges(d, state)
      PROVE  FactTypeOK'
  BY <1>4 DEF AttendanceChanges, FactTypeOK
<1> QED BY <1>2, <1>3, <1>4 DEF FactNext

\* Whatever is in flight, a fact keeps the shape of a row of work_facts.
THEOREM FactsTypeCorrect == FactSpec => []FactTypeOK
BY InitFactType, NextFactType, PTL DEF FactSpec

-----------------------------------------------------------------------------
(***************************************************************************)
(* Requests served in turn.  What a handler loaded is then still what the  *)
(* day says when it commits, and the month is still open.                  *)
(***************************************************************************)
FactsInTurn == \A t, u \in Requests : t = u

Loads == {"record", "approve", "delete", "derive"}
FactsFresh == \A t \in Requests :
            /\ req[t].op \in Loads => req[t].loaded = fact
            /\ req[t].op # "idle" => ~closed

FactsInv == FactTypeOK /\ FactsFresh

LEMMA NextFactsFresh ==
    ASSUME FactsInTurn, FactsInv, [FactNext]_factVars
    PROVE  FactsFresh'
<1> USE DEF FactsInv
<1>1. CASE UNCHANGED factVars BY <1>1 DEF factVars, FactsFresh
<1>2. ASSUME NEW d \in FactDays, NEW state \in DayStates, AttendanceChanges(d, state)
      PROVE  FactsFresh'
  BY <1>2 DEF AttendanceChanges, FactsFresh
<1>3. ASSUME NEW t \in Requests, FactHandler(t) PROVE FactsFresh'
  <2>1. \A u \in Requests : u = t BY DEF FactsInTurn
  <2>2. ASSUME Finish(t) PROVE FactsFresh'
    <3>1. req'[t] = Idle BY <2>2 DEF Finish, FactTypeOK
    <3> QED BY <2>1, <3>1 DEF FactsFresh, Idle, Loads
  <2>3. ASSUME NEW request, Start(t, request), UNCHANGED <<fact, closed>>, ~closed,
               request.op \in Loads => request.loaded = fact
        PROVE  FactsFresh'
    <3>1. req'[t] = request BY <2>3 DEF Start, FactTypeOK
    <3> QED BY <2>1, <2>3, <3>1 DEF FactsFresh
  <2>4. ASSUME NEW d \in FactDays, NEW status \in Statuses, NEW source \in Sources,
               BeginRecord(t, d, status, source)
        PROVE  FactsFresh'
    BY <2>3, <2>4 DEF BeginRecord
  <2>5. ASSUME NEW S \in SUBSET FactDays, BeginApprove(t, S) PROVE FactsFresh'
    BY <2>3, <2>5 DEF BeginApprove
  <2>6. ASSUME NEW d \in FactDays, BeginDelete(t, d) PROVE FactsFresh'
    BY <2>3, <2>6 DEF BeginDelete
  <2>7. CASE BeginDerive(t) BY <2>3, <2>7 DEF BeginDerive
  <2>8. CASE BeginFinalize(t) BY <2>3, <2>8 DEF BeginFinalize, Loads
  <2>9. ASSUME CommitRecord(t) \/ CommitApprove(t) \/ CommitDelete(t)
               \/ CommitDerive(t) \/ CommitFinalize(t) \/ FactRollback(t)
        PROVE  FactsFresh'
    BY <2>2, <2>9
    DEF CommitRecord, CommitApprove, CommitDelete, CommitDerive, CommitFinalize, FactRollback
  <2> QED BY <1>3, <2>4, <2>5, <2>6, <2>7, <2>8, <2>9 DEF FactHandler
<1> QED BY <1>1, <1>2, <1>3 DEF FactNext

LEMMA FactsInvariance ==
    ASSUME FactsInTurn
    PROVE  FactSpec => []FactsInv
<1>1. FactInit => FactsInv BY InitFactType DEF FactsInv, FactsFresh, FactInit, Idle, Loads
<1>2. FactsInv /\ [FactNext]_factVars => FactsInv' BY NextFactType, NextFactsFresh DEF FactsInv
<1> QED BY <1>1, <1>2, PTL DEF FactSpec

\* The commit's writes are of the days as they are.
LEMMA CommitSeesDay ==
    ASSUME FactsInv, NEW t \in Requests, req[t].op \in Loads
    PROVE  req[t].loaded = fact /\ ~closed
BY DEF FactsInv, FactsFresh, Loads

\* Recording a day leaves it unapproved, deriving an absence leaves it to be
\* looked at, deleting leaves nothing: what remains is an approval.
LEMMA StepDocks ==
    ASSUME FactsInv, [FactNext]_factVars, NEW d \in FactDays, ~Docked(fact[d]), Docked(fact'[d])
    PROVE  \E t \in Requests : CommitApprove(t) /\ d \in req[t].days
<1> USE DEF Docked
<1>1. fact \in [FactDays -> Fact] /\ fact[d] \in Fact BY DEF FactsInv, FactTypeOK
<1>2. fact' # fact OBVIOUS
<1>3. PICK t \in Requests : FactHandler(t)
  BY <1>2 DEF FactNext, factVars, AttendanceChanges
<1> DEFINE r == req[t]
<1>4. CASE CommitApprove(t) BY <1>4 DEF CommitApprove
<1>5. CASE CommitRecord(t)
  <2>1. r.loaded = fact BY <1>5, CommitSeesDay DEF CommitRecord, Loads
  <2>2. r.day \in FactDays /\ r.status \in Statuses /\ r.source \in Sources
    BY <1>5 DEF CommitRecord, FactsInv, FactTypeOK, FactRequest, Idle
  <2>3. r.day = d BY <1>1, <1>5 DEF CommitRecord
  <2> DEFINE base == IF fact[d].live THEN fact[d] ELSE NoFact
             new == Recorded(r, base)
  <2>4. new \in Fact /\ new.approved = FALSE
    BY <1>1, <2>2, NoFactType, RecordedType DEF Recorded, Fact
  <2>5. fact'[d] = Saved(d, fact[d], new) BY <1>1, <1>5, <2>1, <2>3 DEF CommitRecord
  <2> HIDE DEF base, new
  <2>6. ~fact'[d].approved
    BY <1>1, <2>4, <2>5
    DEF Saved, Updated, Inserted, Stands, Flush, FlushTime, Fact
  <2> QED BY <2>6
<1>6. CASE CommitDelete(t)
  BY <1>1, <1>6, NoFactType DEF CommitDelete, Removed, NoFact, Fact
<1>7. CASE CommitDerive(t)
  <2>1. r.loaded = fact BY <1>7, CommitSeesDay DEF CommitDerive, Loads
  <2>2. PICK state \in DayStates : fact'[d] = Derived(d, state, fact[d])
    <3>1. r.seen[d] \in DayStates
      BY <1>7 DEF CommitDerive, FactsInv, FactTypeOK, FactRequest, Idle
    <3> QED BY <1>7, <2>1, <3>1 DEF CommitDerive
  <2> DEFINE base == IF fact[d].live THEN fact[d] ELSE NoFact
             new == [base EXCEPT !.status = StatusOf(state),
                                 !.approved = AutoApprove(state), !.signed = FALSE]
  <2>3. CASE Typed(fact[d]) BY <2>2, <2>3 DEF Derived
  <2>4. CASE ~Typed(fact[d]) /\ state = "off"
    BY <1>1, <2>2, <2>4 DEF Derived, Removed, NoFact, Fact
  <2>5. CASE ~Typed(fact[d]) /\ state # "off"
    <3>1. base \in Fact BY <1>1, NoFactType
    <3>2. /\ new.status = StatusOf(state) /\ new.approved = AutoApprove(state)
          /\ new \in Fact
      BY <3>1, FactsAssumption DEF Fact, StatusOf, AutoApprove
    <3>3. fact'[d] = Saved(d, fact[d], new) BY <2>2, <2>5 DEF Derived
    <3> HIDE DEF base, new
    <3>4. fact'[d].status = StatusOf(state) /\ fact'[d].approved = AutoApprove(state)
      BY <1>1, <3>2, <3>3
      DEF Saved, Updated, Inserted, Stands, Flush, FlushTime, Fact
    <3>5. state = "absent" BY <3>4 DEF StatusOf
    <3> QED BY <3>4, <3>5 DEF AutoApprove
  <2> QED BY <2>3, <2>4, <2>5
<1> QED
  BY <1>2, <1>3, <1>4, <1>5, <1>6, <1>7
  DEF FactHandler, BeginRecord, BeginApprove, BeginDelete, BeginDerive, BeginFinalize,
      CommitFinalize, FactRollback

\* A day costs its pay because somebody approved that day, never because of
\* what attendance says, in any number of derivations, imports and deletions.
THEOREM DockedOnlyByApprovalHolds ==
    ASSUME FactsInTurn
    PROVE  FactSpec => DockedOnlyByApproval
<1>1. FactsInv /\ [FactNext]_factVars =>
        [\A d \in FactDays : ~Docked(fact[d]) /\ Docked(fact'[d]) =>
            \E t \in Requests : CommitApprove(t) /\ d \in req[t].days]_factVars
  BY StepDocks
<1> QED BY <1>1, FactsInvariance, PTL DEF FactSpec, DockedOnlyByApproval

\* A commit that changes what a day says takes the approver's name off it:
\* recording and deriving unsign the row they write, deleting leaves none,
\* and approving writes no column but the approval's.
LEMMA StepUnsigns ==
    ASSUME FactsInv, [FactNext]_factVars, NEW d \in FactDays,
           fact[d].live, fact[d].signed, fact'[d].signed
    PROVE  fact'[d].status = fact[d].status
<1>1. fact \in [FactDays -> Fact] /\ fact[d] \in Fact BY DEF FactsInv, FactTypeOK
<1>2. SUFFICES ASSUME fact' # fact PROVE fact'[d].status = fact[d].status OBVIOUS
<1>3. PICK t \in Requests : FactHandler(t)
  BY <1>2 DEF FactNext, factVars, AttendanceChanges
<1> DEFINE r == req[t]
<1>4. CASE CommitApprove(t)
  <2>1. r.loaded = fact BY <1>4, CommitSeesDay DEF CommitApprove, Loads
  <2> DEFINE new == [fact[d] EXCEPT !.approved = TRUE, !.signed = TRUE]
  <2>2. new.status = fact[d].status BY <1>1 DEF Fact
  <2>3. fact'[d] = IF d \in r.days THEN Updated(d, fact[d], new) ELSE fact[d]
    BY <1>4, <2>1 DEF CommitApprove
  <2> HIDE DEF new
  <2> QED BY <1>1, <2>2, <2>3 DEF Updated, Stands, Flush, FlushTime, Fact
<1>5. CASE CommitRecord(t)
  <2>1. r.loaded = fact BY <1>5, CommitSeesDay DEF CommitRecord, Loads
  <2>2. r.day \in FactDays /\ r.status \in Statuses /\ r.source \in Sources
    BY <1>5 DEF CommitRecord, FactsInv, FactTypeOK, FactRequest, Idle
  <2>3. CASE r.day # d BY <1>1, <1>5, <2>3 DEF CommitRecord
  <2>4. CASE r.day = d
    <3> DEFINE new == Recorded(r, fact[d])
    <3>1. new \in Fact /\ new.signed = FALSE
      BY <1>1, <2>2, RecordedType DEF Recorded, Fact
    <3>2. fact'[d] = Saved(d, fact[d], new)
      BY <1>1, <1>5, <2>1, <2>4 DEF CommitRecord
    <3> HIDE DEF new
    <3>3. ~fact'[d].signed
      BY <1>1, <3>1, <3>2 DEF Saved, Updated, Stands, Flush, FlushTime, Fact
    <3> QED BY <3>3
  <2> QED BY <2>3, <2>4
<1>6. CASE CommitDelete(t)
  BY <1>1, <1>6, NoFactType DEF CommitDelete, Removed, NoFact, Fact
<1>7. CASE CommitDerive(t)
  <2>1. r.loaded = fact BY <1>7, CommitSeesDay DEF CommitDerive, Loads
  <2>2. PICK state \in DayStates : fact'[d] = Derived(d, state, fact[d])
    <3>1. r.seen[d] \in DayStates
      BY <1>7 DEF CommitDerive, FactsInv, FactTypeOK, FactRequest, Idle
    <3> QED BY <1>7, <2>1, <3>1 DEF CommitDerive
  <2>3. CASE Typed(fact[d]) BY <2>2, <2>3 DEF Derived
  <2>4. CASE ~Typed(fact[d]) /\ state = "off"
    BY <1>1, <2>2, <2>4 DEF Derived, Removed, Stands, NoFact, Fact
  <2>5. CASE ~Typed(fact[d]) /\ state # "off"
    <3> DEFINE new == [fact[d] EXCEPT !.status = StatusOf(state),
                                      !.approved = AutoApprove(state), !.signed = FALSE]
    <3>1. new \in Fact /\ new.signed = FALSE
      BY <1>1, FactsAssumption DEF Fact, StatusOf, AutoApprove
    <3>2. fact'[d] = Saved(d, fact[d], new) BY <2>2, <2>5 DEF Derived
    <3> HIDE DEF new
    <3>3. ~fact'[d].signed
      BY <1>1, <3>1, <3>2 DEF Saved, Updated, Stands, Flush, FlushTime, Fact
    <3> QED BY <3>3
  <2> QED BY <2>3, <2>4, <2>5
<1> QED
  BY <1>2, <1>3, <1>4, <1>5, <1>6, <1>7
  DEF FactHandler, BeginRecord, BeginApprove, BeginDelete, BeginDerive, BeginFinalize,
      CommitFinalize, FactRollback

\* No approved fact changes underneath its approver: while one person's
\* approval of a row stands, the day says what that person approved.
THEOREM SignedFactsStandHolds ==
    ASSUME FactsInTurn
    PROVE  FactSpec => SignedFactsStand
<1>1. FactsInv /\ [FactNext]_factVars =>
        [\A d \in FactDays :
            fact[d].live /\ fact[d].signed /\ fact'[d].signed /\ fact'[d].row = fact[d].row =>
               fact'[d].status = fact[d].status]_factVars
  BY StepUnsigns
<1> QED BY <1>1, FactsInvariance, PTL DEF FactSpec, SignedFactsStand

\* Recording a day and deleting it leave no approval, approving puts a name on
\* it, and deriving writes only what no person recorded.
LEMMA StepAccounts ==
    ASSUME FactsInv, [FactNext]_factVars, NEW d \in FactDays, AccountedFor(fact[d])
    PROVE  AccountedFor(fact'[d])
<1> USE DEF AccountedFor
<1>1. fact \in [FactDays -> Fact] /\ fact[d] \in Fact BY DEF FactsInv, FactTypeOK
<1>2. SUFFICES ASSUME fact' # fact PROVE AccountedFor(fact'[d]) OBVIOUS
<1>3. PICK t \in Requests : FactHandler(t)
  BY <1>2 DEF FactNext, factVars, AttendanceChanges
<1> DEFINE r == req[t]
<1>4. CASE CommitApprove(t)
  <2>1. r.loaded = fact BY <1>4, CommitSeesDay DEF CommitApprove, Loads
  <2> DEFINE new == [fact[d] EXCEPT !.approved = TRUE, !.signed = TRUE]
  <2>2. new.signed = TRUE BY <1>1 DEF Fact
  <2>3. fact'[d] = IF d \in r.days THEN Updated(d, fact[d], new) ELSE fact[d]
    BY <1>4, <2>1 DEF CommitApprove
  <2> HIDE DEF new
  <2>4. Stands(d, fact[d]) => Updated(d, fact[d], new).signed
    BY <1>1, <2>2 DEF Updated, Flush, Fact
  <2>5. ~Stands(d, fact[d]) => Updated(d, fact[d], new) = fact[d] BY DEF Updated
  <2> QED BY <2>3, <2>4, <2>5
<1>5. CASE CommitRecord(t)
  <2>1. r.loaded = fact BY <1>5, CommitSeesDay DEF CommitRecord, Loads
  <2>2. r.day \in FactDays /\ r.status \in Statuses /\ r.source \in Sources
    BY <1>5 DEF CommitRecord, FactsInv, FactTypeOK, FactRequest, Idle
  <2>3. CASE r.day # d BY <1>1, <1>5, <2>3 DEF CommitRecord
  <2>4. CASE r.day = d
    <3> DEFINE base == IF fact[d].live THEN fact[d] ELSE NoFact
               new == Recorded(r, base)
    <3>1. new \in Fact /\ new.approved = FALSE
      BY <1>1, <2>2, NoFactType, RecordedType DEF Recorded, Fact
    <3>2. fact'[d] = Saved(d, fact[d], new) BY <1>1, <1>5, <2>1, <2>4 DEF CommitRecord
    <3> HIDE DEF base, new
    <3>3. ~fact'[d].approved
      BY <1>1, <3>1, <3>2
      DEF Saved, Updated, Inserted, Stands, Flush, FlushTime, Fact
    <3> QED BY <3>3
  <2> QED BY <2>3, <2>4
<1>6. CASE CommitDelete(t)
  BY <1>1, <1>6, NoFactType DEF CommitDelete, Removed, NoFact, Fact
<1>7. CASE CommitDerive(t)
  <2>1. r.loaded = fact BY <1>7, CommitSeesDay DEF CommitDerive, Loads
  <2>2. PICK state \in DayStates : fact'[d] = Derived(d, state, fact[d])
    <3>1. r.seen[d] \in DayStates
      BY <1>7 DEF CommitDerive, FactsInv, FactTypeOK, FactRequest, Idle
    <3> QED BY <1>7, <2>1, <3>1 DEF CommitDerive
  <2> DEFINE base == IF fact[d].live THEN fact[d] ELSE NoFact
             new == [base EXCEPT !.status = StatusOf(state),
                                 !.approved = AutoApprove(state), !.signed = FALSE]
  <2>3. CASE Typed(fact[d]) BY <2>2, <2>3 DEF Derived
  <2>4. CASE ~Typed(fact[d]) /\ state = "off"
    BY <1>1, <2>2, <2>4 DEF Derived, Removed, Stands, NoFact, Fact
  <2>5. CASE ~Typed(fact[d]) /\ state # "off"
    <3>1. base \in Fact /\ base.source = "attendance"
      BY <1>1, <2>5, NoFactType DEF Typed, NoFact
    <3>2. /\ new.status = StatusOf(state) /\ new.approved = AutoApprove(state)
          /\ new.source = "attendance" /\ new \in Fact
      BY <3>1, FactsAssumption DEF Fact, StatusOf, AutoApprove
    <3>3. fact'[d] = Saved(d, fact[d], new) BY <2>2, <2>5 DEF Derived
    <3>4. fact[d].live => fact[d].source = "attendance" BY <2>5 DEF Typed
    <3> HIDE DEF base, new
    <3>5. /\ fact'[d].status = StatusOf(state) /\ fact'[d].approved = AutoApprove(state)
          /\ fact'[d].source = "attendance"
      BY <1>1, <3>2, <3>3, <3>4
      DEF Saved, Updated, Inserted, Stands, Flush, FlushTime, Fact
    <3>6. AutoApprove(state) => StatusOf(state) # "absent" BY DEF AutoApprove, StatusOf
    <3> QED BY <3>5, <3>6
  <2> QED BY <2>3, <2>4, <2>5
<1> QED
  BY <1>2, <1>3, <1>4, <1>5, <1>6, <1>7
  DEF FactHandler, BeginRecord, BeginApprove, BeginDelete, BeginDerive, BeginFinalize,
      CommitFinalize, FactRollback

\* No day is signed off in nobody's name but by the bridge, and then neither as
\* an absence nor over what a person typed.
THEOREM ApprovalsAreAccountedForHolds ==
    ASSUME FactsInTurn
    PROVE  FactSpec => []ApprovalsAreAccountedFor
<1>1. FactInit => ApprovalsAreAccountedFor
  BY DEF FactInit, NoFact, ApprovalsAreAccountedFor, AccountedFor
<1>2. FactsInv /\ ApprovalsAreAccountedFor /\ [FactNext]_factVars => ApprovalsAreAccountedFor'
  BY StepAccounts DEF ApprovalsAreAccountedFor, AccountedFor
<1> QED BY <1>1, <1>2, FactsInvariance, PTL DEF FactSpec

\* The facts of a finalized month are a record: no request that found the
\* month open writes to it once it is closed, and nothing opens it again.
THEOREM ClosedFactsStandHolds ==
    ASSUME FactsInTurn
    PROVE  FactSpec => ClosedFactsStand
<1>1. ASSUME FactsInv, [FactNext]_factVars, closed PROVE UNCHANGED <<fact, closed>>
  <2>1. \A t \in Requests : req[t].op = "idle" BY <1>1 DEF FactsInv, FactsFresh
  <2>2. \A t \in Requests : req[t] = Idle
    <3>1. \A request \in FactRequest : request.op = "idle" => request = Idle
      BY DEF FactRequest, Idle
    <3>2. \A t \in Requests : req[t] \in FactRequest BY <1>1 DEF FactsInv, FactTypeOK
    <3> QED BY <2>1, <3>1, <3>2
  <2>3. ASSUME NEW t \in Requests PROVE ~FactHandler(t)
    BY <1>1, <2>1, <2>2
    DEF FactHandler, BeginRecord, CommitRecord, BeginApprove, CommitApprove, BeginDelete,
        CommitDelete, BeginDerive, CommitDerive, BeginFinalize, CommitFinalize, FactRollback
  <2> QED BY <1>1, <2>3 DEF FactNext, factVars, AttendanceChanges
<1>2. FactsInv /\ [FactNext]_factVars => [closed => UNCHANGED <<fact, closed>>]_factVars
  BY <1>1
<1> QED BY <1>2, FactsInvariance, PTL DEF FactSpec, ClosedFactsStand
-----------------------------------------------------------------------------
(***************************************************************************)
(* The inbox.  Of any number of requests in flight: types, and one open    *)
(* row per key.  Of requests in turn, what a sync loaded still says which  *)
(* rows are open and which dismissed, so the row it picked for a key is    *)
(* there, and none was picked only where none is.  With one open row per   *)
(* key the picked row is the open one, unless a dismissed one is there too.*)
(***************************************************************************)
Syncs == [op : {"sync", "sweep"}, reported : SUBSET Keys, loaded : [Keys -> [Rows -> Row]],
          pick : [Keys -> 0..MaxItems], told : SUBSET Users]

OneOpen == \A k \in Keys : \A i, j \in Rows : IsOpen(k, i) /\ IsOpen(k, j) => i = j

BoxInv == BoxTypeOK /\ OneOpen

LEMMA PutIsRow ==
    ASSUME NEW state \in {"none", "open", "resolved", "dismissed"}
    PROVE  Put(state) \in Row /\ Put(state).state = state
BY InboxAssumption DEF Put, Row

LEMMA InitBoxInv == BoxInit => BoxInv
<1> SUFFICES ASSUME BoxInit PROVE BoxInv OBVIOUS
<1>1. item \in [Keys -> [Rows -> Row]] /\ \A k \in Keys, i \in Rows : item[k][i] = Put("none")
  BY PutIsRow DEF BoxInit
<1>2. BoxTypeOK BY <1>1 DEF BoxInit, BoxTypeOK, BoxRequest
<1>3. OneOpen BY <1>1, PutIsRow DEF OneOpen, IsOpen
<1> QED BY <1>2, <1>3 DEF BoxInv

-----------------------------------------------------------------------------
(***************************************************************************)
(* The rows a commit leaves.                                               *)
(***************************************************************************)
\* Slot is one of the free rows, if any is.
LEMMA SlotIsFree ==
    ASSUME NEW k \in Keys, Free(k) # {}
    PROVE  Slot(k) \in Free(k)
<1>1. Free(k) \subseteq Nat BY InboxAssumption DEF Free, Rows
<1>2. PICK i \in Free(k) : \A j \in Free(k) : i <= j BY <1>1, LeastOfNat
<1> QED BY <1>2 DEF Slot

\* A row a sync saves is a row; nothing it saves opens.
LEMMA SavedIsRow ==
    ASSUME BoxTypeOK, NEW r \in Syncs, NEW k \in Keys, NEW i \in Rows
    PROVE  /\ SavedItem(r, k, i) \in Row
           /\ SavedItem(r, k, i).state =
                IF Resolves(r, k, i) THEN "resolved" ELSE item[k][i].state
<1>1. item[k][i] \in Row BY DEF BoxTypeOK
<1>2. Refreshed(r, k, i) \in Row /\ Refreshed(r, k, i).state = item[k][i].state
  <2> DEFINE esc == item[k][i].escalated \/ Escalates(r, k, i)
             ntf == item[k][i].notified \/ (r.op = "sweep" /\ <<k, i>> \in Unsent(r))
  <2>1. esc \in BOOLEAN /\ ntf \in BOOLEAN OBVIOUS
  <2>2. Refreshed(r, k, i) = [state |-> item[k][i].state, age |-> item[k][i].age,
              mailed |-> item[k][i].mailed, escalated |-> esc, notified |-> ntf]
    BY DEF Refreshed
  <2> HIDE DEF esc, ntf
  <2> QED BY <1>1, <2>1, <2>2 DEF Row
<1> QED BY <1>1, <1>2, PutIsRow DEF SavedItem

LEMMA OpenedIsRow ==
    ASSUME NEW r
    PROVE  Opened(r) \in Row /\ Opened(r).state = "open"
<1> DEFINE sw == r.op = "sweep"
<1>1. sw \in BOOLEAN OBVIOUS
<1>2. Opened(r) = [state |-> "open", age |-> 0, escalated |-> FALSE,
                   notified |-> sw, mailed |-> sw]
  BY DEF Opened
<1> HIDE DEF sw
<1> QED BY <1>1, <1>2, InboxAssumption DEF Row

LEMMA MailedIsRow ==
    ASSUME BoxTypeOK, NEW r, NEW u, NEW k \in Keys, NEW i \in Rows
    PROVE  Mailed(r, u, k, i) \in Row /\ Mailed(r, u, k, i).state = item[k][i].state
<1> DEFINE ml == item[k][i].mailed \/ (<<k, i>> \in Unsent(r) /\ k[1] = u /\ item[k][i].state = "open")
<1>1. item[k][i] \in Row BY DEF BoxTypeOK
<1>2. ml \in BOOLEAN OBVIOUS
<1>3. Mailed(r, u, k, i) = [state |-> item[k][i].state, age |-> item[k][i].age,
          escalated |-> item[k][i].escalated, notified |-> item[k][i].notified, mailed |-> ml]
  BY DEF Mailed
<1> HIDE DEF ml
<1> QED BY <1>1, <1>2, <1>3 DEF Row

LEMMA OlderIsRow ==
    ASSUME NEW row \in Row
    PROVE  Older(row) \in Row /\ Older(row).state = row.state
BY InboxAssumption DEF Older, Row

\* What the commit of a sync leaves of a row.
LEMMA AfterSync ==
    ASSUME BoxTypeOK, NEW t \in Requests, CommitSync(t), NEW k \in Keys, NEW i \in Rows
    PROVE  /\ req[t] \in Syncs
           /\ item'[k][i] \in Row
           /\ Opens(req[t], k) /\ i = Slot(k) => item'[k][i].state = "open"
           /\ ~(Opens(req[t], k) /\ i = Slot(k)) =>
                item'[k][i].state = IF Resolves(req[t], k, i) THEN "resolved"
                                    ELSE item[k][i].state
<1>1. req[t] \in Syncs BY DEF BoxTypeOK, BoxRequest, CommitSync, Syncs, Idle
<1>2. item'[k][i] = IF Opens(req[t], k) /\ i = Slot(k) THEN Opened(req[t])
                    ELSE SavedItem(req[t], k, i)
  BY DEF CommitSync
<1> QED BY <1>1, <1>2, SavedIsRow, OpenedIsRow

-----------------------------------------------------------------------------
(***************************************************************************)
(* Any number of requests.                                                 *)
(***************************************************************************)
\* Rows of which at most those that were open are open stay at most one.
LEMMA OpenStays ==
    ASSUME OneOpen, \A k \in Keys, i \in Rows : item'[k][i].state = "open" => IsOpen(k, i)
    PROVE  OneOpen'
BY DEF OneOpen, IsOpen

LEMMA SyncKeeps ==
    ASSUME BoxInv, NEW t \in Requests, CommitSync(t)
    PROVE  BoxInv'
<1>1. item' \in [Keys -> [Rows -> Row]]
  <2>1. \A k \in Keys, i \in Rows : item'[k][i] \in Row BY AfterSync DEF BoxInv
  <2> QED BY <2>1 DEF CommitSync
<1>2. BoxTypeOK' BY <1>1 DEF BoxInv, BoxTypeOK, CommitSync, Finish, BoxRequest, world
<1>3. ASSUME NEW k \in Keys, NEW i \in Rows, NEW j \in Rows, IsOpen(k, i)', IsOpen(k, j)'
      PROVE  i = j
  <2>1. CASE Opens(req[t], k)
    <3>1. \A n \in Rows : item[k][n].state # "open" BY <2>1 DEF CommitSync, CanOpen
    <3>2. \A n \in Rows : item'[k][n].state = "open" => n = Slot(k)
      BY <2>1, <3>1, AfterSync DEF BoxInv
    <3> QED BY <1>3, <3>2 DEF IsOpen
  <2>2. CASE ~Opens(req[t], k)
    <3>1. \A n \in Rows : item'[k][n].state = "open" => item[k][n].state = "open"
      BY <2>2, AfterSync DEF BoxInv
    <3> QED BY <1>3, <3>1 DEF BoxInv, OneOpen, IsOpen
  <2> QED BY <2>1, <2>2
<1>4. OneOpen' BY <1>3 DEF OneOpen
<1> QED BY <1>2, <1>4 DEF BoxInv

LEMMA MailKeeps ==
    ASSUME BoxInv, NEW t \in Requests, NEW u \in Users, Mail(t, u)
    PROVE  /\ BoxInv'
           /\ \A k \in Keys, i \in Rows : item'[k][i].state = item[k][i].state
           /\ req[t] \in Syncs
           /\ req' = [req EXCEPT ![t] = Told(req[t], u)]
<1>1. \A k \in Keys, i \in Rows :
          item'[k][i] \in Row /\ item'[k][i].state = item[k][i].state
  <2>1. \A k \in Keys, i \in Rows : item'[k][i] = Mailed(req[t], u, k, i) BY DEF Mail
  <2> QED BY <2>1, MailedIsRow DEF BoxInv
<1>2. item' \in [Keys -> [Rows -> Row]] BY <1>1 DEF Mail
<1>3. req[t] \in Syncs BY DEF BoxInv, BoxTypeOK, BoxRequest, Mail, Syncs, Idle
<1>4. Told(req[t], u) \in BoxRequest BY <1>3 DEF Told, Syncs, BoxRequest
<1>5. BoxTypeOK' BY <1>2, <1>4 DEF BoxInv, BoxTypeOK, Mail, world
<1>6. OneOpen' BY <1>1, OpenStays DEF BoxInv, IsOpen
<1> QED BY <1>1, <1>3, <1>5, <1>6 DEF BoxInv, Mail

LEMMA DismissKeeps ==
    ASSUME BoxInv, NEW t \in Requests, CommitDismiss(t)
    PROVE  /\ BoxInv'
           /\ \A k \in Keys, i \in Rows : IsOpen(k, i)' => IsOpen(k, i)
<1>1. \A k \in Keys, i \in Rows : item'[k][i] = Put("dismissed") \/ item'[k][i] = item[k][i]
  BY DEF CommitDismiss, Dismissed
<1>2. \A k \in Keys, i \in Rows :
          item'[k][i] \in Row /\ (item'[k][i].state = "open" => item[k][i].state = "open")
  BY <1>1, PutIsRow DEF BoxInv, BoxTypeOK
<1>3. item' \in [Keys -> [Rows -> Row]] BY <1>2 DEF CommitDismiss
<1>4. BoxTypeOK' BY <1>3 DEF BoxInv, BoxTypeOK, CommitDismiss, Finish, BoxRequest, world
<1>5. OneOpen' BY <1>2, OpenStays DEF BoxInv, IsOpen
<1> QED BY <1>2, <1>4, <1>5 DEF BoxInv, IsOpen

LEMMA TomorrowKeeps ==
    ASSUME BoxInv, Tomorrow
    PROVE  /\ BoxInv'
           /\ \A k \in Keys, i \in Rows : item'[k][i].state = item[k][i].state
<1>1. \A k \in Keys, i \in Rows :
          item'[k][i] \in Row /\ item'[k][i].state = item[k][i].state
  <2>1. \A k \in Keys, i \in Rows : item'[k][i] = Older(item[k][i]) /\ item[k][i] \in Row
    BY DEF Tomorrow, BoxInv, BoxTypeOK
  <2> QED BY <2>1, OlderIsRow
<1>2. item' \in [Keys -> [Rows -> Row]] BY <1>1 DEF Tomorrow
<1>3. BoxTypeOK' BY <1>2 DEF BoxInv, BoxTypeOK, Tomorrow, world
<1>4. OneOpen' BY <1>1, OpenStays DEF BoxInv, IsOpen
<1> QED BY <1>1, <1>3, <1>4 DEF BoxInv

\* The steps that read.
LEMMA BeginSyncKeeps ==
    ASSUME BoxInv, NEW t \in Requests, NEW op \in {"sync", "sweep"}, BeginSync(t, op)
    PROVE  BoxInv'
<1>1. PICK p \in Picks :
        Start(t, [op |-> op, reported |-> Reported, loaded |-> item, pick |-> p, told |-> {}])
  BY DEF BeginSync
<1>2. Reported \subseteq Keys BY DEF Reported, Keys, BoxInv, BoxTypeOK
<1>3. p \in [Keys -> 0..MaxItems] BY DEF Picks
<1>4. [op |-> op, reported |-> Reported, loaded |-> item, pick |-> p, told |-> {}] \in BoxRequest
  BY <1>2, <1>3 DEF BoxRequest, BoxInv, BoxTypeOK
<1>5. BoxTypeOK' BY <1>1, <1>4 DEF BoxInv, BoxTypeOK, BeginSync, Start, world
<1>6. OneOpen' BY OpenStays DEF BoxInv, BeginSync, IsOpen
<1> QED BY <1>5, <1>6 DEF BoxInv

LEMMA BeginDismissKeeps ==
    ASSUME BoxInv, NEW t \in Requests, NEW k \in Keys, NEW i \in Rows, BeginDismiss(t, k, i)
    PROVE  BoxInv'
<1>1. [op |-> "dismiss", key |-> k, row |-> i, loaded |-> item[k][i]] \in BoxRequest
  BY DEF BoxRequest, BoxInv, BoxTypeOK
<1>2. BoxTypeOK' BY <1>1 DEF BoxInv, BoxTypeOK, BeginDismiss, Start, world
<1>3. OneOpen' BY OpenStays DEF BoxInv, BeginDismiss, IsOpen
<1> QED BY <1>2, <1>3 DEF BoxInv

LEMMA RollbackKeeps ==
    ASSUME BoxInv, NEW t \in Requests, BoxRollback(t)
    PROVE  BoxInv'
<1>1. BoxTypeOK' BY DEF BoxInv, BoxTypeOK, BoxRollback, Finish, BoxRequest, world
<1>2. OneOpen' BY OpenStays DEF BoxInv, BoxRollback, IsOpen
<1> QED BY <1>1, <1>2 DEF BoxInv

LEMMA WorldKeeps ==
    ASSUME BoxInv, NEW f \in Facts, BoxWorld(f)
    PROVE  BoxInv' /\ UNCHANGED <<item, req>>
<1>1. UNCHANGED <<item, req>> BY DEF BoxWorld, FactPending, FactSettled, ManagerChanges
<1>2. pending' \subseteq Facts /\ manager' \in [Facts -> Users \cup {Nobody}]
  BY DEF BoxWorld, FactPending, FactSettled, ManagerChanges, BoxInv, BoxTypeOK
<1>3. BoxTypeOK' BY <1>1, <1>2 DEF BoxInv, BoxTypeOK
<1>4. OneOpen' BY <1>1, OpenStays DEF BoxInv, IsOpen
<1> QED BY <1>1, <1>3, <1>4 DEF BoxInv

LEMMA StutterKeeps == ASSUME BoxInv, UNCHANGED boxVars PROVE BoxInv'
BY DEF BoxInv, BoxTypeOK, OneOpen, IsOpen, boxVars, world

LEMMA NextKeeps == ASSUME BoxInv, [BoxNext]_boxVars PROVE BoxInv'
<1>1. ASSUME NEW t \in Requests, BoxHandler(t) PROVE BoxInv'
  BY <1>1, BeginSyncKeeps, SyncKeeps, MailKeeps, BeginDismissKeeps, DismissKeeps,
     RollbackKeeps DEF BoxHandler
<1> QED BY <1>1, WorldKeeps, TomorrowKeeps, StutterKeeps DEF BoxNext

LEMMA BoxInvariance == BoxSpec => []BoxInv
BY InitBoxInv, NextKeeps, PTL DEF BoxSpec

\* Every fact, row and request is one the handlers know.
THEOREM BoxTypeCorrect == BoxSpec => []BoxTypeOK
<1>1. BoxInv => BoxTypeOK BY DEF BoxInv
<1> QED BY <1>1, BoxInvariance, PTL

-----------------------------------------------------------------------------
(***************************************************************************)
(* Requests in turn: what a sync loaded is still so.                       *)
(***************************************************************************)
BoxFresh(r) ==
    r \in Syncs =>
        \A k \in Keys :
            /\ \A i \in Rows : r.loaded[k][i].state = item[k][i].state
            /\ r.pick[k] = 0 => Existing(item[k]) = {}
            /\ r.pick[k] # 0 => r.pick[k] \in Existing(item[k])

SerialInv == BoxInv /\ \A t \in Requests : BoxFresh(req[t])

\* States that stay what they are keep what was loaded fresh.
LEMMA FreshStays ==
    ASSUME NEW r, BoxFresh(r),
           \A k \in Keys, i \in Rows : item'[k][i].state = item[k][i].state
    PROVE  BoxFresh(r)'
BY DEF BoxFresh, Existing

LEMMA IdleIsFresh == Idle \notin Syncs
BY DEF Idle, Syncs

LEMMA SerialStep ==
    ASSUME NEW t0, Requests = {t0}, SerialInv, [BoxNext]_boxVars
    PROVE  SerialInv'
<1>1. BoxInv' BY NextKeeps DEF SerialInv
<1>2. BoxFresh(req[t0])'
  <2>1. ASSUME NEW op \in {"sync", "sweep"}, BeginSync(t0, op) PROVE BoxFresh(req[t0])'
    <3>1. PICK p \in Picks :
            Start(t0, [op |-> op, reported |-> Reported, loaded |-> item, pick |-> p,
                       told |-> {}])
      BY <2>1 DEF BeginSync
    <3>2. req'[t0].loaded = item /\ req'[t0].pick = p /\ item' = item
      BY <2>1, <3>1 DEF BeginSync, Start, SerialInv, BoxInv, BoxTypeOK
    <3>3. \A k \in Keys : /\ p[k] = 0 => Existing(item[k]) = {}
                          /\ p[k] # 0 => p[k] \in Existing(item[k])
      <4>1. \A k \in Keys : 0 \notin Existing(item[k]) BY InboxAssumption DEF Existing, Rows
      <4> QED BY <4>1 DEF Picks
    <3> QED BY <3>2, <3>3 DEF BoxFresh
  <2>2. ASSUME CommitSync(t0) \/ CommitDismiss(t0) \/ BoxRollback(t0) PROVE BoxFresh(req[t0])'
    <3>1. req'[t0] = Idle
      BY <2>2 DEF CommitSync, CommitDismiss, BoxRollback, Finish, SerialInv, BoxInv, BoxTypeOK
    <3> QED BY <3>1, IdleIsFresh DEF BoxFresh, Syncs, Keys, Rows, Row
  <2>3. ASSUME NEW u \in Users, Mail(t0, u) PROVE BoxFresh(req[t0])'
    <3>1. /\ \A k \in Keys, i \in Rows : item'[k][i].state = item[k][i].state
          /\ req[t0] \in Syncs
          /\ req' = [req EXCEPT ![t0] = Told(req[t0], u)]
      BY <2>3, MailKeeps DEF SerialInv
    <3>2. req'[t0].loaded = req[t0].loaded /\ req'[t0].pick = req[t0].pick
      BY <3>1 DEF SerialInv, BoxInv, BoxTypeOK, Told
    <3>3. BoxFresh(req[t0]) BY DEF SerialInv
    <3> QED BY <3>1, <3>2, <3>3 DEF BoxFresh, Existing
  <2>4. ASSUME NEW k \in Keys, NEW i \in Rows, BeginDismiss(t0, k, i)
        PROVE  BoxFresh(req[t0])'
    <3>1. req'[t0].op = "dismiss" BY <2>4 DEF BeginDismiss, Start, SerialInv, BoxInv, BoxTypeOK
    <3>2. req'[t0] \notin Syncs BY <3>1 DEF Syncs
    <3> QED BY <3>2 DEF BoxFresh, Syncs, Keys, Rows, Row
  <2>5. ASSUME req' = req, \A k \in Keys, i \in Rows : item'[k][i].state = item[k][i].state
        PROVE  BoxFresh(req[t0])'
    BY <2>5 DEF BoxFresh, Existing, SerialInv
  <2>6. ASSUME NEW f \in Facts, BoxWorld(f) PROVE BoxFresh(req[t0])'
    BY <2>5, <2>6, WorldKeeps DEF SerialInv
  <2>7. ASSUME Tomorrow PROVE BoxFresh(req[t0])'
    BY <2>5, <2>7, TomorrowKeeps DEF SerialInv, Tomorrow
  <2>8. ASSUME UNCHANGED boxVars PROVE BoxFresh(req[t0])'
    BY <2>5, <2>8 DEF boxVars
  <2>9. ASSUME BoxHandler(t0) PROVE BoxFresh(req[t0])'
    BY <2>1, <2>2, <2>3, <2>4, <2>9 DEF BoxHandler
  <2> QED BY <2>6, <2>7, <2>8, <2>9 DEF BoxNext
<1> QED BY <1>1, <1>2 DEF SerialInv

LEMMA SerialInvariance ==
    ASSUME NEW t0, Requests = {t0}
    PROVE  BoxSpec => []SerialInv
<1>1. BoxInit => SerialInv
  <2>1. BoxInit => \A t \in Requests : req[t] = Idle BY DEF BoxInit
  <2> QED BY <2>1, InitBoxInv, IdleIsFresh DEF SerialInv, BoxFresh
<1>2. SerialInv /\ [BoxNext]_boxVars => SerialInv' BY SerialStep
<1> QED BY <1>1, <1>2, PTL DEF BoxSpec

-----------------------------------------------------------------------------
\* Served in turn, a sync leaves open what it was told and nothing else, of any
\* number of keys and rows, except where somebody has dismissed.
THEOREM SyncReconcilesHolds ==
    ASSUME NEW t0, Requests = {t0}
    PROVE  BoxSpec => SyncReconciles
<1>1. ASSUME SerialInv, NEW t \in Requests, CommitSync(t), NEW k \in Keys, ~WasDismissed(k)
      PROVE  (\E i \in Rows : IsOpen(k, i)') <=> k \in req[t].reported
  <2> DEFINE r == req[t]
  <2>1. r \in Syncs BY <1>1 DEF SerialInv, BoxInv, BoxTypeOK, BoxRequest, CommitSync, Syncs, Idle
  <2>2. /\ \A i \in Rows : r.loaded[k][i].state = item[k][i].state
        /\ r.pick[k] = 0 => Existing(item[k]) = {}
        /\ r.pick[k] # 0 => r.pick[k] \in Existing(item[k])
    BY <1>1, <2>1 DEF SerialInv, BoxFresh
  <2>3. r.pick[k] # 0 => r.pick[k] \in Rows /\ IsOpen(k, r.pick[k])
    BY <1>1, <2>2 DEF Existing, WasDismissed, IsOpen
  <2>4. r.pick[k] = 0 => \A i \in Rows : ~IsOpen(k, i) BY <2>2 DEF Existing, IsOpen
  <2>5. CASE k \in r.reported
    <3>1. CASE r.pick[k] = 0
      <4>1. Opens(r, k) BY <2>5, <3>1 DEF Opens
      <4>2. Slot(k) \in Rows BY <1>1, <4>1, SlotIsFree DEF CommitSync, CanOpen, Free
      <4>3. item'[k][Slot(k)].state = "open"
        BY <1>1, <4>1, <4>2, AfterSync DEF SerialInv, BoxInv
      <4> QED BY <2>5, <4>2, <4>3 DEF IsOpen
    <3>2. CASE r.pick[k] # 0
      <4>1. ~Resolves(r, k, r.pick[k]) /\ ~Opens(r, k) BY <2>5, <3>2 DEF Resolves, Opens
      <4>2. item'[k][r.pick[k]].state = "open"
        BY <1>1, <2>3, <3>2, <4>1, AfterSync DEF SerialInv, BoxInv, IsOpen
      <4> QED BY <2>3, <2>5, <3>2, <4>2 DEF IsOpen
    <3> QED BY <3>1, <3>2
  <2>6. CASE k \notin r.reported
    <3>1. ~Opens(r, k) BY <2>6 DEF Opens
    <3>2. ASSUME NEW i \in Rows, IsOpen(k, i)' PROVE FALSE
      <4>1. IsOpen(k, i) /\ ~Resolves(r, k, i)
        BY <1>1, <3>1, <3>2, AfterSync DEF SerialInv, BoxInv, IsOpen
      <4>2. i = r.pick[k] BY <1>1, <2>3, <2>4, <4>1 DEF SerialInv, BoxInv, OneOpen
      <4>3. Resolves(r, k, i) BY <2>2, <2>6, <4>1, <4>2 DEF Resolves, IsOpen
      <4> QED BY <4>1, <4>3
    <3> QED BY <2>6, <3>2
  <2> QED BY <2>5, <2>6
<1>2. SerialInv /\ [BoxNext]_boxVars =>
        [\A t \in Requests : CommitSync(t) =>
          \A k \in Keys : ~WasDismissed(k) =>
             ((\E i \in Rows : IsOpen(k, i)') <=> k \in req[t].reported)]_boxVars
  BY <1>1
<1> QED BY <1>2, SerialInvariance, PTL DEF BoxSpec, SyncReconciles

\* Served in turn, nothing opens again for a person and a fact the person has
\* dismissed, through any number of syncs and fixes.
THEOREM DismissedStaysDownHolds ==
    ASSUME NEW t0, Requests = {t0}
    PROVE  BoxSpec => DismissedStaysDown
<1>1. ASSUME SerialInv, [BoxNext]_boxVars, NEW k \in Keys, WasDismissed(k), NEW i \in Rows,
             IsOpen(k, i)'
      PROVE  IsOpen(k, i)
  <2>1. ASSUME item' = item PROVE IsOpen(k, i) BY <1>1, <2>1 DEF IsOpen
  <2>2. ASSUME NEW t \in Requests, CommitSync(t) PROVE IsOpen(k, i)
    <3>1. req[t] \in Syncs BY <1>1, <2>2, AfterSync DEF SerialInv, BoxInv
    <3>2. Existing(item[k]) # {} BY <1>1 DEF WasDismissed, Existing
    <3>3. ~Opens(req[t], k) BY <1>1, <2>2, <3>1, <3>2 DEF SerialInv, BoxFresh, Opens
    <3> QED BY <1>1, <2>2, <3>3, AfterSync DEF SerialInv, BoxInv, IsOpen
  <2>3. ASSUME NEW t \in Requests, NEW u \in Users, Mail(t, u) PROVE IsOpen(k, i)
    BY <1>1, <2>3, MailKeeps DEF SerialInv, IsOpen
  <2>4. ASSUME NEW t \in Requests, CommitDismiss(t) PROVE IsOpen(k, i)
    BY <1>1, <2>4, DismissKeeps DEF SerialInv
  <2>5. ASSUME Tomorrow PROVE IsOpen(k, i)
    BY <1>1, <2>5, TomorrowKeeps DEF SerialInv, IsOpen
  <2>6. ASSUME NEW t \in Requests, BoxHandler(t) PROVE IsOpen(k, i)
    BY <2>1, <2>2, <2>3, <2>4, <2>6 DEF BoxHandler, BeginSync, BeginDismiss, BoxRollback
  <2> QED BY <1>1, <2>1, <2>5, <2>6, WorldKeeps DEF BoxNext, boxVars, SerialInv
<1>2. SerialInv /\ [BoxNext]_boxVars =>
        [\A k \in Keys : WasDismissed(k) =>
          \A i \in Rows : IsOpen(k, i)' => IsOpen(k, i)]_boxVars
  BY <1>1
<1> QED BY <1>2, SerialInvariance, PTL DEF BoxSpec, DismissedStaysDown
==============================================================================
