----------------------------- MODULE SumTheorems ------------------------------
(***************************************************************************)
(* Sums over finite sets.  The induction is on the smallest of the sets    *)
(* that would be a counterexample.                                         *)
(***************************************************************************)
EXTENDS Integers, FiniteSets, Functions, FiniteSetTheorems, WellFoundedInduction, TLAPS

LEMMA LeastOfNat ==
    ASSUME NEW S \in SUBSET Nat, S # {}
    PROVE  \E n \in S : \A m \in S : n <= m
<1> DEFINE less == {ss \in Nat \X Nat : ss[1] < ss[2]}
<1>1. IsWellFoundedOn(less, Nat) BY NatLessThanWellFounded DEF OpToRel
<1> HIDE DEF less
<1>2. PICK n \in S : \A m \in S : <<m, n>> \notin less BY <1>1, WFMin
<1>3. ASSUME NEW m \in S PROVE n <= m
  <2>1. n \in Nat /\ m \in Nat /\ <<m, n>> \notin less BY <1>2
  <2> QED BY <2>1 DEF less
<1> QED BY <1>3

\* Of any sets of elements of a finite set, one contains no other.
LEMMA SmallestSet ==
    ASSUME NEW S, IsFiniteSet(S), NEW Bad \in SUBSET SUBSET S, Bad # {}
    PROVE  \E T \in Bad : \A U \in SUBSET T : U \in Bad => U = T
<1> DEFINE sizes == {Cardinality(T) : T \in Bad}
<1>1. \A T \in SUBSET S : IsFiniteSet(T) /\ Cardinality(T) \in Nat
  BY FS_Subset, FS_CardinalityType
<1>2. sizes \in SUBSET Nat /\ sizes # {} BY <1>1
<1>3. PICK n \in sizes : \A m \in sizes : n <= m BY <1>2, LeastOfNat
<1>4. PICK T \in Bad : n = Cardinality(T) BY <1>3
<1>5. ASSUME NEW U \in SUBSET T, U \in Bad PROVE U = T
  <2>1. Cardinality(T) <= Cardinality(U) BY <1>3, <1>4, <1>5
  <2>2. IsFiniteSet(T) /\ Cardinality(T) \in Nat /\ Cardinality(U) \in Nat
    BY <1>1, <1>4, <1>5
  <2>3. Cardinality(U) <= Cardinality(T) /\ (Cardinality(T) = Cardinality(U) => U = T)
    BY <2>2, FS_Subset
  <2> QED BY <2>1, <2>2, <2>3
<1> QED BY <1>4, <1>5

\* Of finitely many, one has the least, and one the greatest, of any number
\* each of them has.
LEMMA LeastOfFinite ==
    ASSUME NEW S, IsFiniteSet(S), S # {}, NEW f, \A x \in S : f[x] \in Int
    PROVE  \E a \in S : \A b \in S : f[a] <= f[b]
<1> DEFINE least(T) == \E a \in T : \A b \in T : f[a] <= f[b]
           Bad == {T \in SUBSET S : T # {} /\ ~least(T)}
<1>1. SUFFICES ASSUME Bad # {} PROVE FALSE
  <2>1. S \in SUBSET S OBVIOUS
  <2> QED BY <1>1, <2>1
<1>2. Bad \in SUBSET SUBSET S OBVIOUS
<1>3. PICK T \in Bad : \A u \in SUBSET T : u \in Bad => u = T
  <2> HIDE DEF Bad
  <2> QED BY <1>1, <1>2, SmallestSet
<1>4. PICK x \in T : TRUE OBVIOUS
<1>5. CASE T = {x} BY <1>3, <1>5
<1>6. CASE T # {x}
  <2> DEFINE u == T \ {x}
  <2>1. u \in SUBSET T /\ u # T /\ u # {} /\ u \in SUBSET S BY <1>3, <1>4, <1>6
  <2>2. PICK a \in u : \A b \in u : f[a] <= f[b] BY <1>3, <2>1
  <2>3. a \in T /\ f[a] \in Int /\ f[x] \in Int /\ \A b \in T : f[b] \in Int
    BY <1>3, <1>4, <2>1
  <2>4. CASE f[a] <= f[x]
    <3>1. \A b \in T : f[a] <= f[b] BY <2>2, <2>4
    <3> QED BY <1>3, <2>3, <3>1
  <2>5. CASE ~(f[a] <= f[x])
    <3>1. \A b \in T : f[x] <= f[b] BY <2>2, <2>3, <2>5
    <3> QED BY <1>3, <1>4, <3>1
  <2> QED BY <2>4, <2>5
<1> QED BY <1>5, <1>6

LEMMA GreatestOfFinite ==
    ASSUME NEW S, IsFiniteSet(S), S # {}, NEW f, \A x \in S : f[x] \in Int
    PROVE  \E a \in S : \A b \in S : f[b] <= f[a]
<1> DEFINE g == [x \in S |-> -f[x]]
<1>1. \A x \in S : g[x] = -f[x] /\ g[x] \in Int OBVIOUS
<1> HIDE DEF g
<1>2. PICK a \in S : \A b \in S : g[a] <= g[b] BY <1>1, LeastOfFinite
<1> QED BY <1>1, <1>2

-----------------------------------------------------------------------------
(***************************************************************************)
(* The recursion that sums f, one element taken out at a time.             *)
(***************************************************************************)
Taken(s) == CHOOSE x \in s : TRUE

Sums(f, S, g) ==
    g = [s \in SUBSET S |-> IF s = {} THEN 0 ELSE f[Taken(s)] + g[s \ {Taken(s)}]]

LEMMA TakenIn == ASSUME NEW s, s # {} PROVE Taken(s) \in s
BY DEF Taken

LEMMA SumsOf ==
    ASSUME NEW f, NEW S, NEW g, Sums(f, S, g), NEW s \in SUBSET S
    PROVE  g[s] = IF s = {} THEN 0 ELSE f[Taken(s)] + g[s \ {Taken(s)}]
<1> DEFINE step(s2) == IF s2 = {} THEN 0 ELSE f[Taken(s2)] + g[s2 \ {Taken(s2)}]
<1>1. g = [s2 \in SUBSET S |-> step(s2)] BY DEF Sums
<1> HIDE DEF step
<1>2. g[s] = step(s) BY <1>1
<1> QED BY <1>2 DEF step

\* Wherever two such functions are defined they agree, if the elements do.
LEMMA SumsAgree ==
    ASSUME NEW f, NEW e, NEW S, NEW T, NEW g, NEW h, IsFiniteSet(S),
           Sums(f, S, g), Sums(e, T, h), \A x \in S \cap T : f[x] = e[x]
    PROVE  \A s \in SUBSET (S \cap T) : g[s] = h[s]
<1> DEFINE Bad == {s \in SUBSET (S \cap T) : g[s] # h[s]}
<1>1. SUFFICES ASSUME Bad # {} PROVE FALSE OBVIOUS
<1>2. Bad \in SUBSET SUBSET S OBVIOUS
<1>3. PICK s \in Bad : \A u \in SUBSET s : u \in Bad => u = s
  <2> HIDE DEF Bad
  <2> QED BY <1>1, <1>2, SmallestSet
<1>4. s \in SUBSET S /\ s \in SUBSET T /\ g[s] # h[s] OBVIOUS
<1>5. s # {} BY <1>4, SumsOf
<1> DEFINE u == s \ {Taken(s)}
<1>6. Taken(s) \in s BY <1>5, TakenIn
<1>7. u \in SUBSET s /\ u # s BY <1>6
<1>8. g[u] = h[u]
  <2>1. u \notin Bad BY <1>3, <1>7
  <2>2. u \in SUBSET (S \cap T) BY <1>4, <1>7
  <2> QED BY <2>1, <2>2
<1>9. f[Taken(s)] = e[Taken(s)] BY <1>4, <1>6
<1>10. g[s] = f[Taken(s)] + g[u] BY <1>4, <1>5, SumsOf
<1>11. h[s] = e[Taken(s)] + h[u] BY <1>4, <1>5, SumsOf
<1> QED BY <1>4, <1>8, <1>9, <1>10, <1>11

LEMMA SumsExist ==
    ASSUME NEW f, NEW S, IsFiniteSet(S)
    PROVE  \E g : Sums(f, S, g)
<1> DEFINE Bad == {T \in SUBSET S : ~ \E g : Sums(f, T, g)}
<1>1. SUFFICES ASSUME Bad # {} PROVE FALSE
  <2>1. S \in SUBSET S OBVIOUS
  <2> QED BY <2>1
<1>2. Bad \in SUBSET SUBSET S OBVIOUS
<1>3. PICK T \in Bad : \A u \in SUBSET T : u \in Bad => u = T
  <2> HIDE DEF Bad
  <2> QED BY <1>1, <1>2, SmallestSet
<1> DEFINE on(u) == CHOOSE g : Sums(f, u, g)
<1>4. ASSUME NEW u \in SUBSET T, u # T PROVE Sums(f, u, on(u))
  <2>1. u \in SUBSET S BY <1>3
  <2>2. u \notin Bad BY <1>3, <1>4
  <2>3. \E g : Sums(f, u, g) BY <2>1, <2>2
  <2> QED BY <2>3
<1> HIDE DEF on
<1> DEFINE h == [s \in SUBSET T |->
                    IF s = {} THEN 0
                    ELSE f[Taken(s)] + on(s \ {Taken(s)})[s \ {Taken(s)}]]
<1>5. ASSUME NEW u \in SUBSET T, u # T PROVE h[u] = on(u)[u]
  <2>1. Sums(f, u, on(u)) BY <1>4, <1>5
  <2>2. u \in SUBSET u OBVIOUS
  <2>3. CASE u = {} BY <2>1, <2>2, <2>3, SumsOf
  <2>4. CASE u # {}
    <3> DEFINE v == u \ {Taken(u)}
    <3>1. v \in SUBSET T /\ v # T /\ v \in SUBSET u BY <1>5
    <3>2. Sums(f, v, on(v)) BY <1>4, <3>1
    <3>3. IsFiniteSet(u) BY FS_Subset
    <3>4. v \in SUBSET (u \cap v) BY <3>1
    <3>5. on(u)[v] = on(v)[v] BY <2>1, <3>2, <3>3, <3>4, SumsAgree
    <3>6. on(u)[u] = f[Taken(u)] + on(u)[v] BY <2>1, <2>2, <2>4, SumsOf
    <3>7. h[u] = f[Taken(u)] + on(v)[v] BY <2>4
    <3> QED BY <3>5, <3>6, <3>7
  <2> QED BY <2>3, <2>4
<1>6. ASSUME NEW s \in SUBSET T
      PROVE  h[s] = IF s = {} THEN 0 ELSE f[Taken(s)] + h[s \ {Taken(s)}]
  <2>1. CASE s = {} BY <2>1
  <2>2. CASE s # {}
    <3> DEFINE u == s \ {Taken(s)}
    <3>1. u \in SUBSET T /\ u # T
      <4>1. Taken(s) \in s BY <2>2, TakenIn
      <4> QED BY <4>1
    <3>2. h[u] = on(u)[u] BY <1>5, <3>1
    <3>3. h[s] = f[Taken(s)] + on(u)[u] BY <2>2
    <3> QED BY <2>2, <3>2, <3>3
  <2> QED BY <2>1, <2>2
<1>7. h = [s \in SUBSET T |-> h[s]] OBVIOUS
<1> HIDE DEF h
<1>8. Sums(f, T, h)
  <2> DEFINE step(s) == IF s = {} THEN 0 ELSE f[Taken(s)] + h[s \ {Taken(s)}]
  <2>1. \A s \in SUBSET T : h[s] = step(s) BY <1>6
  <2> HIDE DEF step
  <2>2. h = [s \in SUBSET T |-> step(s)] BY <1>7, <2>1
  <2> QED BY <2>2 DEF step, Sums
<1> QED BY <1>3, <1>8

-----------------------------------------------------------------------------
(***************************************************************************)
(* SumFunctionOnSet.                                                       *)
(***************************************************************************)
LEMMA SumIsOf ==
    ASSUME NEW f, NEW S, NEW g, IsFiniteSet(S), Sums(f, S, g), NEW T \in SUBSET S
    PROVE  SumFunctionOnSet(f, T) = g[T]
<1> DEFINE h == CHOOSE h : Sums(f, T, h)
<1>1. IsFiniteSet(T) BY FS_Subset
<1>2. Sums(f, T, h) BY <1>1, SumsExist
<1>3. SumFunctionOnSet(f, T) = h[T]
  BY DEF SumFunctionOnSet, FoldFunctionOnSet, MapThenFoldSet, Sums, Taken
<1> HIDE DEF h
<1>4. h[T] = g[T] BY <1>2, SumsAgree
<1> QED BY <1>3, <1>4

LEMMA SumEmpty == ASSUME NEW f PROVE SumFunctionOnSet(f, {}) = 0
<1>1. IsFiniteSet({}) BY FS_EmptySet
<1>2. PICK g : Sums(f, {}, g) BY <1>1, SumsExist
<1>3. g[{}] = 0 BY <1>2, SumsOf
<1> QED BY <1>1, <1>2, <1>3, SumIsOf

\* A sum does not depend on what the function is elsewhere.
LEMMA SumSame ==
    ASSUME NEW S, IsFiniteSet(S), NEW f, NEW e, \A x \in S : f[x] = e[x]
    PROVE  SumFunctionOnSet(f, S) = SumFunctionOnSet(e, S)
<1>1. PICK g : Sums(f, S, g) BY SumsExist
<1>2. PICK h : Sums(e, S, h) BY SumsExist
<1>3. g[S] = h[S] BY <1>1, <1>2, SumsAgree
<1> QED BY <1>1, <1>2, <1>3, SumIsOf

LEMMA SumType ==
    ASSUME NEW S, IsFiniteSet(S), NEW f, \A x \in S : f[x] \in Int
    PROVE  SumFunctionOnSet(f, S) \in Int
<1>1. PICK g : Sums(f, S, g) BY SumsExist
<1> DEFINE Bad == {T \in SUBSET S : g[T] \notin Int}
<1>2. SUFFICES ASSUME Bad # {} PROVE FALSE
  <2>1. S \in SUBSET S OBVIOUS
  <2>2. g[S] \in Int BY <1>2, <2>1
  <2> QED BY <1>1, <2>1, <2>2, SumIsOf
<1>3. Bad \in SUBSET SUBSET S OBVIOUS
<1>4. PICK T \in Bad : \A u \in SUBSET T : u \in Bad => u = T
  <2> HIDE DEF Bad
  <2> QED BY <1>2, <1>3, SmallestSet
<1>5. T \in SUBSET S /\ g[T] \notin Int OBVIOUS
<1> DEFINE u == T \ {Taken(T)}
<1>6. T # {}
  <2>1. {} \in SUBSET S /\ g[{}] = 0 BY <1>1, SumsOf
  <2> QED BY <1>5, <2>1
<1>7. Taken(T) \in T BY <1>6, TakenIn
<1>8. g[u] \in Int
  <2>1. u \in SUBSET T /\ u # T /\ u \in SUBSET S BY <1>5, <1>7
  <2> QED BY <1>4, <2>1
<1>9. g[T] = f[Taken(T)] + g[u] BY <1>1, <1>5, <1>6, SumsOf
<1>10. f[Taken(T)] \in Int BY <1>5, <1>7
<1> QED BY <1>5, <1>8, <1>9, <1>10

\* Any element may be taken out first.
LEMMA SumWithout ==
    ASSUME NEW S, IsFiniteSet(S), NEW f, \A x \in S : f[x] \in Int, NEW x \in S
    PROVE  SumFunctionOnSet(f, S) = f[x] + SumFunctionOnSet(f, S \ {x})
<1>1. PICK g : Sums(f, S, g) BY SumsExist
<1> DEFINE Bad == {T \in SUBSET S : \E y \in T : g[T] # f[y] + g[T \ {y}]}
<1>2. SUFFICES ASSUME Bad # {} PROVE FALSE
  <2>1. S \in SUBSET S /\ S \ {x} \in SUBSET S OBVIOUS
  <2>2. g[S] = f[x] + g[S \ {x}] BY <1>2, <2>1
  <2>3. SumFunctionOnSet(f, S) = g[S] BY <1>1, <2>1, SumIsOf
  <2>4. SumFunctionOnSet(f, S \ {x}) = g[S \ {x}] BY <1>1, <2>1, SumIsOf
  <2> QED BY <2>2, <2>3, <2>4
<1>3. \A T \in SUBSET S : g[T] \in Int
  <2> SUFFICES ASSUME NEW T \in SUBSET S PROVE g[T] \in Int OBVIOUS
  <2>1. IsFiniteSet(T) BY FS_Subset
  <2>2. SumFunctionOnSet(f, T) \in Int BY <2>1, SumType
  <2> QED BY <1>1, <2>2, SumIsOf
<1>4. Bad \in SUBSET SUBSET S OBVIOUS
<1>5. PICK T \in Bad : \A u \in SUBSET T : u \in Bad => u = T
  <2> HIDE DEF Bad
  <2> QED BY <1>2, <1>4, SmallestSet
<1>6. PICK y \in T : g[T] # f[y] + g[T \ {y}] BY <1>5
<1>7. T \in SUBSET S OBVIOUS
<1>8. ASSUME NEW u \in SUBSET T, u # T, NEW z \in u
      PROVE  g[u] = f[z] + g[u \ {z}]
  <2>1. u \notin Bad /\ u \in SUBSET S BY <1>5, <1>7, <1>8
  <2> QED BY <1>8, <2>1
<1> DEFINE z == Taken(T)
<1>9. z \in T BY <1>6, TakenIn
<1>10. g[T] = f[z] + g[T \ {z}]
  <2>1. T # {} BY <1>6
  <2> QED BY <1>1, <1>7, <2>1, SumsOf
<1> HIDE DEF Bad, z
<1>11. z # y BY <1>6, <1>10
<1>12. g[T \ {z}] = f[y] + g[(T \ {z}) \ {y}]
  <2>1. T \ {z} \in SUBSET T /\ T \ {z} # T /\ y \in T \ {z} BY <1>6, <1>9, <1>11
  <2> QED BY <1>8, <2>1
<1>13. g[T \ {y}] = f[z] + g[(T \ {z}) \ {y}]
  <2>1. T \ {y} \in SUBSET T /\ T \ {y} # T /\ z \in T \ {y} BY <1>6, <1>9, <1>11
  <2>2. (T \ {z}) \ {y} = (T \ {y}) \ {z} OBVIOUS
  <2> QED BY <1>8, <2>1, <2>2
<1>14. f[y] \in Int /\ f[z] \in Int /\ g[(T \ {z}) \ {y}] \in Int
  <2>1. y \in S /\ z \in S /\ (T \ {z}) \ {y} \in SUBSET S BY <1>6, <1>7, <1>9
  <2> QED BY <1>3, <2>1
<1>15. g[T] = f[y] + g[T \ {y}] BY <1>10, <1>12, <1>13, <1>14
<1> QED BY <1>6, <1>15

LEMMA SumWith ==
    ASSUME NEW S, IsFiniteSet(S), NEW f, NEW x, x \notin S,
           \A y \in S \cup {x} : f[y] \in Int
    PROVE  SumFunctionOnSet(f, S \cup {x}) = f[x] + SumFunctionOnSet(f, S)
<1>1. IsFiniteSet(S \cup {x}) BY FS_AddElement
<1>2. (S \cup {x}) \ {x} = S OBVIOUS
<1>3. x \in S \cup {x} OBVIOUS
<1> QED BY <1>1, <1>2, <1>3, SumWithout

\* More of what is never negative is never less.
LEMMA SumMonotone ==
    ASSUME NEW S, IsFiniteSet(S), NEW f, \A x \in S : f[x] \in Nat, NEW T \in SUBSET S
    PROVE  SumFunctionOnSet(f, T) <= SumFunctionOnSet(f, S)
<1> DEFINE sum(U) == SumFunctionOnSet(f, U)
           Bad == {U \in SUBSET S : T \subseteq U /\ ~(sum(T) <= sum(U))}
<1>1. SUFFICES ASSUME Bad # {} PROVE FALSE
  <2>1. S \in SUBSET S OBVIOUS
  <2> QED BY <1>1, <2>1
<1>2. Bad \in SUBSET SUBSET S OBVIOUS
<1>3. PICK U \in Bad : \A u \in SUBSET U : u \in Bad => u = U
  <2> HIDE DEF Bad
  <2> QED BY <1>1, <1>2, SmallestSet
<1>4. \A V \in SUBSET S : IsFiniteSet(V) /\ sum(V) \in Int
  <2> SUFFICES ASSUME NEW V \in SUBSET S PROVE IsFiniteSet(V) /\ sum(V) \in Int OBVIOUS
  <2>1. IsFiniteSet(V) BY FS_Subset
  <2> QED BY <2>1, SumType
<1>5. U \in SUBSET S /\ T \subseteq U /\ ~(sum(T) <= sum(U)) OBVIOUS
<1> HIDE DEF sum
<1>6. U # T BY <1>4, <1>5
<1>7. PICK x \in U : x \notin T BY <1>5, <1>6
<1>8. sum(T) <= sum(U \ {x})
  <2>1. U \ {x} \in SUBSET U /\ U \ {x} # U /\ T \subseteq U \ {x} BY <1>5, <1>7
  <2> QED BY <1>3, <1>5, <2>1
<1>9. sum(U) = f[x] + sum(U \ {x})
  <2>1. \A y \in U : f[y] \in Int BY <1>5
  <2> QED BY <1>4, <1>5, <2>1, SumWithout DEF sum
<1>10. f[x] \in Nat /\ sum(U \ {x}) \in Int /\ sum(T) \in Int BY <1>4, <1>5
<1> QED BY <1>5, <1>8, <1>9, <1>10

LEMMA Divided ==
    ASSUME NEW n \in Int, NEW d \in Nat \ {0}
    PROVE  n \div d \in Int /\ d * (n \div d) <= n /\ n < d * (n \div d) + d
BY SMT

LEMMA Distributes ==
    ASSUME NEW a \in Int, NEW x \in Int, NEW y \in Int
    PROVE  a * (x + y) = a * x + a * y
OBVIOUS

LEMMA TimesKeepsOrder ==
    ASSUME NEW a \in Int, NEW b \in Int, NEW n \in Nat, a <= b
    PROVE  a * n <= b * n
OBVIOUS

LEMMA TimesReflectsOrder ==
    ASSUME NEW a \in Int, NEW b \in Int, NEW n \in Nat \ {0}, n * a <= n * b
    PROVE  a <= b
OBVIOUS

\* Where each term is bounded by another, and by c more, so are the sums.
LEMMA SumBounded ==
    ASSUME NEW S, IsFiniteSet(S), NEW f, NEW g, NEW a \in Int, NEW b \in Int, NEW c \in Int,
           \A x \in S : f[x] \in Int /\ g[x] \in Int /\ a * f[x] <= b * g[x] + c
    PROVE  a * SumFunctionOnSet(f, S) <= b * SumFunctionOnSet(g, S) + c * Cardinality(S)
<1> DEFINE f1(U) == SumFunctionOnSet(f, U)
           g1(U) == SumFunctionOnSet(g, U)
           bound(U) == a * f1(U) <= b * g1(U) + c * Cardinality(U)
           Bad == {U \in SUBSET S : ~bound(U)}
<1>1. SUFFICES ASSUME Bad # {} PROVE FALSE
  <2>1. S \in SUBSET S OBVIOUS
  <2> QED BY <1>1, <2>1
<1>2. Bad \in SUBSET SUBSET S OBVIOUS
<1>3. PICK U \in Bad : \A u \in SUBSET U : u \in Bad => u = U
  <2> HIDE DEF Bad
  <2> QED BY <1>1, <1>2, SmallestSet
<1>4. \A V \in SUBSET S : /\ IsFiniteSet(V) /\ Cardinality(V) \in Nat
                          /\ f1(V) \in Int /\ g1(V) \in Int
  <2> SUFFICES ASSUME NEW V \in SUBSET S
               PROVE  /\ IsFiniteSet(V) /\ Cardinality(V) \in Nat
                      /\ f1(V) \in Int /\ g1(V) \in Int
    OBVIOUS
  <2>1. IsFiniteSet(V) /\ Cardinality(V) \in Nat BY FS_Subset, FS_CardinalityType
  <2>2. f1(V) \in Int BY <2>1, SumType
  <2>3. g1(V) \in Int BY <2>1, SumType
  <2> QED BY <2>1, <2>2, <2>3
<1>5. U \in SUBSET S /\ ~bound(U) OBVIOUS
<1>6. U # {}
  <2>1. f1({}) = 0 /\ g1({}) = 0 BY SumEmpty
  <2>2. Cardinality({}) = 0 BY FS_EmptySet
  <2> HIDE DEF f1, g1
  <2>3. bound({}) BY <2>1, <2>2
  <2> QED BY <1>5, <2>3
<1>7. PICK x \in U : TRUE BY <1>6
<1> DEFINE V == U \ {x}
<1>8. V \in SUBSET S /\ bound(V)
  <2>1. V \in SUBSET U /\ V # U BY <1>7
  <2> QED BY <1>3, <1>5, <2>1
<1>9. f1(U) = f[x] + f1(V)
  <2>1. \A y \in U : f[y] \in Int BY <1>5
  <2> QED BY <1>4, <1>5, <2>1, SumWithout
<1>10. g1(U) = g[x] + g1(V)
  <2>1. \A y \in U : g[y] \in Int BY <1>5
  <2> QED BY <1>4, <1>5, <2>1, SumWithout
<1>11. Cardinality(U) = 1 + Cardinality(V)
  <2>1. Cardinality(V) = Cardinality(U) - 1 /\ Cardinality(U) \in Nat
    BY <1>4, <1>5, FS_RemoveElement
  <2> QED BY <2>1
<1> HIDE DEF f1, g1, V, Bad
<1>12. /\ f[x] \in Int /\ g[x] \in Int /\ a * f[x] <= b * g[x] + c
       /\ f1(V) \in Int /\ g1(V) \in Int /\ Cardinality(V) \in Nat
  BY <1>4, <1>5, <1>8
<1>13. /\ a * f1(U) = a * f[x] + a * f1(V)
       /\ b * g1(U) = b * g[x] + b * g1(V)
       /\ c * Cardinality(U) = c + c * Cardinality(V)
  <2>1. a * (f[x] + f1(V)) = a * f[x] + a * f1(V) BY <1>12, Distributes
  <2>2. b * (g[x] + g1(V)) = b * g[x] + b * g1(V) BY <1>12, Distributes
  <2>3. c * (1 + Cardinality(V)) = c * 1 + c * Cardinality(V) BY <1>12, Distributes
  <2> QED BY <1>9, <1>10, <1>11, <2>1, <2>2, <2>3
<1>14. /\ a * f1(V) \in Int /\ b * g1(V) \in Int /\ c * Cardinality(V) \in Int
       /\ a * f[x] \in Int /\ b * g[x] \in Int
  BY <1>12
<1>15. a * f1(V) <= b * g1(V) + c * Cardinality(V) BY <1>8
<1>16. a * f1(U) <= b * g1(U) + c * Cardinality(U) BY <1>12, <1>13, <1>14, <1>15
<1> QED BY <1>5, <1>16

\* The sizes of sets that have nothing in common add up to that of their union.
LEMMA SumOfSizes ==
    ASSUME NEW S, IsFiniteSet(S), NEW f,
           NEW size, \A x \in S : IsFiniteSet(f[x]) /\ size[x] = Cardinality(f[x]),
           \A x, y \in S : x # y => f[x] \cap f[y] = {}
    PROVE  SumFunctionOnSet(size, S) = Cardinality(UNION {f[x] : x \in S})
<1> DEFINE all(U) == UNION {f[x] : x \in U}
           sum(U) == SumFunctionOnSet(size, U)
           adds(U) == IsFiniteSet(all(U)) /\ sum(U) = Cardinality(all(U))
           Bad == {U \in SUBSET S : ~adds(U)}
<1>1. SUFFICES ASSUME Bad # {} PROVE FALSE
  <2>1. S \in SUBSET S OBVIOUS
  <2> QED BY <1>1, <2>1
<1>2. Bad \in SUBSET SUBSET S OBVIOUS
<1>3. PICK U \in Bad : \A u \in SUBSET U : u \in Bad => u = U
  <2> HIDE DEF Bad
  <2> QED BY <1>1, <1>2, SmallestSet
<1>4. \A x \in S : size[x] = Cardinality(f[x]) /\ size[x] \in Nat BY FS_CardinalityType
<1>5. U \in SUBSET S /\ ~adds(U) OBVIOUS
<1>6. U # {}
  <2>1. sum({}) = 0 BY SumEmpty
  <2>2. all({}) = {} OBVIOUS
  <2>3. IsFiniteSet({}) /\ Cardinality({}) = 0 BY FS_EmptySet
  <2> HIDE DEF sum, all
  <2>4. adds({}) BY <2>1, <2>2, <2>3
  <2> QED BY <1>5, <2>4
<1>7. PICK x \in U : TRUE BY <1>6
<1> DEFINE V == U \ {x}
<1>8. V \in SUBSET S /\ adds(V)
  <2>1. V \in SUBSET U /\ V # U BY <1>7
  <2> QED BY <1>3, <1>5, <2>1
<1>9. sum(U) = size[x] + sum(V)
  <2>1. IsFiniteSet(U) BY <1>5, FS_Subset
  <2>2. \A y \in U : size[y] \in Int BY <1>4, <1>5
  <2> QED BY <2>1, <2>2, SumWithout
<1>10. all(U) = f[x] \cup all(V) BY <1>7
<1>11. f[x] \cap all(V) = {} BY <1>5, <1>7
<1>12. IsFiniteSet(f[x]) /\ IsFiniteSet(all(V)) BY <1>5, <1>8
<1> HIDE DEF all, sum, V
<1>13. /\ IsFiniteSet(all(U))
       /\ Cardinality(all(U)) = Cardinality(f[x]) + Cardinality(all(V))
                                - Cardinality(f[x] \cap all(V))
  <2>1. /\ IsFiniteSet(f[x] \cup all(V))
        /\ Cardinality(f[x] \cup all(V)) = Cardinality(f[x]) + Cardinality(all(V))
                                           - Cardinality(f[x] \cap all(V))
    BY <1>12, FS_Union, Zenon
  <2> QED BY <1>10, <2>1
<1>14. Cardinality(f[x] \cap all(V)) = 0 BY <1>11, FS_EmptySet
<1>15. Cardinality(f[x]) \in Nat /\ Cardinality(all(V)) \in Nat BY <1>12, FS_CardinalityType
<1>16. adds(U)
  <2>1. size[x] = Cardinality(f[x]) BY <1>4, <1>5
  <2> QED BY <1>8, <1>9, <1>13, <1>14, <1>15, <2>1
<1> QED BY <1>5, <1>16
=============================================================================
