---------------------------- MODULE FoldTheorems ----------------------------
(***************************************************************************)
(* Induction in the form the proofs use it, and the sums the accounting    *)
(* properties are stated with.                                             *)
(***************************************************************************)
EXTENDS Integers, Sequences, FiniteSets, Functions, FiniteSetTheorems, WellFoundedInduction, TLAPS

\* A set of naturals that has an element has a least one.
LEMMA LeastNatural ==
    ASSUME NEW T \in SUBSET Nat, T # {}
    PROVE  \E x \in T : \A y \in T : x <= y
<1>1. PICK x \in T : \A y \in T : ~(<<y, x>> \in OpToRel(<, Nat))
  BY WFMin, NatLessThanWellFounded, Zenon
<1>2. \A y \in T : ~(y < x)
  BY <1>1, Zenon DEF OpToRel
<1> QED
  BY <1>2

\* A set of naturals that has an element and a bound has a greatest element.
LEMMA GreatestNatural ==
    ASSUME NEW n \in Nat, NEW T \in SUBSET (0 .. n), T # {}
    PROVE  \E x \in T : \A y \in T : y <= x
<1> DEFINE D == {n - x : x \in T}
<1>1. D \in SUBSET Nat
  OBVIOUS
<1>2. D # {}
  BY Zenon
<1> HIDE DEF D
<1>3. PICK d \in D : \A e \in D : d <= e
  BY <1>1, <1>2, LeastNatural
<1> USE DEF D
<1>4. PICK x \in T : d = n - x
  BY <1>3
<1>5. \A y \in T : n - x <= n - y
  BY <1>3, <1>4, Zenon
<1> QED
  BY <1>4, <1>5

\* What holds at 0 and passes from every index to the next holds up to n.
LEMMA Climb ==
    ASSUME NEW n \in Nat, NEW S \in SUBSET (0 .. n), 0 \in S,
           \A i \in 1 .. n : i - 1 \in S => i \in S
    PROVE  S = 0 .. n
<1> DEFINE T == (0 .. n) \ S
<1>1. SUFFICES ASSUME T # {} PROVE FALSE
  BY Zenon
<1>2. T \in SUBSET Nat
  OBVIOUS
<1> HIDE DEF T
<1>3. PICK x \in T : \A y \in T : x <= y
  BY <1>1, <1>2, LeastNatural
<1>4. x \in 1 .. n
  BY <1>3 DEF T
<1>5. x - 1 \in S
  BY <1>3, <1>4 DEF T
<1> QED
  BY <1>3, <1>4, <1>5 DEF T

\* What holds at n and passes from every index to the one before holds from 0.
LEMMA Descend ==
    ASSUME NEW n \in Nat, NEW S \in SUBSET (0 .. n), n \in S,
           \A i \in 1 .. n : i \in S => i - 1 \in S
    PROVE  S = 0 .. n
<1> DEFINE T == (0 .. n) \ S
<1>1. SUFFICES ASSUME T # {} PROVE FALSE
  BY Zenon
<1>2. T \in SUBSET (0 .. n)
  OBVIOUS
<1> HIDE DEF T
<1>3. PICK x \in T : \A y \in T : y <= x
  BY <1>1, <1>2, GreatestNatural, Zenon
<1>4. x \in 0 .. n - 1
  BY <1>3 DEF T
<1>5. x + 1 \in S
  BY <1>3, <1>4 DEF T
<1>6. x + 1 \in 1 .. n /\ (x + 1) - 1 = x
  BY <1>4
<1> QED
  BY <1>3, <1>4, <1>5, <1>6 DEF T

\* A set of finite sets that has an element has one that is minimal.
LEMMA MinimalSet ==
    ASSUME NEW S, IsFiniteSet(S), NEW T \in SUBSET (SUBSET S), T # {}
    PROVE  \E s \in T : \A t \in T : t \subseteq s => t = s
<1>1. IsWellFoundedOn(StrictSubsetOrdering(S), SUBSET S)
  BY FS_FiniteSubsetsOfFinite, FS_StrictSubsetOrderingWellFounded, Zenon
<1>2. PICK s \in T : \A t \in T : ~(<<t, s>> \in StrictSubsetOrdering(S))
  BY <1>1, WFMin, Zenon
<1> QED
  BY <1>2, Zenon DEF StrictSubsetOrdering

----------------------------------------------------------------------------
(* Sums.  SumFunctionOnSet adds the values of f over S in the order CHOOSE *)
(* happens to take the elements.                                           *)

Chosen(s) == CHOOSE x \in s : TRUE

\* g tabulates the sums of f over the subsets of S.
IsSumTable(g, f, S) ==
    g = [s \in SUBSET S |-> IF s = {} THEN 0 ELSE f[Chosen(s)] + g[s \ {Chosen(s)}]]

\* The sum over S is the entry for S of such a table.
LEMMA SumUnfolds ==
    ASSUME NEW f, NEW S
    PROVE  SumFunctionOnSet(f, S) = (CHOOSE g : IsSumTable(g, f, S))[S]
  BY DEF SumFunctionOnSet, FoldFunctionOnSet, MapThenFoldSet, IsSumTable, Chosen

\* Two tables agree wherever both are defined.
LEMMA SumTablesAgree ==
    ASSUME NEW f, NEW U, NEW V, NEW g, NEW h, IsSumTable(g, f, U), IsSumTable(h, f, V),
           NEW S, IsFiniteSet(S), S \subseteq U, S \subseteq V
    PROVE  g[S] = h[S]
<1> DEFINE T == {s \in SUBSET S : g[s] # h[s]}
<1>1. SUFFICES ASSUME T # {} PROVE FALSE
  OBVIOUS
<1>2. PICK s \in T : \A t \in T : t \subseteq s => t = s
  <2>1. T \in SUBSET (SUBSET S)
    OBVIOUS
  <2> HIDE DEF T
  <2> QED
    BY <1>1, <2>1, MinimalSet
<1>3. s # {}
  BY <1>2 DEF IsSumTable
<1> DEFINE c == Chosen(s)
<1>4. c \in s
  BY <1>3 DEF Chosen
<1>5. g[s] = f[c] + g[s \ {c}] /\ h[s] = f[c] + h[s \ {c}]
  BY <1>2, <1>3, Zenon DEF IsSumTable
<1>6. s \ {c} \notin T
  BY <1>2, <1>4
<1> QED
  BY <1>2, <1>5, <1>6

\* A finite set has a table.
LEMMA SumTableExists ==
    ASSUME NEW f, NEW S, IsFiniteSet(S)
    PROVE  \E g : IsSumTable(g, f, S)
<1> DEFINE T == {s \in SUBSET S : ~ \E g : IsSumTable(g, f, s)}
           table(s) == CHOOSE g : IsSumTable(g, f, s)
<1>1. SUFFICES ASSUME T # {} PROVE FALSE
  OBVIOUS
<1>2. PICK s \in T : \A t \in T : t \subseteq s => t = s
  <2>1. T \in SUBSET (SUBSET S)
    OBVIOUS
  <2> HIDE DEF T
  <2> QED
    BY <1>1, <2>1, MinimalSet
<1>3. ASSUME NEW u \in SUBSET s, u # s PROVE IsSumTable(table(u), f, u)
  BY <1>2, <1>3
<1> DEFINE below(u) == u \ {Chosen(u)}
           G == [u \in SUBSET s |->
                   IF u = {} THEN 0 ELSE f[Chosen(u)] + table(below(u))[below(u)]]
<1>4. ASSUME NEW u \in SUBSET s, u # {}
      PROVE  G[below(u)] = table(below(u))[below(u)]
  <2> DEFINE v == below(u)
  <2>1. Chosen(u) \in u
    BY <1>4 DEF Chosen
  <2>2. v \in SUBSET s /\ v # s
    BY <2>1
  <2>3. IsSumTable(table(v), f, v)
    BY <1>3, <2>2
  <2>4. CASE v = {}
    BY <2>2, <2>3, <2>4, Zenon DEF IsSumTable
  <2>5. CASE v # {}
    <3>1. Chosen(v) \in v
      BY <2>5 DEF Chosen
    <3>2. below(v) \in SUBSET s /\ below(v) # s /\ below(v) \subseteq v
      BY <2>2, <3>1
    <3>3. IsSumTable(table(below(v)), f, below(v))
      BY <1>3, <3>2, Zenon
    <3>4. IsFiniteSet(below(v))
      BY <1>2, <3>2, FS_Subset
    <3>5. table(below(v))[below(v)] = table(v)[below(v)]
      BY <2>3, <3>2, <3>3, <3>4, SumTablesAgree
    <3>6. table(v)[v] = f[Chosen(v)] + table(v)[below(v)]
      BY <2>3, <2>5, Zenon DEF IsSumTable
    <3>7. G[v] = f[Chosen(v)] + table(below(v))[below(v)]
      BY <2>2, <2>5
    <3> QED
      BY <3>5, <3>6, <3>7
  <2> QED
    BY <2>4, <2>5
<1>5. IsSumTable(G, f, s)
  <2>1. ASSUME NEW u \in SUBSET s
        PROVE  G[u] = IF u = {} THEN 0 ELSE f[Chosen(u)] + G[below(u)]
    <3>1. G[u] = IF u = {} THEN 0 ELSE f[Chosen(u)] + table(below(u))[below(u)]
      OBVIOUS
    <3>2. u # {} => G[below(u)] = table(below(u))[below(u)]
      BY <1>4, Zenon
    <3> HIDE DEF G, table, below
    <3> QED
      BY <3>1, <3>2
  <2>2. G = [u \in SUBSET s |-> G[u]]
    OBVIOUS
  <2> HIDE DEF G
  <2>3. G = [u \in SUBSET s |-> IF u = {} THEN 0 ELSE f[Chosen(u)] + G[below(u)]]
    BY <2>1, <2>2, Zenon
  <2> QED
    BY <2>3, Zenon DEF IsSumTable
<1> QED
  BY <1>2, <1>5

\* What the sum adds first.
LEMMA SumStep ==
    ASSUME NEW f, NEW S, IsFiniteSet(S)
    PROVE  /\ S = {} => SumFunctionOnSet(f, S) = 0
           /\ S # {} => SumFunctionOnSet(f, S)
                          = f[Chosen(S)] + SumFunctionOnSet(f, S \ {Chosen(S)})
<1> DEFINE table(s) == CHOOSE g : IsSumTable(g, f, s)
           R == S \ {Chosen(S)}
<1>1. IsFiniteSet(R)
  BY FS_Subset
<1>2. IsSumTable(table(S), f, S) /\ IsSumTable(table(R), f, R)
  BY <1>1, SumTableExists
<1>3. SumFunctionOnSet(f, S) = table(S)[S] /\ SumFunctionOnSet(f, R) = table(R)[R]
  BY SumUnfolds
<1>4. table(R)[R] = table(S)[R]
  BY <1>1, <1>2, SumTablesAgree
<1> QED
  BY <1>2, <1>3, <1>4, Zenon DEF IsSumTable

\* A sum of integers is an integer.
LEMMA SumType ==
    ASSUME NEW f, NEW S, IsFiniteSet(S), \A x \in S : f[x] \in Int
    PROVE  SumFunctionOnSet(f, S) \in Int
<1> DEFINE T == {s \in SUBSET S : SumFunctionOnSet(f, s) \notin Int}
<1>1. SUFFICES ASSUME T # {} PROVE FALSE
  OBVIOUS
<1>2. PICK s \in T : \A t \in T : t \subseteq s => t = s
  <2>1. T \in SUBSET (SUBSET S)
    OBVIOUS
  <2> HIDE DEF T
  <2> QED
    BY <1>1, <2>1, MinimalSet
<1>3. IsFiniteSet(s)
  BY FS_Subset
<1>4. s # {}
  <2>1. s = {} => SumFunctionOnSet(f, s) = 0
    BY <1>3, SumStep, Zenon
  <2> QED
    BY <1>2, <2>1
<1>5. Chosen(s) \in s
  BY <1>4 DEF Chosen
<1>6. SumFunctionOnSet(f, s \ {Chosen(s)}) \in Int
  BY <1>2, <1>5
<1> QED
  BY <1>2, <1>3, <1>4, <1>5, <1>6, SumStep

\* The order does not matter: any element may be added first.
LEMMA SumSplit ==
    ASSUME NEW f, NEW S, IsFiniteSet(S), \A x \in S : f[x] \in Int, NEW x \in S
    PROVE  SumFunctionOnSet(f, S) = f[x] + SumFunctionOnSet(f, S \ {x})
<1> DEFINE sum(s) == SumFunctionOnSet(f, s)
           T == {s \in SUBSET S : \E y \in s : sum(s) # f[y] + sum(s \ {y})}
<1>1. SUFFICES ASSUME T # {} PROVE FALSE
  BY Zenon
<1>2. PICK s \in T : \A t \in T : t \subseteq s => t = s
  <2>1. T \in SUBSET (SUBSET S)
    OBVIOUS
  <2> HIDE DEF T
  <2> QED
    BY <1>1, <2>1, MinimalSet
<1>3. PICK y \in s : sum(s) # f[y] + sum(s \ {y})
  BY <1>2
<1> DEFINE c == Chosen(s)
<1>4. c \in s
  BY <1>3 DEF Chosen
<1>5. IsFiniteSet(s)
  BY FS_Subset
<1>6. sum(s) = f[c] + sum(s \ {c})
  BY <1>4, <1>5, SumStep
<1>7. c # y
  BY <1>3, <1>6
<1>8. s \ {c} \notin T /\ s \ {y} \notin T
  BY <1>2, <1>3, <1>4, Zenon
<1>9. (s \ {y}) \ {c} = (s \ {c}) \ {y}
  OBVIOUS
<1>10. sum(s \ {c}) = f[y] + sum((s \ {c}) \ {y})
  BY <1>3, <1>7, <1>8, Zenon
<1>11. sum(s \ {y}) = f[c] + sum((s \ {c}) \ {y})
  BY <1>4, <1>7, <1>8, <1>9, Zenon
<1>12. IsFiniteSet((s \ {c}) \ {y}) /\ \A z \in (s \ {c}) \ {y} : f[z] \in Int
  BY <1>5, FS_Subset
<1>13. sum((s \ {c}) \ {y}) \in Int /\ f[c] \in Int /\ f[y] \in Int
  BY <1>3, <1>4, <1>12, SumType
<1> HIDE DEF sum, c
<1> QED
  BY <1>3, <1>6, <1>10, <1>11, <1>13

\* A sum depends on the values of the function on the set.
LEMMA SumEqual ==
    ASSUME NEW f, NEW g, NEW S, IsFiniteSet(S), \A x \in S : f[x] = g[x]
    PROVE  SumFunctionOnSet(f, S) = SumFunctionOnSet(g, S)
<1> DEFINE T == {s \in SUBSET S : SumFunctionOnSet(f, s) # SumFunctionOnSet(g, s)}
<1>1. SUFFICES ASSUME T # {} PROVE FALSE
  OBVIOUS
<1>2. PICK s \in T : \A t \in T : t \subseteq s => t = s
  <2>1. T \in SUBSET (SUBSET S)
    OBVIOUS
  <2> HIDE DEF T
  <2> QED
    BY <1>1, <2>1, MinimalSet
<1>3. IsFiniteSet(s)
  BY FS_Subset
<1>4. s # {}
  BY <1>2, <1>3, SumStep, Zenon
<1>5. Chosen(s) \in s
  BY <1>4 DEF Chosen
<1>6. SumFunctionOnSet(f, s \ {Chosen(s)}) = SumFunctionOnSet(g, s \ {Chosen(s)})
  BY <1>2, <1>5
<1> QED
  BY <1>2, <1>3, <1>4, <1>5, <1>6, SumStep

----------------------------------------------------------------------------
(* The same for SumFunction, the sum over the whole domain.                *)

\* SumFunction adds over the domain of its argument.
LEMMA SumOfDomain ==
    ASSUME NEW f
    PROVE  SumFunction(f) = SumFunctionOnSet(f, DOMAIN f)
BY DEF SumFunction, FoldFunction, SumFunctionOnSet, FoldFunctionOnSet, MapThenFoldSet

\* The sum of nothing.
LEMMA SumOfNone ==
    ASSUME NEW f, DOMAIN f = {}
    PROVE  SumFunction(f) = 0
BY SumOfDomain, SumStep, FS_EmptySet, Zenon

\* A sum of integers is an integer.
LEMMA SumIsInt ==
    ASSUME NEW S, IsFiniteSet(S), NEW f \in [S -> Int]
    PROVE  SumFunction(f) \in Int
BY SumOfDomain, SumType

\* One value is replaced.
LEMMA SumUpdated ==
    ASSUME NEW S, IsFiniteSet(S), NEW f \in [S -> Int], NEW g \in [S -> Int], NEW x \in S,
           \A y \in S \ {x} : g[y] = f[y]
    PROVE  SumFunction(g) = SumFunction(f) - f[x] + g[x]
<1> DEFINE sum(h, s) == SumFunctionOnSet(h, s)
<1>1. SumFunction(f) = sum(f, S) /\ SumFunction(g) = sum(g, S)
  BY SumOfDomain
<1>2. sum(f, S) = f[x] + sum(f, S \ {x}) /\ sum(g, S) = g[x] + sum(g, S \ {x})
  BY SumSplit
<1>3. IsFiniteSet(S \ {x})
  BY FS_Subset
<1>4. sum(f, S \ {x}) = sum(g, S \ {x}) /\ sum(f, S \ {x}) \in Int
  BY <1>3, SumEqual, SumType
<1> HIDE DEF sum
<1> QED
  BY <1>1, <1>2, <1>4

\* One value is appended.
LEMMA SumAppended ==
    ASSUME NEW n \in Nat, NEW f \in [1 .. n -> Int], NEW g \in [1 .. n + 1 -> Int],
           \A i \in 1 .. n : g[i] = f[i]
    PROVE  SumFunction(g) = SumFunction(f) + g[n + 1]
<1> DEFINE sum(h, s) == SumFunctionOnSet(h, s)
<1>1. SumFunction(f) = sum(f, 1 .. n) /\ SumFunction(g) = sum(g, 1 .. n + 1)
  BY SumOfDomain
<1>2. IsFiniteSet(1 .. n) /\ IsFiniteSet(1 .. n + 1)
  BY FS_Interval
<1>3. n + 1 \in 1 .. n + 1 /\ (1 .. n + 1) \ {n + 1} = 1 .. n
  OBVIOUS
<1>4. sum(g, 1 .. n + 1) = g[n + 1] + sum(g, 1 .. n) /\ g[n + 1] \in Int
  <2>1. sum(g, 1 .. n + 1) = g[n + 1] + sum(g, (1 .. n + 1) \ {n + 1})
    BY <1>2, <1>3, SumSplit
  <2> QED
    BY <1>3, <2>1, Zenon
<1>5. sum(g, 1 .. n) = sum(f, 1 .. n) /\ sum(f, 1 .. n) \in Int
  BY <1>2, SumEqual, SumType
<1> HIDE DEF sum
<1> QED
  BY <1>1, <1>4, <1>5

----------------------------------------------------------------------------
\* The entries of a sequence that grew by one.
LEMMA Appended ==
    ASSUME NEW S, NEW s \in Seq(S), NEW e \in S, NEW t, t = Append(s, e), NEW n, n = Len(s)
    PROVE  /\ n \in Nat
           /\ Len(t) = n + 1
           /\ t[n + 1] = e
           /\ \A i \in 1 .. n : t[i] = s[i]
           /\ \A i \in 1 .. n + 1 : i \in 1 .. n \/ i = n + 1
OBVIOUS

----------------------------------------------------------------------------
\* The sum of a measure over the entries of a sequence.
SumOver(h, s) == SumFunction([i \in 1 .. Len(s) |-> h[s[i]]])

\* It is an integer, 0 for the empty sequence, and grows by the measure of what
\* is appended.
LEMMA SumOverSequence ==
    ASSUME NEW S, NEW h \in [S -> Int], NEW s \in Seq(S)
    PROVE  /\ SumOver(h, s) \in Int
           /\ s = <<>> => SumOver(h, s) = 0
           /\ \A e \in S : SumOver(h, Append(s, e)) = SumOver(h, s) + h[e]
<1> DEFINE n == Len(s)
           f == [i \in 1 .. n |-> h[s[i]]]
<1>1. n \in Nat /\ f \in [1 .. n -> Int]
  OBVIOUS
<1>2. SumFunction(f) \in Int
  <2>1. IsFiniteSet(1 .. n)
    BY <1>1, FS_Interval
  <2> HIDE DEF n, f
  <2> QED
    BY <1>1, <2>1, SumIsInt
<1>3. s = <<>> => SumFunction(f) = 0
  <2> SUFFICES ASSUME s = <<>> PROVE SumFunction(f) = 0
    OBVIOUS
  <2>1. f \in [1 .. 0 -> Int]
    OBVIOUS
  <2> QED
    BY <2>1, SumOfNone
<1>4. ASSUME NEW e \in S PROVE SumOver(h, Append(s, e)) = SumFunction(f) + h[e]
  <2> DEFINE t == Append(s, e)
             g == [i \in 1 .. n + 1 |-> h[t[i]]]
  <2>1. /\ Len(t) = n + 1 /\ t[n + 1] = e
        /\ \A i \in 1 .. n : t[i] = s[i]
        /\ \A i \in 1 .. n + 1 : i \in 1 .. n \/ i = n + 1
    BY Appended
  <2>2. g \in [1 .. n + 1 -> Int] /\ g[n + 1] = h[e] /\ \A i \in 1 .. n : g[i] = f[i]
    <3>1. \A i \in 1 .. n + 1 : t[i] \in S
      BY <1>1, <2>1
    <3> HIDE DEF t
    <3> QED
      BY <1>1, <2>1, <3>1
  <2>3. SumOver(h, t) = SumFunction(g)
    BY <2>1 DEF SumOver
  <2> HIDE DEF n, f, g, t
  <2>4. SumFunction(g) = SumFunction(f) + g[n + 1]
    BY <1>1, <2>2, SumAppended, Zenon
  <2> QED
    BY <2>2, <2>3, <2>4 DEF t
<1> QED
  BY <1>2, <1>3, <1>4, Zenon DEF SumOver

\* The last part on its own.
LEMMA SumOverAppend ==
    ASSUME NEW S, NEW h \in [S -> Int], NEW s \in Seq(S), NEW e \in S
    PROVE  SumOver(h, Append(s, e)) = SumOver(h, s) + h[e]
BY SumOverSequence

\* The sum over an interval ends with its last value.
LEMMA SumOfInterval ==
    ASSUME NEW h, NEW k \in Nat, \A i \in 1 .. k + 1 : h[i] \in Int
    PROVE  /\ SumFunctionOnSet(h, 1 .. k + 1) = h[k + 1] + SumFunctionOnSet(h, 1 .. k)
           /\ SumFunctionOnSet(h, 1 .. k) \in Int
<1>1. 1 \in Int /\ k \in Int /\ k + 1 \in Int
  OBVIOUS
<1>2. IsFiniteSet(1 .. k + 1) /\ IsFiniteSet(1 .. k)
  BY <1>1, FS_Interval, Zenon
<1>3. /\ k + 1 \in 1 .. k + 1 /\ (1 .. k + 1) \ {k + 1} = 1 .. k
      /\ \A i \in 1 .. k : h[i] \in Int
  OBVIOUS
<1>4. SumFunctionOnSet(h, 1 .. k + 1) = h[k + 1] + SumFunctionOnSet(h, (1 .. k + 1) \ {k + 1})
  BY <1>2, <1>3, SumSplit
<1>5. SumFunctionOnSet(h, 1 .. k) \in Int
  BY <1>2, <1>3, SumType, Zenon
<1> QED
  BY <1>3, <1>4, <1>5, Zenon

\* The first value is taken away.
LEMMA SumShifted ==
    ASSUME NEW n \in Nat, NEW f \in [1 .. n + 1 -> Int], NEW g \in [1 .. n -> Int],
           \A i \in 1 .. n : g[i] = f[i + 1]
    PROVE  SumFunction(f) = f[1] + SumFunction(g)
<1> DEFINE sum(h, s) == SumFunctionOnSet(h, s)
           T == {k \in 0 .. n : sum(f, 1 .. k + 1) = f[1] + sum(g, 1 .. k)}
<1>2. 0 \in T
  <2>1. sum(g, 1 .. 0) = 0 /\ sum(f, 1 .. 0) = 0
    <3>1. 1 .. 0 = {}
      OBVIOUS
    <3> QED
      BY <3>1, SumStep, FS_EmptySet, Zenon
  <2>2. 0 \in Nat /\ (\A i \in 1 .. 0 + 1 : f[i] \in Int) /\ 0 + 1 = 1 /\ f[1] \in Int /\ 0 \in 0 .. n
    OBVIOUS
  <2>3. sum(f, 1 .. 0 + 1) = f[0 + 1] + sum(f, 1 .. 0)
    BY <2>2, SumOfInterval, Zenon
  <2> HIDE DEF sum
  <2> QED
    BY <2>1, <2>2, <2>3
<1>3. ASSUME NEW k \in 1 .. n, k - 1 \in T
      PROVE  k \in T
  <2>1. /\ k \in Nat /\ k - 1 \in Nat /\ (k - 1) + 1 = k /\ g[k] = f[k + 1] /\ g[k] \in Int
        /\ f[1] \in Int
        /\ \A i \in 1 .. k + 1 : f[i] \in Int
        /\ \A i \in 1 .. (k - 1) + 1 : g[i] \in Int
    OBVIOUS
  <2>2. sum(f, 1 .. k + 1) = f[k + 1] + sum(f, 1 .. k) /\ sum(f, 1 .. k) \in Int
    BY <2>1, SumOfInterval, Zenon
  <2>3. sum(g, 1 .. k) = g[k] + sum(g, 1 .. k - 1) /\ sum(g, 1 .. k - 1) \in Int
    <3>1. sum(g, 1 .. (k - 1) + 1) = g[(k - 1) + 1] + sum(g, 1 .. k - 1) /\ sum(g, 1 .. k - 1) \in Int
      BY <2>1, SumOfInterval, Zenon
    <3> QED
      BY <2>1, <3>1, Zenon
  <2>4. sum(f, 1 .. k) = f[1] + sum(g, 1 .. k - 1)
    BY <1>3, <2>1, Zenon
  <2> HIDE DEF sum
  <2>5. sum(f, 1 .. k + 1) = f[1] + sum(g, 1 .. k)
    BY <2>1, <2>2, <2>3, <2>4
  <2>6. k \in 0 .. n
    OBVIOUS
  <2> QED
    BY <2>5, <2>6, Zenon
<1>4. T = 0 .. n
  <2>1. T \in SUBSET (0 .. n)
    OBVIOUS
  <2> HIDE DEF T
  <2> QED
    BY <1>2, <1>3, <2>1, Climb, Zenon
<1>5. n \in T
  BY <1>4
<1>6. SumFunction(f) = sum(f, 1 .. n + 1) /\ SumFunction(g) = sum(g, 1 .. n)
  BY SumOfDomain
<1> QED
  BY <1>5, <1>6, Zenon

\* The sum over a sequence begins with its head.
LEMMA SumOverTail ==
    ASSUME NEW S, NEW h \in [S -> Int], NEW s \in Seq(S), s # <<>>
    PROVE  SumOver(h, s) = h[Head(s)] + SumOver(h, Tail(s))
<1> DEFINE n == Len(s) - 1
           f == [i \in 1 .. n + 1 |-> h[s[i]]]
           g == [i \in 1 .. n |-> h[Tail(s)[i]]]
<1>1. /\ n \in Nat /\ Len(s) = n + 1 /\ Len(Tail(s)) = n /\ Head(s) = s[1] /\ 1 \in 1 .. n + 1
      /\ \A i \in 1 .. n : Tail(s)[i] = s[i + 1] /\ s[i + 1] \in S
      /\ \A i \in 1 .. n + 1 : s[i] \in S
  OBVIOUS
<1>2. f \in [1 .. n + 1 -> Int] /\ g \in [1 .. n -> Int] /\ f[1] = h[Head(s)]
  BY <1>1
<1>3. \A i \in 1 .. n : g[i] = f[i + 1]
  BY <1>1
<1>4. SumOver(h, s) = SumFunction(f) /\ SumOver(h, Tail(s)) = SumFunction(g)
  BY <1>1, Zenon DEF SumOver
<1> HIDE DEF n, f, g
<1>5. SumFunction(f) = f[1] + SumFunction(g)
  BY <1>1, <1>2, <1>3, SumShifted, Zenon
<1> QED
  BY <1>2, <1>4, <1>5, Zenon

=============================================================================
