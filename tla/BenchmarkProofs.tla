-------------------------- MODULE BenchmarkProofs --------------------------
(***************************************************************************)
(* Theorems about Benchmark, for any bounds, lists and latencies.          *)
(***************************************************************************)
EXTENDS Benchmark, SequenceTheorems, FiniteSetTheorems, WellFoundedInduction, TLAPS

-----------------------------------------------------------------------------
(* The order of the latencies                                              *)

LEMMA Least ==
  ASSUME NEW T, T \subseteq Nat, T # {}
  PROVE  \E x \in T : \A y \in T : x <= y
<1>1. PICK x \in T : \A y \in T : <<y, x>> \notin OpToRel(<, Nat)
  BY WFMin, NatLessThanWellFounded
<1>2. \A y \in T : ~(y < x)
  BY <1>1 DEF OpToRel
<1> QED
  BY <1>2

Below(s, v) == {n \in 1..Len(s) : s[n] < v}
UpTo(s, v) == {n \in 1..Len(s) : s[n] <= v}

LEMMA Counts ==
  ASSUME NEW s \in Seq(Nat), NEW v
  PROVE  /\ IsFiniteSet(Below(s, v)) /\ Cardinality(Below(s, v)) \in Nat
         /\ IsFiniteSet(UpTo(s, v)) /\ Cardinality(UpTo(s, v)) \in Nat
<1>1. Len(s) \in Nat
  BY LenProperties
<1>2. IsFiniteSet(1..Len(s))
  BY <1>1, FS_Interval
<1>3. Below(s, v) \subseteq 1..Len(s) /\ UpTo(s, v) \subseteq 1..Len(s)
  BY DEF Below, UpTo
<1> QED
  BY <1>2, <1>3, FS_Subset, FS_CardinalityType

LEMMA Positions ==
  ASSUME NEW s \in Seq(Nat)
  PROVE  /\ Len(s) \in Nat /\ \A n \in 1..Len(s) : s[n] \in Nat
         /\ Range(s) = {s[n] : n \in 1..Len(s)} /\ Range(s) \subseteq Nat
<1>1. Len(s) \in Nat /\ DOMAIN s = 1..Len(s) /\ \A n \in 1..Len(s) : s[n] \in Nat
  BY LenProperties, ElementOfSeq
<1>2. Range(s) = {s[n] : n \in 1..Len(s)}
  BY <1>1 DEF Range
<1> QED
  BY <1>1, <1>2

LEMMA OneTo ==
  ASSUME NEW l \in Nat
  PROVE  IsFiniteSet(1..l) /\ Cardinality(1..l) = l
<1>1. 1 \in Int /\ l \in Int
  OBVIOUS
<1>2. IsFiniteSet(1..l) /\ Cardinality(1..l) = IF 1 > l THEN 0 ELSE l - 1 + 1
  BY <1>1, FS_Interval
<1> QED
  BY <1>2

\* Some values of a sequence have a greatest one: that below which most lie.
LEMMA GreatestOf ==
  ASSUME NEW s \in Seq(Nat), NEW P, P \subseteq Range(s), P # {}
  PROVE  \E u \in P : \A w \in P : w <= u
<1> DEFINE above(u) == Len(s) - Cardinality(UpTo(s, u))
           A == {above(u) : u \in P}
<1>1. \A u : above(u) \in Nat
  <2> SUFFICES ASSUME NEW u PROVE above(u) \in Nat
    OBVIOUS
  <2>1. IsFiniteSet(1..Len(s)) /\ Cardinality(1..Len(s)) = Len(s) /\ Len(s) \in Nat
    BY Positions, OneTo
  <2>2. UpTo(s, u) \subseteq 1..Len(s)
    BY DEF UpTo
  <2>3. Cardinality(UpTo(s, u)) <= Len(s)
    BY <2>1, <2>2, FS_Subset
  <2> QED
    BY <2>1, <2>3, Counts
<1>2. PICK u \in P : \A w \in P : above(u) <= above(w)
  <2> HIDE DEF above
  <2>1. A \subseteq Nat /\ A # {}
    BY <1>1
  <2>2. PICK a \in A : \A b \in A : a <= b
    <3> HIDE DEF A
    <3> QED
      BY <2>1, Least
  <2>3. PICK u \in P : a = above(u)
    OBVIOUS
  <2>4. \A w \in P : above(w) \in A
    OBVIOUS
  <2> QED
    BY <2>2, <2>3, <2>4
<1>3. ASSUME NEW w \in P, ~(w <= u) PROVE FALSE
  <2>1. u \in Nat /\ w \in Nat /\ \A n \in 1..Len(s) : s[n] \in Nat
    BY Positions
  <2>2. PICK k \in 1..Len(s) : w = s[k]
    BY Positions
  <2>3. UpTo(s, u) \subseteq UpTo(s, w)
    BY <1>3, <2>1 DEF UpTo
  <2>4. k \in UpTo(s, w) /\ k \notin UpTo(s, u)
    BY <1>3, <2>1, <2>2 DEF UpTo
  <2>5. /\ Cardinality(UpTo(s, u)) <= Cardinality(UpTo(s, w))
        /\ Cardinality(UpTo(s, w)) = Cardinality(UpTo(s, u)) => UpTo(s, w) = UpTo(s, u)
    BY <2>3, Counts, FS_Subset
  <2>6. Len(s) - Cardinality(UpTo(s, u)) <= Len(s) - Cardinality(UpTo(s, w))
    BY <1>2
  <2>7. Cardinality(UpTo(s, u)) = Cardinality(UpTo(s, w))
    <3>1. /\ Cardinality(UpTo(s, u)) \in Nat /\ Cardinality(UpTo(s, w)) \in Nat
          /\ Len(s) \in Nat
      BY Counts, Positions
    <3> QED
      BY <2>5, <2>6, <3>1
  <2> QED
    BY <2>4, <2>5, <2>7
<1> QED
  BY <1>3

\* Sorted gives an element, with no more than idx below it and more up to it.
LEMMA SortedIs ==
  ASSUME NEW s \in Seq(Nat), NEW idx \in 0..(Len(s) - 1)
  PROVE  LET v == Sorted(s, idx) IN
         /\ v \in Range(s)
         /\ Cardinality(Below(s, v)) <= idx /\ idx < Cardinality(UpTo(s, v))
<1> DEFINE T == {v \in Range(s) : idx < Cardinality(UpTo(s, v))}
<1>1. /\ Len(s) \in Nat /\ idx \in Nat /\ Len(s) > 0 /\ idx < Len(s)
      /\ \A n \in 1..Len(s) : s[n] \in Nat /\ s[n] \in Range(s)
      /\ Range(s) \subseteq Nat
  BY Positions
<1>2. T # {}
  <2>1. Range(s) # {}
    BY <1>1
  <2>2. PICK m \in Range(s) : \A w \in Range(s) : w <= m
    BY <2>1, GreatestOf
  <2>3. UpTo(s, m) = 1..Len(s)
    BY <1>1, <2>2 DEF UpTo
  <2>4. Cardinality(UpTo(s, m)) = Len(s)
    BY <1>1, <2>3, OneTo
  <2> QED
    BY <1>1, <2>4
<1>3. PICK v \in T : \A w \in T : v <= w
  <2>1. T \subseteq Nat
    BY <1>1
  <2> HIDE DEF T
  <2> QED
    BY <1>2, <2>1, Least
<1>4. v \in Range(s) /\ v \in Nat /\ idx < Cardinality(UpTo(s, v))
  BY <1>1
<1>5. Cardinality(Below(s, v)) <= idx
  <2> DEFINE P == {u \in Range(s) : u < v}
  <2>1. CASE P = {}
    <3>1. Below(s, v) = {}
      BY <1>1, <2>1 DEF Below
    <3> QED
      BY <1>1, <3>1, FS_EmptySet
  <2>2. CASE P # {}
    <3>1. PICK u \in P : \A w \in P : w <= u
      <4>1. P \subseteq Range(s)
        OBVIOUS
      <4> HIDE DEF P
      <4> QED
        BY <2>2, <4>1, GreatestOf
    <3>2. u \in Range(s) /\ u \in Nat /\ u < v
      BY <1>1
    <3>3. u \notin T
      BY <1>3, <1>4, <3>2
    <3>4. Cardinality(UpTo(s, u)) <= idx
      BY <1>1, <3>2, <3>3, Counts
    <3>5. Below(s, v) = UpTo(s, u)
      BY <1>1, <1>4, <3>1, <3>2 DEF Below, UpTo
    <3> QED
      BY <3>4, <3>5
  <2> QED
    BY <2>1, <2>2
<1>6. \E x \in Range(s) : Cardinality(Below(s, x)) <= idx /\ idx < Cardinality(UpTo(s, x))
  BY <1>4, <1>5
<1>7. Sorted(s, idx) = CHOOSE x \in Range(s) :
        Cardinality(Below(s, x)) <= idx /\ idx < Cardinality(UpTo(s, x))
  BY DEF Sorted, Below, UpTo
<1> QED
  BY <1>6, <1>7

LEMMA SortedInOrder ==
  ASSUME NEW s \in Seq(Nat), NEW j \in 0..(Len(s) - 1), NEW k \in 0..(Len(s) - 1), j <= k
  PROVE  Sorted(s, j) <= Sorted(s, k)
<1> DEFINE a == Sorted(s, j)
           b == Sorted(s, k)
<1>1. /\ a \in Range(s) /\ Cardinality(Below(s, a)) <= j
      /\ b \in Range(s) /\ k < Cardinality(UpTo(s, b))
  BY SortedIs
<1> HIDE DEF a, b
<1>2. a \in Nat /\ b \in Nat /\ Len(s) \in Nat /\ \A n \in 1..Len(s) : s[n] \in Nat
  BY <1>1, Positions
<1>3. ASSUME b < a PROVE FALSE
  <2>1. UpTo(s, b) \subseteq Below(s, a)
    BY <1>2, <1>3 DEF UpTo, Below
  <2>2. Cardinality(UpTo(s, b)) <= Cardinality(Below(s, a))
    BY <2>1, Counts, FS_Subset
  <2> QED
    BY <1>1, <1>2, <2>2, Counts
<1>4. a <= b
  BY <1>2, <1>3
<1> QED
  BY <1>4 DEF a, b

\* The last element is the greatest.
LEMMA BackIsGreatest ==
  ASSUME NEW s \in Seq(Nat), s # <<>>
  PROVE  \A v \in Range(s) : v <= back(s)
<1>1. Len(s) \in Nat /\ Len(s) - 1 \in 0..(Len(s) - 1)
  BY Positions, EmptySeq
<1>2. Len(s) - 1 < Cardinality(UpTo(s, back(s)))
  BY <1>1, SortedIs DEF back
<1>3. IsFiniteSet(1..Len(s)) /\ Cardinality(1..Len(s)) = Len(s)
  BY <1>1, OneTo
<1>4. UpTo(s, back(s)) = 1..Len(s)
  <2>1. UpTo(s, back(s)) \subseteq 1..Len(s)
    BY DEF UpTo
  <2>2. Cardinality(UpTo(s, back(s))) = Cardinality(1..Len(s))
    BY <1>1, <1>2, <1>3, <2>1, Counts, FS_Subset
  <2> QED
    BY <1>3, <2>1, <2>2, FS_Subset
<1> QED
  BY <1>4, Positions DEF UpTo

\* The index of a percentile
Index(l, pct) ==
  LET idx == (pct * (l - 1) + 50) \div 100 IN IF idx >= l THEN l - 1 ELSE idx

LEMMA IndicesInOrder ==
  ASSUME NEW l \in Nat \ {0}
  PROVE  /\ Index(l, 50) \in 0..(l - 1) /\ Index(l, 90) \in 0..(l - 1)
         /\ Index(l, 95) \in 0..(l - 1) /\ Index(l, 99) \in 0..(l - 1)
         /\ Index(l, 50) <= Index(l, 90) /\ Index(l, 90) <= Index(l, 95)
         /\ Index(l, 95) <= Index(l, 99)
BY DEF Index

LEMMA PercentileIs ==
  ASSUME NEW s \in Seq(Nat), s # <<>>, NEW pct
  PROVE  percentile(s, pct) = Sorted(s, Index(Len(s), pct))
BY DEF percentile, Index

LEMMA Percentiles ==
  ASSUME latencies_out \in Seq(Nat)
  PROVE  PercentilesInOrder
<1> SUFFICES ASSUME latencies_out # <<>>
             PROVE  LET p == <<percentile(latencies_out, 50), percentile(latencies_out, 90),
                               percentile(latencies_out, 95), percentile(latencies_out, 99),
                               back(latencies_out)>>
                    IN /\ \A n \in 1..4 : p[n] <= p[n + 1]
                       /\ Range(p) \subseteq Range(latencies_out)
                       /\ \A v \in Range(latencies_out) : v <= p[5]
  BY DEF PercentilesInOrder
<1> DEFINE s == latencies_out
           l == Len(s)
           p == <<percentile(s, 50), percentile(s, 90), percentile(s, 95), percentile(s, 99), back(s)>>
<1>1. l \in Nat \ {0}
  BY Positions, EmptySeq
<1>2. /\ p[1] = Sorted(s, Index(l, 50)) /\ p[2] = Sorted(s, Index(l, 90))
      /\ p[3] = Sorted(s, Index(l, 95)) /\ p[4] = Sorted(s, Index(l, 99))
      /\ p[5] = Sorted(s, l - 1) /\ p[5] = back(s)
  BY PercentileIs DEF back
<1>3. DOMAIN p = 1..5
  OBVIOUS
<1>4. /\ Index(l, 50) \in 0..(l - 1) /\ Index(l, 90) \in 0..(l - 1)
      /\ Index(l, 95) \in 0..(l - 1) /\ Index(l, 99) \in 0..(l - 1)
      /\ Index(l, 50) <= Index(l, 90) /\ Index(l, 90) <= Index(l, 95)
      /\ Index(l, 95) <= Index(l, 99)
  BY <1>1, IndicesInOrder
<1>5. l - 1 \in 0..(l - 1) /\ Index(l, 99) <= l - 1
  BY <1>1, <1>4
<1> HIDE DEF p
<1>6. p[1] <= p[2] /\ p[2] <= p[3] /\ p[3] <= p[4] /\ p[4] <= p[5]
  <2>1. Sorted(s, Index(l, 50)) <= Sorted(s, Index(l, 90))
    BY <1>4, SortedInOrder
  <2>2. Sorted(s, Index(l, 90)) <= Sorted(s, Index(l, 95))
    BY <1>4, SortedInOrder
  <2>3. Sorted(s, Index(l, 95)) <= Sorted(s, Index(l, 99))
    BY <1>4, SortedInOrder
  <2>4. Sorted(s, Index(l, 99)) <= Sorted(s, l - 1)
    BY <1>4, <1>5, SortedInOrder
  <2> QED
    BY <1>2, <2>1, <2>2, <2>3, <2>4
<1>7. /\ p[1] \in Range(s) /\ p[2] \in Range(s) /\ p[3] \in Range(s) /\ p[4] \in Range(s)
      /\ p[5] \in Range(s)
  BY <1>2, <1>4, <1>5, SortedIs
<1>8. \A n \in 1..4 : p[n] <= p[n + 1]
  BY <1>6
<1>9. Range(p) \subseteq Range(s)
  BY <1>3, <1>7 DEF Range
<1>10. \A v \in Range(s) : v <= p[5]
  BY <1>2, BackIsGreatest
<1> QED
  BY <1>8, <1>9, <1>10 DEF p

-----------------------------------------------------------------------------
(* Induction                                                               *)

\* Over the natural numbers, for the set G of those with a property
LEMMA NumberInduction ==
  ASSUME NEW G, 0 \in G, \A n \in Nat : n \in G => n + 1 \in G
  PROVE  \A n \in Nat : n \in G
<1> SUFFICES ASSUME Nat \ G # {} PROVE FALSE
  OBVIOUS
<1>1. PICK n \in Nat \ G : \A m \in Nat \ G : n <= m
  BY Least
<1>2. n # 0 /\ n - 1 \in Nat /\ (n - 1) + 1 = n /\ ~(n <= n - 1)
  BY <1>1
<1> QED
  BY <1>1, <1>2

\* Over the subsets of a finite set
LEMMA SubsetInduction ==
  ASSUME NEW S, IsFiniteSet(S), NEW G, {} \in G,
         \A T \in SUBSET S : T # {} /\ (\A x \in T : T \ {x} \in G) => T \in G
  PROVE  \A T \in SUBSET S : T \in G
<1> DEFINE Bad == (SUBSET S) \ G
           Sizes == {Cardinality(T) : T \in Bad}
<1>1. SUFFICES ASSUME Bad # {} PROVE FALSE
  OBVIOUS
<1>2. \A T \in SUBSET S : IsFiniteSet(T) /\ Cardinality(T) \in Nat
  BY FS_Subset, FS_CardinalityType
<1>3. Sizes \subseteq Nat /\ Sizes # {}
  BY <1>1, <1>2
<1>4. PICK k \in Sizes : \A m \in Sizes : k <= m
  BY <1>3, Least
<1>5. PICK T \in Bad : Cardinality(T) = k
  BY <1>4
<1>6. ASSUME NEW x \in T PROVE T \ {x} \in G
  <2>1. T \ {x} \in SUBSET S /\ Cardinality(T \ {x}) = k - 1 /\ k \in Nat
    BY <1>2, <1>5, FS_RemoveElement
  <2>2. ~(k <= k - 1)
    BY <2>1
  <2> QED
    BY <1>4, <2>1, <2>2
<1>7. T \in SUBSET S /\ T \notin G
  BY <1>5
<1>8. T # {} /\ \A x \in T : T \ {x} \in G
  BY <1>6, <1>7
<1> QED
  BY <1>7, <1>8

-----------------------------------------------------------------------------
(* Sums                                                                    *)

\* The sum of f over S, as Total() makes it: an element is taken out at a time.
Taken(s) == CHOOSE x \in s : TRUE
SumStep(g, f, s) == IF s = {} THEN 0 ELSE f[Taken(s)] + g[s \ {Taken(s)}]
IsSum(g, f, S) == g = [s \in SUBSET S |-> SumStep(g, f, s)]
SumOver(f, S) == (CHOOSE g : IsSum(g, f, S))[S]

LEMMA TotalIs == ASSUME NEW f PROVE Total(f) = SumOver(f, DOMAIN f)
BY DEF Total, FoldFunction, FoldFunctionOnSet, MapThenFoldSet, SumOver, IsSum, SumStep, Taken

LEMMA TakenIs == \A s : s # {} => Taken(s) \in s
BY DEF Taken

\* The recursion defines a function on the subsets of a finite set: one that is right for
\* the sets of up to k elements becomes right for those of k + 1 by one more step.
LEMMA SumExists ==
  ASSUME NEW f, NEW S, IsFiniteSet(S)
  PROVE  \E g : IsSum(g, f, S)
<1> DEFINE Right(g, k) ==
             \A s \in SUBSET S : Cardinality(s) <= k => g[s] = SumStep(g, f, s)
           G == {k \in Nat : \E g : Right(g, k)}
<1>1. \A s \in SUBSET S : IsFiniteSet(s) /\ Cardinality(s) \in Nat
  BY FS_Subset, FS_CardinalityType
<1>2. 0 \in G
  <2>1. \A s \in SUBSET S : Cardinality(s) <= 0 => s = {}
    BY <1>1, FS_EmptySet
  <2> DEFINE z == [s \in SUBSET S |-> 0]
  <2>2. Right(z, 0)
    BY <2>1 DEF SumStep
  <2> QED
    BY <2>2
<1>3. ASSUME NEW k \in Nat, k \in G PROVE k + 1 \in G
  <2>1. PICK g : Right(g, k)
    BY <1>3
  <2> DEFINE h == [s \in SUBSET S |-> SumStep(g, f, s)]
  <2>2. ASSUME NEW s \in SUBSET S, Cardinality(s) <= k + 1, s # {}
        PROVE  h[s] = SumStep(h, f, s)
    <3> DEFINE u == s \ {Taken(s)}
    <3>1. u \in SUBSET S /\ Cardinality(u) = Cardinality(s) - 1
      BY <1>1, <2>2, TakenIs, FS_RemoveElement
    <3>2. Cardinality(u) <= k
      BY <1>1, <2>2, <3>1
    <3>3. h[u] = SumStep(g, f, u) /\ g[u] = SumStep(g, f, u)
      BY <2>1, <3>1, <3>2
    <3>4. h[s] = f[Taken(s)] + g[u]
      BY <2>2 DEF SumStep
    <3> QED
      BY <2>2, <3>3, <3>4 DEF SumStep
  <2>3. \A s \in SUBSET S : s = {} => h[s] = SumStep(h, f, s)
    BY DEF SumStep
  <2> HIDE DEF h
  <2>4. Right(h, k + 1)
    BY <2>2, <2>3
  <2> QED
    BY <2>4
<1>4. Cardinality(S) \in G
  <2> HIDE DEF G
  <2> QED
    BY <1>1, <1>2, <1>3, NumberInduction
<1>5. PICK g : Right(g, Cardinality(S))
  BY <1>4
<1>6. \A s \in SUBSET S : g[s] = SumStep(g, f, s)
  BY <1>1, <1>5, FS_Subset
<1> DEFINE h == [s \in SUBSET S |-> g[s]]
<1>7. \A s \in SUBSET S : SumStep(h, f, s) = SumStep(g, f, s)
  BY TakenIs DEF SumStep
<1>8. h = [s \in SUBSET S |-> SumStep(h, f, s)]
  BY <1>6, <1>7
<1> QED
  BY <1>8 DEF IsSum

\* Two such functions agree where they sum the same.
LEMMA SumUnique ==
  ASSUME NEW f, NEW g, NEW S, NEW U, NEW V, IsFiniteSet(S), S \subseteq U, S \subseteq V,
         \A x \in S : f[x] = g[x],
         NEW p, NEW q, IsSum(p, f, U), IsSum(q, g, V)
  PROVE  p[S] = q[S]
<1> DEFINE G == {T \in SUBSET S : p[T] = q[T]}
<1>1. \A T \in SUBSET S : p[T] = SumStep(p, f, T) /\ q[T] = SumStep(q, g, T)
  BY DEF IsSum
<1>2. {} \in G
  BY <1>1 DEF SumStep
<1>3. \A T \in SUBSET S : T # {} /\ (\A x \in T : T \ {x} \in G) => T \in G
  BY <1>1, TakenIs DEF SumStep
<1> HIDE DEF G
<1>4. \A T \in SUBSET S : T \in G
  BY <1>2, <1>3, SubsetInduction
<1> QED
  BY <1>4 DEF G

LEMMA SumIs ==
  ASSUME NEW f, NEW S, IsFiniteSet(S)
  PROVE  /\ IsSum(CHOOSE g : IsSum(g, f, S), f, S)
         /\ \A T \in SUBSET S : SumOver(f, T) = (CHOOSE g : IsSum(g, f, S))[T]
<1>1. \A T \in SUBSET S : IsSum(CHOOSE g : IsSum(g, f, T), f, T) /\ IsFiniteSet(T)
  BY SumExists, FS_Subset
<1>2. IsSum(CHOOSE g : IsSum(g, f, S), f, S)
  BY <1>1
<1>3. ASSUME NEW T \in SUBSET S PROVE SumOver(f, T) = (CHOOSE g : IsSum(g, f, S))[T]
  BY <1>1, <1>2, SumUnique DEF SumOver
<1> QED
  BY <1>2, <1>3

\* Sums of the same values are equal.
LEMMA SumSame ==
  ASSUME NEW f, NEW g, NEW S, IsFiniteSet(S), \A x \in S : f[x] = g[x]
  PROVE  SumOver(f, S) = SumOver(g, S)
BY SumIs, SumUnique DEF SumOver

LEMMA SumEmpty == \A f : SumOver(f, {}) = 0
<1> TAKE f
<1>1. IsSum(CHOOSE g : IsSum(g, f, {}), f, {})
  BY SumIs, FS_EmptySet
<1> QED
  BY <1>1 DEF IsSum, SumStep, SumOver

\* An element of the set can be taken out of the sum.
LEMMA SumTaken ==
  ASSUME NEW f, NEW S, IsFiniteSet(S), S # {}
  PROVE  SumOver(f, S) = f[Taken(S)] + SumOver(f, S \ {Taken(S)})
<1> DEFINE p == CHOOSE g : IsSum(g, f, S)
<1>1. SumOver(f, S \ {Taken(S)}) = p[S \ {Taken(S)}] /\ SumOver(f, S) = p[S]
  BY SumIs
<1>2. IsSum(p, f, S)
  BY SumIs
<1> HIDE DEF p
<1>3. p[S] = SumStep(p, f, S)
  BY <1>2 DEF IsSum
<1> QED
  BY <1>1, <1>3 DEF SumStep

\* A sum of natural numbers is one.
LEMMA SumNat ==
  ASSUME NEW S, IsFiniteSet(S), NEW f, \A x \in S : f[x] \in Nat
  PROVE  \A T \in SUBSET S : SumOver(f, T) \in Nat
<1> DEFINE G == {T \in SUBSET S : SumOver(f, T) \in Nat}
<1>1. {} \in G
  BY SumEmpty
<1>2. ASSUME NEW T \in SUBSET S, T # {}, \A x \in T : T \ {x} \in G PROVE T \in G
  <2>1. Taken(T) \in T /\ SumOver(f, T) = f[Taken(T)] + SumOver(f, T \ {Taken(T)})
    BY <1>2, TakenIs, SumTaken, FS_Subset
  <2> QED
    BY <1>2, <2>1
<1>3. \A T \in SUBSET S : T # {} /\ (\A x \in T : T \ {x} \in G) => T \in G
  BY <1>2
<1> HIDE DEF G
<1>4. \A T \in SUBSET S : T \in G
  BY <1>1, <1>3, SubsetInduction
<1> QED
  BY <1>4 DEF G

\* Any element can be taken out of it.
LEMMA SumAny ==
  ASSUME NEW S, IsFiniteSet(S), NEW f, \A x \in S : f[x] \in Nat
  PROVE  \A y \in S : SumOver(f, S) = f[y] + SumOver(f, S \ {y})
<1> DEFINE G == {T \in SUBSET S : \A y \in T : SumOver(f, T) = f[y] + SumOver(f, T \ {y})}
<1>1. {} \in G
  OBVIOUS
<1>2. ASSUME NEW T \in SUBSET S, T # {}, \A x \in T : T \ {x} \in G PROVE T \in G
  <2> DEFINE x == Taken(T)
  <2>1. x \in T /\ f[x] \in Nat /\ SumOver(f, T) = f[x] + SumOver(f, T \ {x})
    BY <1>2, TakenIs, SumTaken, FS_Subset
  <2> HIDE DEF x
  <2>2. ASSUME NEW y \in T, y # x PROVE SumOver(f, T) = f[y] + SumOver(f, T \ {y})
    <3>1. y \in T \ {x} /\ x \in T \ {y} /\ (T \ {x}) \ {y} = (T \ {y}) \ {x}
      BY <2>1, <2>2
    <3>2. SumOver(f, T \ {x}) = f[y] + SumOver(f, (T \ {x}) \ {y})
      BY <1>2, <2>1, <3>1
    <3>3. SumOver(f, T \ {y}) = f[x] + SumOver(f, (T \ {y}) \ {x})
      BY <1>2, <3>1
    <3>4. SumOver(f, (T \ {x}) \ {y}) \in Nat /\ f[y] \in Nat
      BY SumNat
    <3> QED
      BY <2>1, <3>1, <3>2, <3>3, <3>4
  <2> QED
    BY <2>1, <2>2
<1>3. \A T \in SUBSET S : T # {} /\ (\A x \in T : T \ {x} \in G) => T \in G
  BY <1>2
<1> HIDE DEF G
<1>4. \A T \in SUBSET S : T \in G
  BY <1>1, <1>3, SubsetInduction
<1> QED
  BY <1>4 DEF G

\* Sums add up value by value.
LEMMA SumAdd ==
  ASSUME NEW S, IsFiniteSet(S), NEW f, NEW g, NEW h,
         \A x \in S : f[x] \in Nat /\ g[x] \in Nat /\ h[x] = f[x] + g[x]
  PROVE  SumOver(h, S) = SumOver(f, S) + SumOver(g, S)
<1> DEFINE G == {T \in SUBSET S : SumOver(h, T) = SumOver(f, T) + SumOver(g, T)}
<1>1. {} \in G
  BY SumEmpty
<1>2. ASSUME NEW T \in SUBSET S, T # {}, \A x \in T : T \ {x} \in G PROVE T \in G
  <2> DEFINE x == Taken(T)
  <2>1. /\ x \in T
        /\ SumOver(f, T) = f[x] + SumOver(f, T \ {x})
        /\ SumOver(g, T) = g[x] + SumOver(g, T \ {x})
        /\ SumOver(h, T) = h[x] + SumOver(h, T \ {x})
    BY <1>2, TakenIs, SumTaken, FS_Subset
  <2> HIDE DEF x
  <2>2. SumOver(h, T \ {x}) = SumOver(f, T \ {x}) + SumOver(g, T \ {x})
    BY <1>2, <2>1
  <2>3. T \ {x} \in SUBSET S
    OBVIOUS
  <2>4. SumOver(f, T \ {x}) \in Nat /\ SumOver(g, T \ {x}) \in Nat
    BY <2>3, SumNat
  <2>5. f[x] \in Nat /\ g[x] \in Nat /\ h[x] = f[x] + g[x]
    BY <2>1
  <2>6. SumOver(h, T) = SumOver(f, T) + SumOver(g, T)
    BY <2>1, <2>2, <2>4, <2>5
  <2> QED
    BY <2>6
<1>3. \A T \in SUBSET S : T # {} /\ (\A x \in T : T \ {x} \in G) => T \in G
  BY <1>2
<1> HIDE DEF G
<1>4. \A T \in SUBSET S : T \in G
  BY <1>1, <1>3, SubsetInduction
<1> QED
  BY <1>4 DEF G

\* When one value changes, the sum changes with it.
LEMMA SumMoves ==
  ASSUME NEW S, IsFiniteSet(S), NEW f, NEW g, NEW t \in S,
         \A x \in S : f[x] \in Nat /\ g[x] \in Nat,
         \A x \in S \ {t} : f[x] = g[x]
  PROVE  SumOver(g, S) + f[t] = SumOver(f, S) + g[t]
<1>1. S \ {t} \in SUBSET S /\ IsFiniteSet(S \ {t})
  BY FS_Subset
<1>2. SumOver(f, S) = f[t] + SumOver(f, S \ {t}) /\ SumOver(g, S) = g[t] + SumOver(g, S \ {t})
  BY SumAny
<1>3. SumOver(f, S \ {t}) = SumOver(g, S \ {t})
  BY <1>1, SumSame
<1>4. SumOver(f, S \ {t}) \in Nat
  BY <1>1, SumNat
<1> QED
  BY <1>2, <1>3, <1>4

\* The sum of equal values.
LEMMA SumConstant ==
  ASSUME NEW S, IsFiniteSet(S), NEW f, NEW c \in Nat, \A x \in S : f[x] = c
  PROVE  SumOver(f, S) = c * Cardinality(S)
<1> DEFINE G == {T \in SUBSET S : SumOver(f, T) = c * Cardinality(T)}
<1>1. {} \in G
  BY SumEmpty, FS_EmptySet
<1>2. ASSUME NEW T \in SUBSET S, T # {}, \A x \in T : T \ {x} \in G PROVE T \in G
  <2> DEFINE x == Taken(T)
             k == Cardinality(T)
  <2>1. x \in T /\ SumOver(f, T) = f[x] + SumOver(f, T \ {x}) /\ IsFiniteSet(T) /\ k \in Nat
    BY <1>2, TakenIs, SumTaken, FS_Subset, FS_CardinalityType
  <2>2. Cardinality(T \ {x}) = k - 1
    BY <2>1, FS_RemoveElement
  <2> HIDE DEF x, k
  <2>3. SumOver(f, T \ {x}) = c * (k - 1) /\ f[x] = c
    BY <1>2, <2>1, <2>2
  <2>4. c + c * (k - 1) = c * k
    BY <2>1
  <2>5. SumOver(f, T) = c * k
    BY <2>1, <2>3, <2>4
  <2> QED
    BY <2>5 DEF k
<1>3. \A T \in SUBSET S : T # {} /\ (\A x \in T : T \ {x} \in G) => T \in G
  BY <1>2
<1> HIDE DEF G
<1>4. \A T \in SUBSET S : T \in G
  BY <1>1, <1>3, SubsetInduction
<1> QED
  BY <1>4 DEF G

\* The sum of the first values of a sequence, and of all of them
SumTo(s, n) == SumOver(s, 1..n)

LEMMA SumToIs ==
  ASSUME NEW s \in Seq(Nat)
  PROVE  /\ Len(s) \in Nat /\ Total(s) = SumTo(s, Len(s))
         /\ \A n \in 0..Len(s) : SumTo(s, n) \in Nat
         /\ SumTo(s, 0) = 0
         /\ \A n \in 1..Len(s) : SumTo(s, n) = SumTo(s, n - 1) + s[n]
<1>1. Len(s) \in Nat /\ DOMAIN s = 1..Len(s) /\ \A n \in 1..Len(s) : s[n] \in Nat
  BY LenProperties, ElementOfSeq
<1>2. Total(s) = SumTo(s, Len(s))
  BY <1>1, TotalIs DEF SumTo
<1>3. ASSUME NEW n \in 0..Len(s) PROVE IsFiniteSet(1..n) /\ \A x \in 1..n : s[x] \in Nat
  BY <1>1, OneTo
<1>4. \A n \in 0..Len(s) : SumTo(s, n) \in Nat
  BY <1>3, SumNat DEF SumTo
<1>5. SumTo(s, 0) = 0
  <2>1. 1..0 = {}
    OBVIOUS
  <2> QED
    BY <2>1, SumEmpty DEF SumTo
<1>6. ASSUME NEW n \in 1..Len(s) PROVE SumTo(s, n) = SumTo(s, n - 1) + s[n]
  <2>1. n \in 0..Len(s) /\ n - 1 \in 0..Len(s) /\ n \in 1..n /\ (1..n) \ {n} = 1..(n - 1)
    BY <1>1
  <2>4. SumOver(s, 1..n) = s[n] + SumOver(s, (1..n) \ {n})
    BY <1>3, <2>1, SumAny
  <2>2. SumTo(s, n) = s[n] + SumTo(s, n - 1)
    BY <2>1, <2>4 DEF SumTo
  <2>3. SumTo(s, n - 1) \in Nat /\ s[n] \in Nat
    BY <1>1, <1>4, <2>1
  <2> QED
    BY <2>2, <2>3
<1> QED
  BY <1>1, <1>2, <1>4, <1>5, <1>6

LEMMA SumToSame ==
  ASSUME NEW s, NEW r, NEW n \in Nat, \A x \in 1..n : s[x] = r[x]
  PROVE  SumTo(s, n) = SumTo(r, n)
BY OneTo, SumSame DEF SumTo

LEMMA TotalAppend ==
  ASSUME NEW s \in Seq(Nat), NEW e \in Nat
  PROVE  /\ Append(s, e) \in Seq(Nat) /\ Len(Append(s, e)) = Len(s) + 1
         /\ SumTo(Append(s, e), Len(s)) = Total(s)
<1>1. /\ Append(s, e) \in Seq(Nat) /\ Len(Append(s, e)) = Len(s) + 1
      /\ \A n \in 1..Len(s) : Append(s, e)[n] = s[n]
  BY AppendProperties
<1>2. Len(s) \in Nat /\ Total(s) = SumTo(s, Len(s))
  BY SumToIs
<1> QED
  BY <1>1, <1>2, SumToSame

\* What is merged is added.
LEMMA TotalConcat ==
  ASSUME NEW s \in Seq(Nat), NEW r \in Seq(Nat)
  PROVE  Total(s \o r) = Total(s) + Total(r)
<1> DEFINE c == s \o r
           G == {n \in Nat : n <= Len(r) => SumTo(c, Len(s) + n) = Total(s) + SumTo(r, n)}
<1>1. Len(s) \in Nat /\ Len(r) \in Nat
  BY LenProperties
<1>2. /\ c \in Seq(Nat) /\ Len(c) = Len(s) + Len(r)
      /\ \A n \in 1..(Len(s) + Len(r)) : c[n] = IF n <= Len(s) THEN s[n] ELSE r[n - Len(s)]
  BY ConcatProperties
<1> HIDE DEF c
<1>3. /\ Total(s) = SumTo(s, Len(s)) /\ Total(s) \in Nat
      /\ Total(r) = SumTo(r, Len(r)) /\ SumTo(r, 0) = 0
      /\ \A n \in 0..Len(r) : SumTo(r, n) \in Nat
      /\ \A n \in 1..Len(r) : SumTo(r, n) = SumTo(r, n - 1) + r[n]
      /\ Total(c) = SumTo(c, Len(c))
      /\ \A n \in 1..Len(c) : SumTo(c, n) = SumTo(c, n - 1) + c[n]
  <2>1. Total(s) = SumTo(s, Len(s)) /\ \A n \in 0..Len(s) : SumTo(s, n) \in Nat
    BY SumToIs
  <2>2. Len(s) \in 0..Len(s)
    BY <1>1
  <2>3. /\ Total(r) = SumTo(r, Len(r)) /\ SumTo(r, 0) = 0
        /\ \A n \in 0..Len(r) : SumTo(r, n) \in Nat
        /\ \A n \in 1..Len(r) : SumTo(r, n) = SumTo(r, n - 1) + r[n]
    BY SumToIs
  <2>4. /\ Total(c) = SumTo(c, Len(c))
        /\ \A n \in 1..Len(c) : SumTo(c, n) = SumTo(c, n - 1) + c[n]
    BY <1>2, SumToIs
  <2> QED
    BY <2>1, <2>2, <2>3, <2>4
<1>4. 0 \in G
  <2>1. \A n \in 1..Len(s) : c[n] = s[n]
    BY <1>1, <1>2
  <2>2. SumTo(c, Len(s)) = SumTo(s, Len(s))
    BY <1>1, <2>1, SumToSame
  <2>3. Len(s) + 0 = Len(s)
    BY <1>1
  <2> QED
    BY <1>3, <2>2, <2>3
<1>5. ASSUME NEW n \in Nat, n \in G PROVE n + 1 \in G
  <2> SUFFICES ASSUME n + 1 <= Len(r)
               PROVE  SumTo(c, Len(s) + (n + 1)) = Total(s) + SumTo(r, n + 1)
    OBVIOUS
  <2> DEFINE m == Len(s) + (n + 1)
  <2>1. n + 1 \in 1..Len(r) /\ n \in 0..Len(r) /\ n + 1 \in 0..Len(r) /\ (n + 1) - 1 = n
    BY <1>1
  <2>7. /\ m \in 1..(Len(s) + Len(r)) /\ ~(m <= Len(s)) /\ m - Len(s) = n + 1
        /\ m - 1 = Len(s) + n
    BY <1>1
  <2>8. m \in 1..Len(c)
    BY <1>2, <2>7
  <2> HIDE DEF m
  <2>2. c[m] = r[n + 1]
    BY <1>2, <2>7
  <2>3. SumTo(c, m) = SumTo(c, Len(s) + n) + r[n + 1]
    BY <1>3, <2>2, <2>7, <2>8
  <2>4. SumTo(r, n + 1) = SumTo(r, n) + r[n + 1] /\ r[n + 1] \in Nat /\ SumTo(r, n) \in Nat
    BY <1>3, <2>1, ElementOfSeq
  <2>5. SumTo(c, Len(s) + n) = Total(s) + SumTo(r, n)
    BY <1>1, <1>5, <2>1
  <2>6. SumTo(c, m) = Total(s) + SumTo(r, n + 1)
    BY <1>3, <2>3, <2>4, <2>5
  <2> QED
    BY <2>6 DEF m
<1> HIDE DEF G
<1>6. \A n \in Nat : n \in G
  BY <1>4, <1>5, NumberInduction
<1>7. SumTo(c, Len(s) + Len(r)) = Total(s) + SumTo(r, Len(r))
  BY <1>1, <1>6 DEF G
<1> QED
  BY <1>2, <1>3, <1>7 DEF c

-----------------------------------------------------------------------------
(* The invariant                                                           *)

Waiting == {"recv", "count", "add"}

Args ==
  /\ queries \in 0..MaxQueries /\ threads \in 0..MaxThreads /\ host_ok \in BOOLEAN
  /\ mpc \in {"args", "launch", "join", "report", "exited"} /\ next \in 1..(MaxThreads + 1)
  /\ mpc \in {"launch", "join"} => next <= threads
  /\ mpc = "args" => next = 1

Threads ==
  /\ tpc \in [Thread -> {"none", "socket", "loop", "recv", "count", "add", "merge", "done"}]
  /\ i \in [Thread -> Nat] /\ missed \in [Thread -> Nat]
  /\ \A t \in Thread : i[t] <= ShareOf(t) /\ (tpc[t] \in Waiting => i[t] < ShareOf(t))

Latencies ==
  /\ local_latencies \in [Thread -> Seq(Latency)] /\ latencies_out \in Seq(Latency)
  /\ \A t \in Thread : tpc[t] \in {"count", "add"} => local_latencies[t] # <<>>
  /\ count \in [Category -> Nat] /\ us_total \in [Category -> Nat]

\* The threads that main() has not launched yet
Unlaunched ==
  \A t \in Thread : mpc = "args" \/ (mpc = "launch" /\ t >= next) => tpc[t] = "none"

\* A thread that is not waiting is owed no more answers than it gave up queries;
\* one that is may be owed the answer it waits for besides.
Owed(t) ==
  /\ IsFiniteSet(coming[t])
  /\ Cardinality(IF tpc[t] = "recv" THEN coming[t] \ {i[t]} ELSE coming[t]) <= missed[t]

Network ==
  /\ coming \in [Thread -> SUBSET Nat]
  /\ \A t \in Thread : Owed(t)

IInv == Args /\ Threads /\ Unlaunched /\ Latencies /\ Network

LEMMA Shares == ASSUME Args, NEW t \in Thread PROVE ShareOf(t) \in Nat
<1>1. queries \in Nat /\ threads \in Nat \ {0} /\ t \in 1..threads
  BY BenchmarkAssumption DEF Args, Thread
<1> QED
  BY <1>1 DEF ShareOf, Share

LEMMA Categories == \A n : CategoryOf(n) \in Category
BY DEF CategoryOf, Category

LEMMA InitInvariant == Init => IInv
<1> SUFFICES ASSUME Init PROVE IInv
  OBVIOUS
<1>1. Args
  BY BenchmarkAssumption DEF Init, Args
<1>2. \A t \in Thread : ShareOf(t) \in Nat
  BY <1>1, Shares
<1>3. Threads
  BY <1>2 DEF Init, Threads, Waiting
<1>4. Latencies
  BY EmptySeq DEF Init, Latencies
<1>5. Network
  BY FS_EmptySet DEF Init, Network, Owed
<1>6. Unlaunched
  BY DEF Init, Unlaunched
<1> QED
  BY <1>1, <1>3, <1>4, <1>5, <1>6 DEF IInv

\* A step of main() launches a thread at most.
LEMMA MainInvariant == ASSUME IInv, MainStep PROVE IInv'
<1> USE DEF IInv, Main, args, sums
<1>1. UNCHANGED <<args, i, coming, local_latencies, sums, missed>> /\ Thread' = Thread
  BY DEF MainStep, Usage, Begin, Launch, Join, Report, Advance, Thread
<1>2. /\ queries \in Nat /\ threads \in Nat /\ MaxThreads \in Nat /\ next \in Nat
      /\ threads <= MaxThreads /\ Thread = 1..threads
  BY BenchmarkAssumption DEF Args, Thread
<1>3. Args'
  BY <1>2 DEF MainStep, Usage, Begin, Launch, Join, Report, Advance, Args
<1>4. \/ tpc' = tpc
      \/ mpc = "launch" /\ tpc' = [tpc EXCEPT ![next] = "socket"]
  BY DEF MainStep, Usage, Begin, Launch, Join, Report, Advance
<1>9. \A t \in Thread : tpc'[t] = tpc[t] \/ (tpc[t] = "none" /\ tpc'[t] = "socket")
  BY <1>2, <1>4 DEF Threads, Unlaunched
<1>5. \A t \in Thread : ShareOf(t)' = ShareOf(t)
  BY <1>1 DEF ShareOf, Share
<1>6. Threads'
  BY <1>1, <1>4, <1>5, <1>9 DEF Threads, Waiting
<1>7. Latencies'
  BY <1>1, <1>9 DEF Latencies
<1>8. Network'
  BY <1>1, <1>9 DEF Network, Owed
<1>10. Unlaunched'
  BY <1>1, <1>2 DEF MainStep, Usage, Begin, Launch, Join, Report, Advance, Threads, Unlaunched
<1> QED
  BY <1>3, <1>6, <1>7, <1>8, <1>10

-----------------------------------------------------------------------------
(* The steps of a thread and of the network                                *)

Places == {"none", "socket", "loop", "recv", "count", "add", "merge", "done"}

\* A thread that moves on is launched and leaves main() and the others alone.
LEMMA Going ==
  ASSUME IInv, NEW t \in Thread, NEW from, NEW to \in Places, from # "none", Go(t, from, to)
  PROVE  /\ Args' /\ Unlaunched' /\ Thread' = Thread
         /\ \A u \in Thread : ShareOf(u)' = ShareOf(u) /\ ShareOf(u) \in Nat
         /\ tpc[t] = from /\ tpc' \in [Thread -> Places]
         /\ \A u \in Thread : tpc'[u] = IF u = t THEN to ELSE tpc[u]
<1> USE DEF IInv
<1>1. /\ UNCHANGED <<queries, threads, host_ok, mpc, next>>
      /\ tpc[t] = from /\ tpc' = [tpc EXCEPT ![t] = to]
  BY DEF Go, args, main
<1>2. Thread' = Thread /\ \A u \in Thread : ShareOf(u)' = ShareOf(u) /\ ShareOf(u) \in Nat
  BY <1>1, Shares DEF Thread, ShareOf, Share
<1>3. Args'
  BY <1>1 DEF Args
<1>4. tpc' \in [Thread -> Places] /\ \A u \in Thread : tpc'[u] = IF u = t THEN to ELSE tpc[u]
  BY <1>1 DEF Threads, Places
<1>5. Unlaunched'
  BY <1>1, <1>2, <1>4 DEF Unlaunched
<1> QED
  BY <1>1, <1>2, <1>3, <1>4, <1>5

\* One query more, or one less, that may still be answered
LEMMA Cards ==
  ASSUME NEW S, IsFiniteSet(S), NEW x
  PROVE  /\ IsFiniteSet(S \ {x}) /\ IsFiniteSet(S \cup {x})
         /\ Cardinality(S) \in Nat /\ Cardinality(S \ {x}) \in Nat
         /\ Cardinality(S \ {x}) <= Cardinality(S)
         /\ Cardinality(S) <= Cardinality(S \ {x}) + 1
<1>1. /\ IsFiniteSet(S \ {x})
      /\ Cardinality(S \ {x}) = IF x \in S THEN Cardinality(S) - 1 ELSE Cardinality(S)
  BY FS_RemoveElement
<1>2. IsFiniteSet(S \cup {x})
  BY FS_AddElement
<1>3. Cardinality(S) \in Nat /\ Cardinality(S \ {x}) \in Nat
  BY <1>1, FS_CardinalityType
<1> QED
  BY <1>1, <1>2, <1>3

\* The steps that leave the network alone
LEMMA QuietInvariant ==
  ASSUME IInv, NEW t \in Thread,
         NoSocket(t) \/ Socket(t) \/ CountQuery(t) \/ AddTime(t) \/ Close(t) \/ Merge(t)
  PROVE  IInv'
<1> USE DEF IInv
<1>1. CASE NoSocket(t) \/ Socket(t)
  <2>1. UNCHANGED <<i, coming, local_latencies, latencies_out, count, us_total, missed>>
    BY <1>1 DEF NoSocket, Socket, sums
  <2>2. PICK to \in {"loop", "done"} : Go(t, "socket", to)
    BY <1>1 DEF NoSocket, Socket
  <2>3. /\ Args' /\ Unlaunched' /\ Thread' = Thread
        /\ \A u \in Thread : ShareOf(u)' = ShareOf(u) /\ ShareOf(u) \in Nat
        /\ tpc[t] = "socket" /\ tpc' \in [Thread -> Places]
        /\ \A u \in Thread : tpc'[u] = IF u = t THEN to ELSE tpc[u]
    BY <2>2, Going DEF Places
  <2>7. \A u \in Thread : tpc'[u] \in Waiting <=> tpc[u] \in Waiting
    BY <2>3 DEF Waiting
  <2>4. Threads'
    BY <2>1, <2>3, <2>7 DEF Threads, Places
  <2>5. Latencies'
    BY <2>1, <2>3 DEF Latencies
  <2>6. Network'
    BY <2>1, <2>3 DEF Network, Owed
  <2> QED
    BY <2>3, <2>4, <2>5, <2>6
<1>2. CASE CountQuery(t)
  <2>1. /\ UNCHANGED <<i, coming, local_latencies, latencies_out, us_total, missed>>
        /\ count' = [count EXCEPT ![CategoryOf(i[t])] = @ + 1]
        /\ Go(t, "count", "add")
    BY <1>2 DEF CountQuery
  <2>2. /\ Args' /\ Unlaunched' /\ Thread' = Thread
        /\ \A u \in Thread : ShareOf(u)' = ShareOf(u) /\ ShareOf(u) \in Nat
        /\ tpc[t] = "count" /\ tpc' \in [Thread -> Places]
        /\ \A u \in Thread : tpc'[u] = IF u = t THEN "add" ELSE tpc[u]
    BY <2>1, Going DEF Places
  <2>3. Threads'
    BY <2>1, <2>2 DEF Threads, Waiting, Places
  <2>4. count' \in [Category -> Nat]
    BY <2>1, Categories DEF Latencies
  <2>5. Latencies'
    BY <2>1, <2>2, <2>4 DEF Latencies
  <2>7. \A u \in Thread : Owed(u)'
    BY <2>1, <2>2 DEF Network, Owed
  <2>6. Network'
    BY <2>1, <2>2, <2>7 DEF Network
  <2> QED
    BY <2>2, <2>3, <2>5, <2>6
<1>3. CASE AddTime(t)
  <2> DEFINE lat == local_latencies[t][Len(local_latencies[t])]
  <2>1. /\ UNCHANGED <<coming, local_latencies, latencies_out, count, missed>>
        /\ us_total' = [us_total EXCEPT ![CategoryOf(i[t])] = @ + lat]
        /\ i' = [i EXCEPT ![t] = @ + 1]
        /\ Go(t, "add", "loop")
    BY <1>3 DEF AddTime
  <2>2. /\ Args' /\ Unlaunched' /\ Thread' = Thread
        /\ \A u \in Thread : ShareOf(u)' = ShareOf(u) /\ ShareOf(u) \in Nat
        /\ tpc[t] = "add" /\ tpc' \in [Thread -> Places]
        /\ \A u \in Thread : tpc'[u] = IF u = t THEN "loop" ELSE tpc[u]
    BY <2>1, Going DEF Places
  <2>3. i[t] \in Nat /\ i[t] < ShareOf(t)
    BY <2>2 DEF Threads, Waiting
  <2>9. /\ i' \in [Thread -> Nat] /\ i'[t] = i[t] + 1
        /\ \A u \in Thread \ {t} : i'[u] = i[u]
    BY <2>1 DEF Threads
  <2>10. i'[t] <= ShareOf(t) /\ tpc'[t] \notin Waiting
    BY <2>2, <2>3, <2>9 DEF Waiting
  <2>4. Threads'
    BY <2>1, <2>2, <2>9, <2>10 DEF Threads, Places
  <2>5. lat \in Nat
    <3>1. local_latencies[t] \in Seq(Latency) /\ local_latencies[t] # <<>>
      BY <2>2 DEF Latencies
    <3>2. Len(local_latencies[t]) \in 1..Len(local_latencies[t])
      BY <3>1, LenProperties, EmptySeq
    <3>3. lat \in Latency
      BY <3>1, <3>2, ElementOfSeq
    <3> QED
      BY <3>3, BenchmarkAssumption
  <2>6. us_total' \in [Category -> Nat]
    <3> HIDE DEF lat
    <3> QED
      BY <2>1, <2>5, Categories DEF Latencies
  <2>7. Latencies'
    BY <2>1, <2>2, <2>6 DEF Latencies
  <2>11. Owed(t)'
    BY <2>1, <2>2 DEF Network, Owed
  <2>12. \A u \in Thread \ {t} : Owed(u)'
    BY <2>1, <2>2, <2>9 DEF Network, Owed
  <2>8. Network'
    BY <2>1, <2>2, <2>11, <2>12 DEF Network
  <2> QED
    BY <2>2, <2>4, <2>7, <2>8
<1>4. CASE Close(t)
  <2>1. /\ UNCHANGED <<i, local_latencies, latencies_out, count, us_total, missed>>
        /\ coming' = [coming EXCEPT ![t] = {}]
        /\ Go(t, "loop", "merge")
    BY <1>4 DEF Close, sums
  <2>2. /\ Args' /\ Unlaunched' /\ Thread' = Thread
        /\ \A u \in Thread : ShareOf(u)' = ShareOf(u) /\ ShareOf(u) \in Nat
        /\ tpc[t] = "loop" /\ tpc' \in [Thread -> Places]
        /\ \A u \in Thread : tpc'[u] = IF u = t THEN "merge" ELSE tpc[u]
    BY <2>1, Going DEF Places
  <2>3. Threads'
    BY <2>1, <2>2 DEF Threads, Waiting, Places
  <2>4. Latencies'
    BY <2>1, <2>2 DEF Latencies
  <2>5. coming' \in [Thread -> SUBSET Nat] /\ coming'[t] = {}
    BY <2>1 DEF Network
  <2>6. IsFiniteSet({}) /\ Cardinality({}) = 0 /\ missed[t] \in Nat
    BY FS_EmptySet DEF Threads
  <2>7. Network'
    BY <2>1, <2>2, <2>5, <2>6 DEF Network, Owed
  <2> QED
    BY <2>2, <2>3, <2>4, <2>7
<1>5. CASE Merge(t)
  <2>1. /\ UNCHANGED <<i, coming, local_latencies, count, us_total, missed>>
        /\ latencies_out' = latencies_out \o local_latencies[t]
        /\ Go(t, "merge", "done")
    BY <1>5 DEF Merge
  <2>2. /\ Args' /\ Unlaunched' /\ Thread' = Thread
        /\ \A u \in Thread : ShareOf(u)' = ShareOf(u) /\ ShareOf(u) \in Nat
        /\ tpc[t] = "merge" /\ tpc' \in [Thread -> Places]
        /\ \A u \in Thread : tpc'[u] = IF u = t THEN "done" ELSE tpc[u]
    BY <2>1, Going DEF Places
  <2>3. Threads'
    BY <2>1, <2>2 DEF Threads, Waiting, Places
  <2>4. latencies_out' \in Seq(Latency)
    BY <2>1, ConcatProperties DEF Latencies
  <2>5. Latencies'
    BY <2>1, <2>2, <2>4 DEF Latencies
  <2>6. Network'
    BY <2>1, <2>2 DEF Network, Owed
  <2> QED
    BY <2>2, <2>3, <2>5, <2>6
<1> QED
  BY <1>1, <1>2, <1>3, <1>4, <1>5

\* A query that is sent is the one the thread waits for.
LEMMA SendInvariant == ASSUME IInv, NEW t \in Thread, Send(t) PROVE IInv'
<1> USE DEF IInv
<1>1. /\ UNCHANGED <<i, local_latencies, latencies_out, count, us_total, missed>>
      /\ coming' = [coming EXCEPT ![t] = @ \cup {i[t]}]
      /\ i[t] < ShareOf(t) /\ Go(t, "loop", "recv")
  BY DEF Send, sums
<1>2. /\ Args' /\ Unlaunched' /\ Thread' = Thread
      /\ \A u \in Thread : ShareOf(u)' = ShareOf(u) /\ ShareOf(u) \in Nat
      /\ tpc[t] = "loop" /\ tpc' \in [Thread -> Places]
      /\ \A u \in Thread : tpc'[u] = IF u = t THEN "recv" ELSE tpc[u]
  BY <1>1, Going DEF Places
<1>3. Threads'
  BY <1>1, <1>2 DEF Threads, Waiting, Places
<1>4. Latencies'
  BY <1>1, <1>2 DEF Latencies
<1>5. coming' \in [Thread -> SUBSET Nat] /\ coming'[t] = coming[t] \cup {i[t]}
  BY <1>1 DEF Network, Threads
<1>6. IsFiniteSet(coming[t]) /\ Cardinality(coming[t]) <= missed[t] /\ missed[t] \in Nat
  BY <1>2 DEF Network, Owed, Threads
<1>7. IsFiniteSet(coming'[t]) /\ Cardinality(coming'[t] \ {i[t]}) <= missed[t]
  <2>1. coming'[t] \ {i[t]} = coming[t] \ {i[t]}
    BY <1>5
  <2>2. /\ IsFiniteSet(coming[t] \cup {i[t]}) /\ Cardinality(coming[t]) \in Nat
        /\ Cardinality(coming[t] \ {i[t]}) \in Nat
        /\ Cardinality(coming[t] \ {i[t]}) <= Cardinality(coming[t])
    BY <1>6, Cards
  <2> QED
    BY <1>5, <1>6, <2>1, <2>2
<1>8. Owed(t)'
  BY <1>1, <1>2, <1>7 DEF Owed
<1>9. \A u \in Thread \ {t} : Owed(u)'
  BY <1>1, <1>2 DEF Network, Owed
<1>10. Network'
  BY <1>2, <1>5, <1>8, <1>9 DEF Network
<1> QED
  BY <1>2, <1>3, <1>4, <1>10

\* A query that is given up is owed, but counted as missed.
LEMMA NoAnswerInvariant ==
  ASSUME IInv, NEW t \in Thread, SendFails(t) \/ Timeout(t)
  PROVE  IInv'
<1> USE DEF IInv
<1>1. /\ UNCHANGED <<coming, local_latencies, latencies_out, count, us_total>>
      /\ i' = [i EXCEPT ![t] = @ + 1] /\ missed' = [missed EXCEPT ![t] = @ + 1]
  BY DEF SendFails, Timeout, NoAnswer, sums
<1>2. PICK from \in {"loop", "recv"} : Go(t, from, "loop")
  BY DEF SendFails, Timeout
<1>3. /\ Args' /\ Unlaunched' /\ Thread' = Thread
      /\ \A u \in Thread : ShareOf(u)' = ShareOf(u) /\ ShareOf(u) \in Nat
      /\ tpc[t] = from /\ tpc' \in [Thread -> Places]
      /\ \A u \in Thread : tpc'[u] = IF u = t THEN "loop" ELSE tpc[u]
  BY <1>2, Going DEF Places
<1>4. i[t] < ShareOf(t)
  BY <1>3 DEF SendFails, Timeout, Go, Threads, Waiting
<1>12. /\ i' \in [Thread -> Nat] /\ missed' \in [Thread -> Nat] /\ i'[t] = i[t] + 1
       /\ \A u \in Thread \ {t} : i'[u] = i[u]
  BY <1>1 DEF Threads
<1>13. i'[t] <= ShareOf(t) /\ tpc'[t] \notin Waiting
  BY <1>3, <1>4, <1>12 DEF Waiting, Threads
<1>5. Threads'
  BY <1>3, <1>12, <1>13 DEF Threads, Places
<1>6. Latencies'
  BY <1>1, <1>3 DEF Latencies
<1>7. /\ IsFiniteSet(coming[t]) /\ missed[t] \in Nat /\ missed'[t] = missed[t] + 1
      /\ Cardinality(IF tpc[t] = "recv" THEN coming[t] \ {i[t]} ELSE coming[t]) <= missed[t]
  BY <1>1 DEF Network, Owed, Threads
<1>8. Cardinality(coming[t]) <= missed'[t]
  <2>1. /\ Cardinality(coming[t]) \in Nat /\ Cardinality(coming[t] \ {i[t]}) \in Nat
        /\ Cardinality(coming[t]) <= Cardinality(coming[t] \ {i[t]}) + 1
    BY <1>7, Cards
  <2> QED
    BY <1>7, <2>1
<1>9. Owed(t)'
  BY <1>1, <1>3, <1>7, <1>8 DEF Owed
<1>10. \A u \in Thread \ {t} : Owed(u)'
  BY <1>1, <1>3 DEF Network, Owed, Threads
<1>11. Network'
  BY <1>1, <1>3, <1>9, <1>10 DEF Network
<1> QED
  BY <1>3, <1>5, <1>6, <1>11

\* An answer that is taken is owed no more, whichever query it is to.
LEMMA ReceiveInvariant ==
  ASSUME IInv, NEW t \in Thread, NEW n \in coming[t], NEW lat \in Latency, Receive(t, n, lat)
  PROVE  IInv'
<1> USE DEF IInv
<1>1. /\ UNCHANGED <<i, latencies_out, count, us_total, missed>>
      /\ coming' = [coming EXCEPT ![t] = @ \ {n}]
      /\ local_latencies' = [local_latencies EXCEPT ![t] = Append(@, lat)]
      /\ Go(t, "recv", "count")
  BY DEF Receive, sums
<1>2. /\ Args' /\ Unlaunched' /\ Thread' = Thread
      /\ \A u \in Thread : ShareOf(u)' = ShareOf(u) /\ ShareOf(u) \in Nat
      /\ tpc[t] = "recv" /\ tpc' \in [Thread -> Places]
      /\ \A u \in Thread : tpc'[u] = IF u = t THEN "count" ELSE tpc[u]
  BY <1>1, Going DEF Places
<1>3. Threads'
  BY <1>1, <1>2 DEF Threads, Waiting, Places
<1>4. /\ local_latencies' \in [Thread -> Seq(Latency)]
      /\ \A u \in Thread : tpc'[u] \in {"count", "add"} => local_latencies'[u] # <<>>
  <2>1. Append(local_latencies[t], lat) \in Seq(Latency) /\ Append(local_latencies[t], lat) # <<>>
    BY AppendProperties DEF Latencies
  <2> HIDE DEF Latencies
  <2>2. local_latencies \in [Thread -> Seq(Latency)]
    BY DEF Latencies
  <2>3. \A u \in Thread \ {t} : tpc[u] \in {"count", "add"} => local_latencies[u] # <<>>
    BY DEF Latencies
  <2>4. local_latencies'[t] # <<>>
    BY <1>1, <2>1, <2>2
  <2>5. \A u \in Thread \ {t} : local_latencies'[u] = local_latencies[u]
    BY <1>1, <2>2
  <2> QED
    BY <1>1, <1>2, <2>1, <2>2, <2>3, <2>4, <2>5
<1>5. Latencies'
  BY <1>1, <1>2, <1>4 DEF Latencies
<1>6. coming' \in [Thread -> SUBSET Nat] /\ coming'[t] = coming[t] \ {n}
  BY <1>1 DEF Network
<1>7. /\ IsFiniteSet(coming[t]) /\ missed[t] \in Nat
      /\ Cardinality(coming[t] \ {i[t]}) <= missed[t]
  BY <1>2 DEF Network, Owed, Threads
<1>8. IsFiniteSet(coming'[t]) /\ Cardinality(coming'[t]) <= missed[t]
  <2>1. /\ IsFiniteSet(coming[t] \ {n}) /\ IsFiniteSet(coming[t] \ {i[t]})
        /\ Cardinality(coming[t] \ {n}) \in Nat /\ Cardinality(coming[t] \ {i[t]}) \in Nat
        /\ Cardinality(coming[t]) \in Nat
        /\ Cardinality(coming[t]) <= Cardinality(coming[t] \ {i[t]}) + 1
    BY <1>7, Cards
  <2>2. Cardinality(coming[t] \ {n}) = Cardinality(coming[t]) - 1
    BY <1>7, FS_RemoveElement
  <2> QED
    BY <1>6, <1>7, <2>1, <2>2
<1>9. Owed(t)'
  BY <1>1, <1>2, <1>8 DEF Owed
<1>10. \A u \in Thread \ {t} : Owed(u)'
  BY <1>1, <1>2 DEF Network, Owed
<1>11. Network'
  BY <1>2, <1>6, <1>9, <1>10 DEF Network
<1> QED
  BY <1>2, <1>3, <1>5, <1>11

\* What is lost is owed no more.
LEMMA LoseInvariant ==
  ASSUME IInv, NEW t \in Thread, NEW n \in coming[t], Lose(t, n)
  PROVE  IInv'
<1> USE DEF IInv
<1>1. /\ UNCHANGED <<queries, threads, host_ok, mpc, next, tpc, i, local_latencies,
                     latencies_out, count, us_total, missed>>
      /\ coming' = [coming EXCEPT ![t] = @ \ {n}]
  BY DEF Lose, args, main, sums
<1>2. Thread' = Thread /\ \A u \in Thread : ShareOf(u)' = ShareOf(u)
  BY <1>1 DEF Thread, ShareOf, Share
<1>3. Args' /\ Threads' /\ Latencies' /\ Unlaunched'
  BY <1>1, <1>2 DEF Args, Threads, Latencies, Unlaunched
<1>4. coming' \in [Thread -> SUBSET Nat] /\ coming'[t] = coming[t] \ {n}
  BY <1>1 DEF Network
<1>5. /\ IsFiniteSet(coming[t]) /\ missed[t] \in Nat
      /\ Cardinality(IF tpc[t] = "recv" THEN coming[t] \ {i[t]} ELSE coming[t]) <= missed[t]
  BY DEF Network, Owed, Threads
<1>6. /\ IsFiniteSet(coming'[t])
      /\ Cardinality(IF tpc[t] = "recv" THEN coming'[t] \ {i[t]} ELSE coming'[t]) <= missed[t]
  <2>1. /\ IsFiniteSet(coming[t] \ {n}) /\ IsFiniteSet(coming[t] \ {i[t]})
        /\ Cardinality(coming[t]) \in Nat /\ Cardinality(coming[t] \ {n}) \in Nat
        /\ Cardinality(coming[t] \ {i[t]}) \in Nat
        /\ Cardinality(coming[t] \ {n}) <= Cardinality(coming[t])
    BY <1>5, Cards
  <2>2. /\ Cardinality((coming[t] \ {i[t]}) \ {n}) \in Nat
        /\ Cardinality((coming[t] \ {i[t]}) \ {n}) <= Cardinality(coming[t] \ {i[t]})
    BY <2>1, Cards
  <2>3. (coming[t] \ {n}) \ {i[t]} = (coming[t] \ {i[t]}) \ {n}
    OBVIOUS
  <2>4. CASE tpc[t] = "recv"
    <3>1. coming'[t] \ {i[t]} = (coming[t] \ {i[t]}) \ {n}
      BY <1>4, <2>3
    <3>2. Cardinality(coming[t] \ {i[t]}) <= missed[t]
      BY <1>5, <2>4
    <3>3. Cardinality(coming'[t] \ {i[t]}) <= missed[t]
      BY <1>5, <2>1, <2>2, <3>1, <3>2
    <3> QED
      BY <1>4, <2>1, <2>4, <3>3
  <2>5. CASE tpc[t] # "recv"
    BY <1>4, <1>5, <2>1, <2>5
  <2> QED
    BY <2>4, <2>5
<1>7. Owed(t)'
  BY <1>1, <1>6 DEF Owed
<1>8. \A u \in Thread \ {t} : Owed(u)'
  BY <1>1 DEF Network, Owed
<1>9. Network'
  BY <1>2, <1>4, <1>7, <1>8 DEF Network
<1> QED
  BY <1>3, <1>9

LEMMA StepInvariant == ASSUME IInv, [Next]_vars PROVE IInv'
<1>1. CASE MainStep
  BY <1>1, MainInvariant
<1>2. CASE \E t \in Thread : ThreadStep(t) \/ Answer(t)
  <2>1. PICK t \in Thread : ThreadStep(t) \/ Answer(t)
    BY <1>2
  <2>2. CASE ThreadStep(t)
    BY <2>2, QuietInvariant, SendInvariant, NoAnswerInvariant DEF ThreadStep
  <2>3. CASE Answer(t)
    BY <2>3, LoseInvariant, ReceiveInvariant DEF Answer
  <2> QED
    BY <2>1, <2>2, <2>3
<1>3. CASE UNCHANGED vars
  <2>1. Thread' = Thread /\ \A u : ShareOf(u)' = ShareOf(u)
    BY <1>3 DEF vars, args, Thread, ShareOf, Share
  <2>2. \A u : Owed(u)' = Owed(u)
    BY <1>3 DEF vars, Owed
  <2> QED
    BY <1>3, <2>1, <2>2
    DEF IInv, Args, Threads, Unlaunched, Latencies, Network, vars, args, main, sums
<1> QED
  BY <1>1, <1>2, <1>3 DEF Next, Exited

LEMMA Invariant == Spec => []IInv
<1>1. Init => IInv
  BY InitInvariant
<1>2. IInv /\ [Next]_vars => IInv'
  BY StepInvariant
<1> QED
  BY <1>1, <1>2, PTL DEF Spec

-----------------------------------------------------------------------------
(* The books of the benchmark                                              *)

\* What thread t has added to each of the totals of main()
Open(t) == IF tpc[t] \in {"count", "add"} THEN 1 ELSE 0
Counted(t) == Len(local_latencies[t]) - (IF tpc[t] = "count" THEN 1 ELSE 0)
Timed(t) == SumTo(local_latencies[t], Len(local_latencies[t]) - Open(t))
Merged(t) == IF tpc[t] = "done" THEN Len(local_latencies[t]) ELSE 0
MergedTime(t) == IF tpc[t] = "done" THEN Total(local_latencies[t]) ELSE 0

\* The totals are what the threads have added to them.
Sums ==
  /\ Total(count) = Total([t \in Thread |-> Counted(t)])
  /\ Total(us_total) = Total([t \in Thread |-> Timed(t)])
  /\ Len(latencies_out) = Total([t \in Thread |-> Merged(t)])
  /\ Total(latencies_out) = Total([t \in Thread |-> MergedTime(t)])

\* A query that a thread has gone through was given up or has its latency.
Ledger ==
  \A t \in Thread :
    /\ i[t] + Open(t) = missed[t] + Len(local_latencies[t])
    /\ tpc[t] \in {"none", "socket"} => local_latencies[t] = <<>>

\* A thread that main() has joined is done, and main() reports when it has joined them all.
Joined ==
  /\ \A t \in Thread : (mpc = "join" /\ t < next) \/ mpc = "report" => tpc[t] = "done"
  /\ mpc = "report" => threads # 0

Books == Sums /\ Ledger /\ Joined

LEMMA ThreadsAreFinite ==
  ASSUME Args
  PROVE  threads \in Nat /\ IsFiniteSet(Thread) /\ Cardinality(Thread) = threads
<1>1. threads \in Nat
  BY BenchmarkAssumption DEF Args
<1> QED
  BY <1>1, OneTo DEF Thread

LEMMA Measured ==
  ASSUME Latencies
  PROVE  /\ latencies_out \in Seq(Nat) /\ Total(latencies_out) \in Nat
         /\ Len(latencies_out) \in Nat
         /\ \A t \in Thread : local_latencies[t] \in Seq(Nat)
<1>1. latencies_out \in Seq(Nat)
  BY BenchmarkAssumption, SeqMonotonic DEF Latencies
<1>2. ASSUME NEW t \in Thread PROVE local_latencies[t] \in Seq(Nat)
  BY BenchmarkAssumption, SeqMonotonic DEF Latencies
<1>3. Len(latencies_out) \in Nat /\ Len(latencies_out) \in 0..Len(latencies_out)
  BY <1>1, LenProperties
<1> QED
  BY <1>1, <1>2, <1>3, SumToIs

LEMMA MeasuredNext ==
  (Latencies => Len(latencies_out) \in Nat /\ Total(latencies_out) \in Nat)'
<1>1. Latencies => Len(latencies_out) \in Nat /\ Total(latencies_out) \in Nat
  BY Measured
<1> QED
  BY <1>1, PTL

\* What a thread has added is a natural number.
LEMMA Added ==
  ASSUME Latencies, NEW t \in Thread
  PROVE  /\ Counted(t) \in Nat /\ Timed(t) \in Nat /\ Merged(t) \in Nat /\ MergedTime(t) \in Nat
         /\ Len(local_latencies[t]) \in Nat
         /\ Open(t) = 1 => Len(local_latencies[t]) > 0
<1>1. local_latencies[t] \in Seq(Nat)
  BY Measured
<1>2. /\ Len(local_latencies[t]) \in Nat
      /\ Total(local_latencies[t]) = SumTo(local_latencies[t], Len(local_latencies[t]))
      /\ \A n \in 0..Len(local_latencies[t]) : SumTo(local_latencies[t], n) \in Nat
  BY <1>1, SumToIs
<1>3. tpc[t] \in {"count", "add"} => Len(local_latencies[t]) > 0
  BY <1>1, <1>2, EmptySeq DEF Latencies
<1>4. Len(local_latencies[t]) - Open(t) \in 0..Len(local_latencies[t])
  <2>1. CASE tpc[t] \in {"count", "add"}
    BY <1>2, <1>3, <2>1 DEF Open
  <2>2. CASE tpc[t] \notin {"count", "add"}
    BY <1>2, <2>2 DEF Open
  <2> QED
    BY <2>1, <2>2
<1>5. Counted(t) \in Nat
  BY <1>2, <1>3 DEF Counted
<1>6. Timed(t) \in Nat
  BY <1>2, <1>4 DEF Timed
<1>7. Merged(t) \in Nat /\ MergedTime(t) \in Nat
  BY <1>2 DEF Merged, MergedTime
<1> QED
  BY <1>2, <1>3, <1>5, <1>6, <1>7 DEF Open

\* A step in which no thread adds to the totals
LEMMA SumsKept ==
  ASSUME Sums, UNCHANGED sums, Thread' = Thread,
         \A u \in Thread : /\ Counted(u)' = Counted(u) /\ Timed(u)' = Timed(u)
                           /\ Merged(u)' = Merged(u) /\ MergedTime(u)' = MergedTime(u)
  PROVE  Sums'
<1>1. /\ [u \in Thread |-> Counted(u)]' = [u \in Thread |-> Counted(u)]
      /\ [u \in Thread |-> Timed(u)]' = [u \in Thread |-> Timed(u)]
      /\ [u \in Thread |-> Merged(u)]' = [u \in Thread |-> Merged(u)]
      /\ [u \in Thread |-> MergedTime(u)]' = [u \in Thread |-> MergedTime(u)]
  OBVIOUS
<1>2. /\ Total(count)' = Total(count) /\ Total(us_total)' = Total(us_total)
      /\ latencies_out' = latencies_out
      /\ Total(latencies_out)' = Total(latencies_out)
  BY DEF sums
<1>3. /\ Total([u \in Thread |-> Counted(u)])' = Total([u \in Thread |-> Counted(u)])
      /\ Total([u \in Thread |-> Timed(u)])' = Total([u \in Thread |-> Timed(u)])
      /\ Total([u \in Thread |-> Merged(u)])' = Total([u \in Thread |-> Merged(u)])
      /\ Total([u \in Thread |-> MergedTime(u)])' = Total([u \in Thread |-> MergedTime(u)])
  BY <1>1
<1> QED
  BY <1>2, <1>3 DEF Sums

\* The total over the threads moves with what one of them adds.
LEMMA TotalMoves ==
  ASSUME Args, NEW t \in Thread, NEW f \in [Thread -> Nat], NEW g \in [Thread -> Nat],
         \A u \in Thread \ {t} : g[u] = f[u]
  PROVE  Total(g) + f[t] = Total(f) + g[t] /\ Total(f) \in Nat /\ Total(g) \in Nat
<1>1. IsFiniteSet(Thread) /\ DOMAIN f = Thread /\ DOMAIN g = Thread
  BY ThreadsAreFinite
<1>2. Total(f) = SumOver(f, Thread) /\ Total(g) = SumOver(g, Thread)
  BY <1>1, TotalIs
<1>3. SumOver(f, Thread) \in Nat /\ SumOver(g, Thread) \in Nat
  BY <1>1, SumNat
<1>4. SumOver(g, Thread) + f[t] = SumOver(f, Thread) + g[t]
  BY <1>1, SumMoves
<1> QED
  BY <1>2, <1>3, <1>4

LEMMA AddedNext ==
  (Latencies => \A u \in Thread : /\ Counted(u) \in Nat /\ Timed(u) \in Nat
                                  /\ Merged(u) \in Nat /\ MergedTime(u) \in Nat)'
<1>1. Latencies => \A u \in Thread : /\ Counted(u) \in Nat /\ Timed(u) \in Nat
                                     /\ Merged(u) \in Nat /\ MergedTime(u) \in Nat
  BY Added
<1> QED
  BY <1>1, PTL

\* A step in which thread t adds as much to the totals as its own books say
LEMMA SumsMove ==
  ASSUME IInv, IInv', Sums, Thread' = Thread, NEW t \in Thread,
         \A u \in Thread \ {t} : tpc'[u] = tpc[u] /\ local_latencies'[u] = local_latencies[u],
         Total(count') \in Nat, Total(count') + Counted(t) = Total(count) + Counted(t)',
         Total(us_total') \in Nat, Total(us_total') + Timed(t) = Total(us_total) + Timed(t)',
         Len(latencies_out') + Merged(t) = Len(latencies_out) + Merged(t)',
         Total(latencies_out') + MergedTime(t) = Total(latencies_out) + MergedTime(t)'
  PROVE  Sums'
<1> DEFINE c == [u \in Thread |-> Counted(u)]   c1 == [u \in Thread |-> Counted(u)']
           m == [u \in Thread |-> Timed(u)]     m1 == [u \in Thread |-> Timed(u)']
           l == [u \in Thread |-> Merged(u)]    l1 == [u \in Thread |-> Merged(u)']
           k == [u \in Thread |-> MergedTime(u)]
           k1 == [u \in Thread |-> MergedTime(u)']
<1>1. \A u \in Thread : /\ Counted(u) \in Nat /\ Timed(u) \in Nat
                        /\ Merged(u) \in Nat /\ MergedTime(u) \in Nat
  BY Added DEF IInv
<1>2. \A u \in Thread : /\ Counted(u)' \in Nat /\ Timed(u)' \in Nat
                        /\ Merged(u)' \in Nat /\ MergedTime(u)' \in Nat
  BY AddedNext DEF IInv
<1>3. \A u \in Thread \ {t} : /\ Counted(u)' = Counted(u) /\ Timed(u)' = Timed(u)
                              /\ Merged(u)' = Merged(u) /\ MergedTime(u)' = MergedTime(u)
  BY DEF Counted, Timed, Merged, MergedTime, Open
<1>4. Args
  BY DEF IInv
<1>5. /\ c \in [Thread -> Nat] /\ c1 \in [Thread -> Nat] /\ m \in [Thread -> Nat]
      /\ m1 \in [Thread -> Nat] /\ l \in [Thread -> Nat] /\ l1 \in [Thread -> Nat]
      /\ k \in [Thread -> Nat] /\ k1 \in [Thread -> Nat]
  BY <1>1, <1>2
<1>6. /\ \A u \in Thread \ {t} : c1[u] = c[u] /\ m1[u] = m[u] /\ l1[u] = l[u] /\ k1[u] = k[u]
      /\ c[t] = Counted(t) /\ c1[t] = Counted(t)' /\ m[t] = Timed(t) /\ m1[t] = Timed(t)'
      /\ l[t] = Merged(t) /\ l1[t] = Merged(t)' /\ k[t] = MergedTime(t) /\ k1[t] = MergedTime(t)'
  BY <1>3
<1>7. /\ Total(count) = Total(c) /\ Total(us_total) = Total(m)
      /\ Len(latencies_out) = Total(l) /\ Total(latencies_out) = Total(k)
  BY DEF Sums
<1>8. Len(latencies_out') \in Nat /\ Total(latencies_out') \in Nat
  <2>1. (Latencies => Len(latencies_out) \in Nat /\ Total(latencies_out) \in Nat)'
    BY MeasuredNext
  <2> QED
    BY <2>1 DEF IInv
<1>14. /\ c1 = [u \in Thread |-> Counted(u)]' /\ m1 = [u \in Thread |-> Timed(u)]'
       /\ l1 = [u \in Thread |-> Merged(u)]' /\ k1 = [u \in Thread |-> MergedTime(u)]'
  OBVIOUS
<1> HIDE DEF c, c1, m, m1, l, l1, k, k1
<1>9. Total(c1) + c[t] = Total(c) + c1[t] /\ Total(c) \in Nat /\ Total(c1) \in Nat
  BY <1>4, <1>5, <1>6, TotalMoves
<1>10. Total(m1) + m[t] = Total(m) + m1[t] /\ Total(m) \in Nat /\ Total(m1) \in Nat
  BY <1>4, <1>5, <1>6, TotalMoves
<1>11. Total(l1) + l[t] = Total(l) + l1[t] /\ Total(l) \in Nat /\ Total(l1) \in Nat
  BY <1>4, <1>5, <1>6, TotalMoves
<1>12. Total(k1) + k[t] = Total(k) + k1[t] /\ Total(k) \in Nat /\ Total(k1) \in Nat
  BY <1>4, <1>5, <1>6, TotalMoves
<1>13. /\ Total(count') = Total(c1) /\ Total(us_total') = Total(m1)
       /\ Len(latencies_out') = Total(l1) /\ Total(latencies_out') = Total(k1)
  <2>1. Total(count') + c[t] = Total(c) + c1[t]
    BY <1>6, <1>7
  <2>2. Total(us_total') + m[t] = Total(m) + m1[t]
    BY <1>6, <1>7
  <2>3. Len(latencies_out') + l[t] = Total(l) + l1[t]
    BY <1>6, <1>7
  <2>4. Total(latencies_out') + k[t] = Total(k) + k1[t]
    BY <1>6, <1>7
  <2>5. c[t] \in Nat /\ m[t] \in Nat /\ l[t] \in Nat /\ k[t] \in Nat
    BY <1>1, <1>6
  <2>6. Total(count') + c[t] = Total(c1) + c[t] /\ Total(us_total') + m[t] = Total(m1) + m[t]
    BY <1>9, <1>10, <2>1, <2>2
  <2>7. /\ Len(latencies_out') + l[t] = Total(l1) + l[t]
        /\ Total(latencies_out') + k[t] = Total(k1) + k[t]
    BY <1>11, <1>12, <2>3, <2>4
  <2>8. Total(count') \in Nat /\ Total(us_total') \in Nat
    OBVIOUS
  <2>9. Total(c1) \in Nat /\ Total(m1) \in Nat /\ Total(l1) \in Nat /\ Total(k1) \in Nat
    BY <1>9, <1>10, <1>11, <1>12
  <2>10. Total(count') = Total(c1)
    BY <2>5, <2>6, <2>8, <2>9
  <2>11. Total(us_total') = Total(m1)
    BY <2>5, <2>6, <2>8, <2>9
  <2>12. Len(latencies_out') = Total(l1)
    BY <1>8, <2>5, <2>7, <2>9
  <2>13. Total(latencies_out') = Total(k1)
    BY <1>8, <2>5, <2>7, <2>9
  <2> QED
    BY <2>10, <2>11, <2>12, <2>13
<1> QED
  BY <1>13, <1>14 DEF Sums

LEMMA CategoryIsFinite == IsFiniteSet(Category)
<1>1. Category = ((({} \cup {"blocked"}) \cup {"allowed"}) \cup {"cached"})
  BY DEF Category
<1> QED
  BY <1>1, FS_EmptySet, FS_AddElement

LEMMA TotalOfNone ==
  ASSUME NEW f, IsFiniteSet(DOMAIN f), \A x \in DOMAIN f : f[x] = 0
  PROVE  Total(f) = 0
<1>1. Total(f) = 0 * Cardinality(DOMAIN f)
  BY TotalIs, SumConstant
<1> QED
  BY <1>1, FS_CardinalityType

LEMMA TotalOfEmpty == Total(<<>>) = 0
BY TotalIs, SumEmpty

LEMMA BooksInit == Init => Books
<1> SUFFICES ASSUME Init PROVE Books
  OBVIOUS
<1>1. IsFiniteSet(Thread) /\ IsFiniteSet(Category)
  BY InitInvariant, ThreadsAreFinite, CategoryIsFinite DEF IInv
<1>2. /\ \A t \in Thread : /\ tpc[t] = "none" /\ local_latencies[t] = <<>>
                           /\ i[t] = 0 /\ missed[t] = 0
      /\ latencies_out = <<>> /\ mpc = "args" /\ next = 1
      /\ count = [c \in Category |-> 0] /\ us_total = [c \in Category |-> 0]
  BY DEF Init
<1>3. \A t \in Thread : Counted(t) = 0 /\ Merged(t) = 0 /\ MergedTime(t) = 0
  BY <1>2 DEF Counted, Merged, MergedTime
<1>4. ASSUME NEW t \in Thread PROVE Timed(t) = 0
  <2>1. Len(local_latencies[t]) = 0 /\ Open(t) = 0 /\ local_latencies[t] \in Seq(Nat)
    BY <1>2, EmptySeq DEF Open
  <2>2. Timed(t) = SumTo(local_latencies[t], 0)
    BY <2>1 DEF Timed
  <2> QED
    BY <2>1, <2>2, SumToIs
<1>5. /\ Total(count) = 0 /\ Total(us_total) = 0 /\ Total(latencies_out) = 0
      /\ Len(latencies_out) = 0
  <2>1. Total(count) = 0 /\ Total(us_total) = 0
    BY <1>1, <1>2, TotalOfNone
  <2> QED
    BY <1>2, <2>1, TotalOfEmpty
<1>6. /\ Total([t \in Thread |-> Counted(t)]) = 0 /\ Total([t \in Thread |-> Timed(t)]) = 0
      /\ Total([t \in Thread |-> Merged(t)]) = 0 /\ Total([t \in Thread |-> MergedTime(t)]) = 0
  <2>1. Total([t \in Thread |-> Counted(t)]) = 0
    BY <1>1, <1>3, TotalOfNone
  <2>2. Total([t \in Thread |-> Timed(t)]) = 0
    BY <1>1, <1>4, TotalOfNone
  <2>3. Total([t \in Thread |-> Merged(t)]) = 0
    BY <1>1, <1>3, TotalOfNone
  <2>4. Total([t \in Thread |-> MergedTime(t)]) = 0
    BY <1>1, <1>3, TotalOfNone
  <2> QED
    BY <2>1, <2>2, <2>3, <2>4
<1>7. Sums
  BY <1>5, <1>6 DEF Sums
<1>8. Ledger
  BY <1>2 DEF Ledger, Open
<1>9. Joined
  BY <1>2 DEF Joined
<1> QED
  BY <1>7, <1>8, <1>9 DEF Books

\* A launch changes no books, and what main() has joined is done.
LEMMA BooksMain == ASSUME IInv, Books, MainStep PROVE Books'
<1> USE DEF Main, args
<1>1. UNCHANGED <<queries, threads, i, local_latencies, sums, missed>> /\ Thread' = Thread
  BY DEF MainStep, Usage, Begin, Launch, Join, Report, Advance, Thread
<1>2. threads \in Nat /\ next \in Nat /\ Thread = 1..threads
  BY BenchmarkAssumption DEF IInv, Args, Thread
<1>3. \/ tpc' = tpc
      \/ mpc = "launch" /\ tpc' = [tpc EXCEPT ![next] = "socket"]
  BY DEF MainStep, Usage, Begin, Launch, Join, Report, Advance
<1>4. \A t \in Thread : tpc'[t] = tpc[t] \/ (tpc[t] = "none" /\ tpc'[t] = "socket")
  BY <1>2, <1>3 DEF IInv, Threads, Unlaunched
<1>5. \A t \in Thread : /\ Counted(t)' = Counted(t) /\ Timed(t)' = Timed(t)
                        /\ Merged(t)' = Merged(t) /\ MergedTime(t)' = MergedTime(t)
                        /\ Open(t)' = Open(t)
  BY <1>1, <1>4 DEF Counted, Timed, Merged, MergedTime, Open
<1>6. Sums'
  BY <1>1, <1>5, SumsKept DEF Books
<1>7. Ledger'
  BY <1>1, <1>4, <1>5 DEF Books, Ledger
<1>8. Joined'
  <2>1. CASE mpc' = "join"
    <3>1. \/ mpc = "launch" /\ next' = 1
          \/ mpc = "join" /\ tpc' = tpc /\ tpc[next] = "done" /\ next' = next + 1
      BY <2>1 DEF MainStep, Usage, Begin, Launch, Join, Report, Advance
    <3>2. CASE mpc = "launch" /\ next' = 1
      BY <1>1, <1>2, <2>1, <3>2 DEF Joined
    <3>3. CASE mpc = "join" /\ tpc' = tpc /\ tpc[next] = "done" /\ next' = next + 1
      BY <1>1, <1>2, <2>1, <3>3 DEF Books, Joined
    <3> QED
      BY <3>1, <3>2, <3>3
  <2>2. CASE mpc' = "report"
    <3>1. mpc = "join" /\ tpc' = tpc /\ tpc[next] = "done" /\ ~(next < threads)
      BY <2>2 DEF MainStep, Usage, Begin, Launch, Join, Report, Advance
    <3>2. next <= threads /\ next >= 1
      BY <3>1, BenchmarkAssumption DEF IInv, Args
    <3>3. next = threads /\ threads # 0
      BY <1>2, <3>1, <3>2
    <3>4. \A t \in Thread : tpc[t] = "done"
      BY <1>2, <3>1, <3>3 DEF Books, Joined
    <3> QED
      BY <1>1, <2>2, <3>1, <3>3, <3>4 DEF Joined
  <2> QED
    BY <2>1, <2>2 DEF Joined
<1> QED
  BY <1>6, <1>7, <1>8 DEF Books

\* A thread that is not done yet leaves what main() has joined as it is.
LEMMA JoinedStays ==
  ASSUME Joined, NEW t \in Thread, tpc[t] # "done", Thread' = Thread,
         UNCHANGED <<threads, mpc, next>>, \A u \in Thread \ {t} : tpc'[u] = tpc[u]
  PROVE  Joined'
BY DEF Joined

\* The steps that add nothing: a query that is lost or given up has no latency.
LEMMA BooksKept ==
  ASSUME IInv, Books, NEW t \in Thread,
         NoSocket(t) \/ Socket(t) \/ Send(t) \/ SendFails(t) \/ Timeout(t) \/ Close(t)
  PROVE  Books'
<1>1. PICK from \in {"socket", "loop", "recv"}, to \in {"loop", "recv", "merge", "done"} :
        /\ Go(t, from, to) /\ UNCHANGED <<local_latencies, sums>>
        /\ to = "done" => from = "socket"
        /\ \/ UNCHANGED <<i, missed>>
           \/ /\ i' = [i EXCEPT ![t] = @ + 1] /\ missed' = [missed EXCEPT ![t] = @ + 1]
  BY DEF NoSocket, Socket, Send, SendFails, Timeout, Close, NoAnswer
<1>2. /\ Thread' = Thread /\ tpc[t] = from
      /\ \A u \in Thread : tpc'[u] = IF u = t THEN to ELSE tpc[u]
  BY <1>1, Going DEF Places
<1>3. UNCHANGED <<threads, mpc, next>>
  BY <1>1 DEF Go, args, main
<1>4. from = "socket" => local_latencies[t] = <<>>
  BY <1>2 DEF Books, Ledger
<1>5. /\ Counted(t)' = Counted(t) /\ Timed(t)' = Timed(t) /\ Open(t)' = Open(t) /\ Open(t) = 0
      /\ Merged(t)' = Merged(t) /\ MergedTime(t)' = MergedTime(t)
  <2>1. Counted(t)' = Counted(t) /\ Timed(t)' = Timed(t) /\ Open(t)' = Open(t) /\ Open(t) = 0
    BY <1>1, <1>2 DEF Counted, Timed, Open
  <2>2. CASE to = "done"
    <3>1. tpc[t] = "socket" /\ tpc'[t] = "done" /\ local_latencies'[t] = <<>>
      BY <1>1, <1>2, <1>4, <2>2
    <3>2. /\ Merged(t) = 0 /\ Merged(t)' = Len(<<>>)
          /\ MergedTime(t) = 0 /\ MergedTime(t)' = Total(<<>>)
      BY <3>1 DEF Merged, MergedTime
    <3> QED
      BY <2>1, <3>2, TotalOfEmpty
  <2>3. CASE to # "done"
    <3>1. tpc[t] # "done" /\ tpc'[t] # "done"
      BY <1>1, <1>2, <2>3
    <3> QED
      BY <2>1, <3>1 DEF Merged, MergedTime
  <2> QED
    BY <2>1, <2>2, <2>3
<1>6. \A u \in Thread \ {t} :
        /\ Counted(u)' = Counted(u) /\ Timed(u)' = Timed(u) /\ Open(u)' = Open(u)
        /\ Merged(u)' = Merged(u) /\ MergedTime(u)' = MergedTime(u)
  BY <1>1, <1>2 DEF Counted, Timed, Merged, MergedTime, Open
<1>7. Sums'
  BY <1>1, <1>2, <1>5, <1>6, SumsKept DEF Books
<1>8. i[t] + Open(t) = missed[t] + Len(local_latencies[t])
        => (i[t] + Open(t) = missed[t] + Len(local_latencies[t]))'
  <2>1. /\ i[t] \in Nat /\ missed[t] \in Nat /\ Len(local_latencies[t]) \in Nat
        /\ i \in [Thread -> Nat] /\ missed \in [Thread -> Nat]
    BY Added DEF IInv, Threads
  <2>2. \/ i'[t] = i[t] /\ missed'[t] = missed[t]
        \/ i'[t] = i[t] + 1 /\ missed'[t] = missed[t] + 1
    BY <1>1, <2>1
  <2> QED
    BY <1>1, <1>5, <2>1, <2>2
<1>9. \A u \in Thread \ {t} : i'[u] = i[u] /\ missed'[u] = missed[u]
  BY <1>1 DEF IInv, Threads
<1>10. Ledger'
  BY <1>1, <1>2, <1>6, <1>8, <1>9 DEF Books, Ledger
<1>11. Joined'
  BY <1>2, <1>3, JoinedStays DEF Books
<1> QED
  BY <1>7, <1>10, <1>11 DEF Books

\* An answer adds a latency to the thread's own, and nothing to the totals yet.
LEMMA BooksReceive ==
  ASSUME IInv, Books, NEW t \in Thread, NEW n \in coming[t], NEW lat \in Latency,
         Receive(t, n, lat)
  PROVE  Books'
<1>1. /\ UNCHANGED <<i, sums, missed>> /\ Go(t, "recv", "count")
      /\ local_latencies' = [local_latencies EXCEPT ![t] = Append(@, lat)]
  BY DEF Receive
<1>2. /\ Thread' = Thread /\ tpc[t] = "recv"
      /\ \A u \in Thread : tpc'[u] = IF u = t THEN "count" ELSE tpc[u]
  BY <1>1, Going DEF Places
<1>3. UNCHANGED <<threads, mpc, next>>
  BY <1>1 DEF Go, args, main
<1>4. /\ local_latencies'[t] = Append(local_latencies[t], lat)
      /\ \A u \in Thread \ {t} : local_latencies'[u] = local_latencies[u]
  BY <1>1 DEF IInv, Latencies
<1>5. /\ local_latencies[t] \in Seq(Nat) /\ lat \in Nat /\ Len(local_latencies[t]) \in Nat
      /\ Len(local_latencies'[t]) = Len(local_latencies[t]) + 1
      /\ SumTo(local_latencies'[t], Len(local_latencies[t])) = Total(local_latencies[t])
      /\ Total(local_latencies[t]) = SumTo(local_latencies[t], Len(local_latencies[t]))
  BY <1>4, BenchmarkAssumption, Measured, TotalAppend, SumToIs DEF IInv
<1>6. /\ Counted(t)' = Counted(t) /\ Open(t) = 0 /\ Open(t)' = 1
      /\ Merged(t)' = Merged(t) /\ MergedTime(t)' = MergedTime(t)
  <2>1. tpc[t] = "recv" /\ tpc'[t] = "count"
    BY <1>2
  <2>2. Counted(t) = Len(local_latencies[t]) - 0 /\ Counted(t)' = Len(local_latencies'[t]) - 1
    BY <2>1 DEF Counted
  <2>3. Open(t) = 0 /\ Open(t)' = 1
    BY <2>1 DEF Open
  <2>4. Merged(t)' = Merged(t) /\ MergedTime(t)' = MergedTime(t)
    BY <2>1 DEF Merged, MergedTime
  <2> QED
    BY <1>5, <2>2, <2>3, <2>4
<1>7. Timed(t)' = Timed(t)
  <2>1. Len(local_latencies[t]) - Open(t) = Len(local_latencies[t])
    BY <1>5, <1>6
  <2>2. Len(local_latencies'[t]) - Open(t)' = Len(local_latencies[t])
    BY <1>5, <1>6
  <2> QED
    BY <1>5, <2>1, <2>2 DEF Timed
<1>8. \A u \in Thread \ {t} :
        /\ Counted(u)' = Counted(u) /\ Timed(u)' = Timed(u) /\ Open(u)' = Open(u)
        /\ Merged(u)' = Merged(u) /\ MergedTime(u)' = MergedTime(u)
  BY <1>2, <1>4 DEF Counted, Timed, Merged, MergedTime, Open
<1>9. Sums'
  BY <1>1, <1>2, <1>6, <1>7, <1>8, SumsKept DEF Books
<1>10. Ledger'
  <2>1. i[t] \in Nat /\ missed[t] \in Nat
    BY DEF IInv, Threads
  <2>2. i[t] + Open(t) = missed[t] + Len(local_latencies[t])
    BY DEF Books, Ledger
  <2>3. (i[t] + Open(t) = missed[t] + Len(local_latencies[t]))'
    BY <1>1, <1>5, <1>6, <2>1, <2>2
  <2>4. tpc'[t] = "count" /\ \A u \in Thread \ {t} : tpc'[u] = tpc[u]
    BY <1>2
  <2>5. \A u \in Thread \ {t} :
          /\ i[u] + Open(u) = missed[u] + Len(local_latencies[u])
          /\ tpc[u] \in {"none", "socket"} => local_latencies[u] = <<>>
    BY DEF Books, Ledger
  <2> QED
    BY <1>1, <1>2, <1>4, <1>8, <2>3, <2>4, <2>5 DEF Ledger
<1>11. Joined'
  BY <1>2, <1>3, JoinedStays DEF Books
<1> QED
  BY <1>9, <1>10, <1>11 DEF Books

\* One more in one of the counters
LEMMA CounterMoves ==
  ASSUME NEW f \in [Category -> Nat], NEW c \in Category, NEW d \in Nat
  PROVE  /\ Total([f EXCEPT ![c] = @ + d]) = Total(f) + d
         /\ Total(f) \in Nat
<1> DEFINE g == [f EXCEPT ![c] = @ + d]
<1>1. /\ g \in [Category -> Nat] /\ g[c] = f[c] + d /\ \A x \in Category \ {c} : f[x] = g[x]
      /\ f[c] \in Nat
  OBVIOUS
<1> HIDE DEF g
<1>2. Total(f) = SumOver(f, Category) /\ Total(g) = SumOver(g, Category)
  BY <1>1, TotalIs
<1>3. SumOver(f, Category) \in Nat /\ SumOver(g, Category) \in Nat
  BY <1>1, CategoryIsFinite, SumNat
<1>4. SumOver(g, Category) + f[c] = SumOver(f, Category) + g[c]
  BY <1>1, CategoryIsFinite, SumMoves
<1>5. Total(g) = Total(f) + d
  BY <1>1, <1>2, <1>3, <1>4
<1> QED
  BY <1>2, <1>3, <1>5 DEF g

LEMMA BooksCount ==
  ASSUME IInv, IInv', Books, NEW t \in Thread, CountQuery(t) \/ AddTime(t)
  PROVE  Books'
<1> DEFINE l == local_latencies[t]
           lat == l[Len(l)]
<1>1. PICK from \in {"count", "add"}, to \in {"add", "loop"} :
        /\ UNCHANGED <<local_latencies, latencies_out, missed>> /\ Go(t, from, to)
        /\ \/ /\ from = "count" /\ to = "add" /\ UNCHANGED <<i, us_total>>
              /\ count' = [count EXCEPT ![CategoryOf(i[t])] = @ + 1]
           \/ /\ from = "add" /\ to = "loop" /\ UNCHANGED count
              /\ i' = [i EXCEPT ![t] = @ + 1]
              /\ us_total' = [us_total EXCEPT ![CategoryOf(i[t])] = @ + lat]
  BY DEF CountQuery, AddTime
<1>2. /\ Thread' = Thread /\ tpc[t] = from
      /\ \A u \in Thread : tpc'[u] = IF u = t THEN to ELSE tpc[u]
  BY <1>1, Going DEF Places
<1>3. UNCHANGED <<threads, mpc, next>>
  BY <1>1 DEF Go, args, main
<1>4. /\ l \in Seq(Nat) /\ Len(l) \in Nat /\ Len(l) >= 1 /\ lat \in Nat
      /\ SumTo(l, Len(l)) = SumTo(l, Len(l) - 1) + lat
      /\ SumTo(l, Len(l) - 1) \in Nat
  <2>1. l \in Seq(Nat) /\ Open(t) = 1
    BY <1>1, <1>2, Measured DEF IInv, Open
  <2>2. Len(l) \in Nat /\ Len(l) > 0
    BY <2>1, Added DEF IInv
  <2>3. Len(l) \in 1..Len(l) /\ Len(l) - 1 \in 0..Len(l)
    BY <2>2
  <2>4. lat \in Nat
    BY <2>1, <2>3, ElementOfSeq
  <2> HIDE DEF l
  <2> QED
    BY <2>1, <2>2, <2>3, <2>4, SumToIs
<1>5. /\ count \in [Category -> Nat] /\ us_total \in [Category -> Nat]
      /\ CategoryOf(i[t]) \in Category
  BY Categories DEF IInv, Latencies
<1>6. Merged(t)' = Merged(t) /\ MergedTime(t)' = MergedTime(t)
  BY <1>1, <1>2 DEF Merged, MergedTime
<1>7. /\ Counted(t) \in Nat /\ Timed(t) \in Nat /\ Merged(t) \in Nat /\ MergedTime(t) \in Nat
  BY Added DEF IInv
<1>8. /\ Total(count') \in Nat /\ Total(count') + Counted(t) = Total(count) + Counted(t)'
      /\ Total(us_total') \in Nat /\ Total(us_total') + Timed(t) = Total(us_total) + Timed(t)'
  <2>1. Total(count) \in Nat /\ Total(us_total) \in Nat
    BY <1>5, CounterMoves
  <2>2. CASE from = "count"
    <3>1. /\ count' = [count EXCEPT ![CategoryOf(i[t])] = @ + 1] /\ us_total' = us_total
          /\ tpc[t] = "count" /\ tpc'[t] = "add"
      BY <1>1, <1>2, <2>2
    <3>2. Total(count') = Total(count) + 1
      BY <1>5, <3>1, CounterMoves
    <3>3. Counted(t)' = Len(l) - 0 /\ Counted(t) = Len(l) - 1 /\ Timed(t)' = Timed(t)
      BY <1>1, <3>1 DEF Counted, Timed, Open
    <3> HIDE DEF l
    <3> QED
      BY <1>4, <1>7, <2>1, <3>1, <3>2, <3>3
  <2>3. CASE from = "add"
    <3>1. /\ us_total' = [us_total EXCEPT ![CategoryOf(i[t])] = @ + lat] /\ count' = count
          /\ tpc[t] = "add" /\ tpc'[t] = "loop"
      BY <1>1, <1>2, <2>3
    <3>2. /\ Counted(t)' = Counted(t)
          /\ Timed(t) = SumTo(l, Len(l) - 1) /\ Timed(t)' = SumTo(l, Len(l) - 0)
      BY <1>1, <3>1 DEF Counted, Timed, Open
    <3>4. Timed(t)' = SumTo(l, Len(l)) /\ UNCHANGED Total(count)
      BY <1>4, <3>1, <3>2
    <3> HIDE DEF lat, l
    <3>3. Total(us_total') = Total(us_total) + lat
      BY <1>4, <1>5, <3>1, CounterMoves
    <3> QED
      BY <1>4, <1>7, <2>1, <3>1, <3>2, <3>3, <3>4
  <2> QED
    BY <1>1, <2>2, <2>3
<1>9. \A u \in Thread \ {t} : tpc'[u] = tpc[u] /\ local_latencies'[u] = local_latencies[u]
  BY <1>1, <1>2
<1>10. Sums'
  <2>1. Len(latencies_out') + Merged(t) = Len(latencies_out) + Merged(t)'
    BY <1>1, <1>6
  <2>2. Total(latencies_out') + MergedTime(t) = Total(latencies_out) + MergedTime(t)'
    BY <1>1, <1>6
  <2> QED
    BY <1>2, <1>8, <1>9, <2>1, <2>2, SumsMove DEF Books
<1>11. Ledger'
  <2>1. i \in [Thread -> Nat] /\ missed[t] \in Nat
    BY DEF IInv, Threads
  <2>2. i[t] + Open(t) = missed[t] + Len(l)
    BY DEF Books, Ledger
  <2>3. i'[t] + Open(t)' = missed[t] + Len(l)
    <3>1. CASE from = "count"
      BY <1>1, <1>2, <2>1, <2>2, <3>1 DEF Open
    <3>2. CASE from = "add"
      <4>1. i'[t] = i[t] + 1 /\ Open(t) = 1 /\ Open(t)' = 0 /\ i[t] \in Nat
        BY <1>1, <1>2, <2>1, <3>2 DEF Open
      <4> QED
        BY <2>2, <4>1
    <3> QED
      BY <3>1, <3>2
  <2>4. \A u \in Thread \ {t} : i'[u] = i[u] /\ Open(u)' = Open(u)
    BY <1>1, <1>9, <2>1 DEF Open
  <2>5. \A u \in Thread \ {t} :
          /\ i[u] + Open(u) = missed[u] + Len(local_latencies[u])
          /\ tpc[u] \in {"none", "socket"} => local_latencies[u] = <<>>
    BY DEF Books, Ledger
  <2>6. tpc'[t] \notin {"none", "socket"}
    BY <1>1, <1>2
  <2> QED
    BY <1>1, <1>2, <1>9, <2>3, <2>4, <2>5, <2>6 DEF Ledger
<1>12. Joined'
  BY <1>1, <1>2, <1>3, JoinedStays DEF Books
<1> QED
  BY <1>10, <1>11, <1>12 DEF Books

LEMMA BooksMerge ==
  ASSUME IInv, IInv', Books, NEW t \in Thread, Merge(t)
  PROVE  Books'
<1>1. /\ UNCHANGED <<i, local_latencies, count, us_total, missed>> /\ Go(t, "merge", "done")
      /\ latencies_out' = latencies_out \o local_latencies[t]
  BY DEF Merge
<1>2. /\ Thread' = Thread /\ tpc[t] = "merge"
      /\ \A u \in Thread : tpc'[u] = IF u = t THEN "done" ELSE tpc[u]
  BY <1>1, Going DEF Places
<1>3. UNCHANGED <<threads, mpc, next>>
  BY <1>1 DEF Go, args, main
<1>4. /\ local_latencies[t] \in Seq(Nat) /\ latencies_out \in Seq(Nat)
      /\ Total(latencies_out) \in Nat /\ Len(latencies_out) \in Nat
  BY Measured DEF IInv
<1>5. /\ Len(latencies_out') = Len(latencies_out) + Len(local_latencies[t])
      /\ Total(latencies_out') = Total(latencies_out) + Total(local_latencies[t])
  BY <1>1, <1>4, ConcatProperties, TotalConcat
<1>6. /\ Counted(t)' = Counted(t) /\ Timed(t)' = Timed(t) /\ Open(t)' = Open(t)
      /\ Merged(t) = 0 /\ Merged(t)' = Len(local_latencies[t])
      /\ MergedTime(t) = 0 /\ MergedTime(t)' = Total(local_latencies[t])
  BY <1>1, <1>2 DEF Counted, Timed, Open, Merged, MergedTime
<1>7. \A u \in Thread \ {t} : tpc'[u] = tpc[u] /\ local_latencies'[u] = local_latencies[u]
  BY <1>1, <1>2
<1>8. Sums'
  <2>1. Total(count') \in Nat /\ Total(us_total') \in Nat
    BY <1>1, CounterMoves, Categories DEF IInv, Latencies
  <2>2. Len(latencies_out') + Merged(t) = Len(latencies_out) + Merged(t)'
    <3>1. Len(local_latencies[t]) \in Nat
      BY Added DEF IInv
    <3> QED
      BY <1>4, <1>5, <1>6, <3>1
  <2>3. Total(latencies_out') + MergedTime(t) = Total(latencies_out) + MergedTime(t)'
    <3>1. MergedTime(t)' \in Nat
      BY <1>2, AddedNext DEF IInv
    <3> QED
      BY <1>4, <1>5, <1>6, <3>1
  <2>4. Total(count') + Counted(t) = Total(count) + Counted(t)'
    BY <1>1, <1>6
  <2>5. Total(us_total') + Timed(t) = Total(us_total) + Timed(t)'
    BY <1>1, <1>6
  <2> QED
    BY <1>2, <1>7, <2>1, <2>2, <2>3, <2>4, <2>5, SumsMove DEF Books
<1>9. Ledger'
  <2>1. \A u \in Thread : Open(u)' = Open(u)
    BY <1>6, <1>7 DEF Open
  <2> QED
    BY <1>1, <1>2, <2>1 DEF Books, Ledger
<1>10. Joined'
  BY <1>2, <1>3, JoinedStays DEF Books
<1> QED
  BY <1>8, <1>9, <1>10 DEF Books

LEMMA BooksStep == ASSUME IInv, IInv', Books, [Next]_vars PROVE Books'
<1>1. CASE MainStep
  BY <1>1, BooksMain
<1>2. CASE \E t \in Thread : ThreadStep(t)
  BY <1>2, BooksKept, BooksCount, BooksMerge DEF ThreadStep
<1>4. CASE \E t \in Thread : \E n \in coming[t] : \E lat \in Latency : Receive(t, n, lat)
  BY <1>4, BooksReceive
<1>3. CASE UNCHANGED vars \/ \E t \in Thread : \E n \in coming[t] : Lose(t, n)
  <2>1. UNCHANGED <<threads, mpc, next, tpc, i, local_latencies, sums, missed>>
    BY <1>3 DEF vars, args, main, Lose
  <2>2. Thread' = Thread
    BY <2>1 DEF Thread
  <2>3. \A t \in Thread : /\ Counted(t)' = Counted(t) /\ Timed(t)' = Timed(t)
                          /\ Merged(t)' = Merged(t) /\ MergedTime(t)' = MergedTime(t)
                          /\ Open(t)' = Open(t)
    BY <2>1 DEF Counted, Timed, Open, Merged, MergedTime
  <2>4. Sums'
    BY <2>1, <2>2, <2>3, SumsKept DEF Books
  <2> QED
    BY <2>1, <2>2, <2>3, <2>4 DEF Books, Ledger, Joined
<1> QED
  BY <1>1, <1>2, <1>3, <1>4 DEF Next, Exited, Answer

LEMMA BooksInvariant == Spec => []Books
<1>1. Init => Books
  BY BooksInit
<1>2. IInv /\ IInv' /\ Books /\ [Next]_vars => Books'
  BY BooksStep
<1> QED
  BY <1>1, <1>2, Invariant, PTL DEF Spec

\* Every query is in the share of one thread.
LEMMA SharesAddUp ==
  ASSUME Args, threads # 0
  PROVE  Total([t \in Thread |-> ShareOf(t)]) = queries
<1> DEFINE d == queries \div threads
           r == queries % threads
           f == [t \in Thread |-> d]
           g == [t \in Thread |-> ShareOf(t)]
<1>1. queries \in Nat /\ threads \in Nat /\ threads > 0 /\ threads \in Thread
  BY BenchmarkAssumption DEF Args, Thread
<1>2. d \in Nat /\ r \in Nat /\ queries = (d * threads) + r
  BY <1>1
<1>3. \A t \in Thread : ShareOf(t) = d + (IF t = threads THEN r ELSE 0)
  BY DEF ShareOf, Share
<1> HIDE DEF d, r
<1>4. /\ \A t \in Thread : f[t] = d /\ g[t] \in Nat
      /\ g[threads] = d + r /\ \A t \in Thread \ {threads} : g[t] = f[t]
  <2>1. \A t \in Thread : g[t] = d + (IF t = threads THEN r ELSE 0)
    BY <1>3
  <2> HIDE DEF g
  <2> QED
    BY <1>1, <1>2, <2>1
<1>5. f \in [Thread -> Nat] /\ g \in [Thread -> Nat]
  BY <1>2, <1>4
<1>6. DOMAIN f = Thread
  OBVIOUS
<1> HIDE DEF f, g
<1>7. Total(f) = d * threads
  <2>1. Total(f) = SumOver(f, Thread)
    BY <1>6, TotalIs
  <2>2. SumOver(f, Thread) = d * Cardinality(Thread)
    BY <1>2, <1>4, ThreadsAreFinite, SumConstant
  <2> QED
    BY <2>1, <2>2, ThreadsAreFinite
<1>8. Total(g) + d = Total(f) + (d + r) /\ Total(f) \in Nat /\ Total(g) \in Nat
  BY <1>1, <1>4, <1>5, TotalMoves
<1>9. Total(g) = Total(f) + r
  BY <1>2, <1>8
<1> QED
  BY <1>2, <1>7, <1>9 DEF g

LEMMA TotalAdd ==
  ASSUME Args, NEW f \in [Thread -> Nat], NEW g \in [Thread -> Nat], NEW h \in [Thread -> Nat],
         \A t \in Thread : h[t] = f[t] + g[t]
  PROVE  Total(h) = Total(f) + Total(g) /\ Total(f) \in Nat /\ Total(g) \in Nat
<1>1. IsFiniteSet(Thread) /\ DOMAIN f = Thread /\ DOMAIN g = Thread /\ DOMAIN h = Thread
  BY ThreadsAreFinite
<1>2. /\ Total(f) = SumOver(f, Thread) /\ Total(g) = SumOver(g, Thread)
      /\ Total(h) = SumOver(h, Thread)
  BY <1>1, TotalIs
<1>3. SumOver(h, Thread) = SumOver(f, Thread) + SumOver(g, Thread)
  BY <1>1, SumAdd
<1>4. SumOver(f, Thread) \in Nat /\ SumOver(g, Thread) \in Nat
  BY <1>1, SumNat
<1> QED
  BY <1>2, <1>3, <1>4

\* When every thread is done, its queries are in the report or were never sent.
LEMMA ReportIsComplete == ASSUME IInv, Books PROVE ReportAgrees
<1> SUFFICES ASSUME mpc = "report"
             PROVE  /\ queries = Len(latencies_out) + Total(missed) + NotSent
                    /\ Len(latencies_out) = Total(count)
                    /\ Total(latencies_out) = Total(us_total)
  BY DEF ReportAgrees
<1>1. Args /\ threads # 0 /\ \A t \in Thread : tpc[t] = "done"
  BY DEF IInv, Books, Joined
<1> DEFINE share == [t \in Thread |-> ShareOf(t)]
           rest == [t \in Thread |-> ShareOf(t) - i[t]]
           done == [t \in Thread |-> Len(local_latencies[t])]
<1>2. \A t \in Thread : /\ ShareOf(t) \in Nat /\ i[t] \in Nat /\ missed[t] \in Nat
                        /\ i[t] <= ShareOf(t) /\ local_latencies[t] \in Seq(Nat)
                        /\ Len(local_latencies[t]) \in Nat
  BY <1>1, Shares, Measured, Added DEF IInv, Threads
<1>3. \A t \in Thread : i[t] = missed[t] + Len(local_latencies[t])
  <2> SUFFICES ASSUME NEW t \in Thread PROVE i[t] = missed[t] + Len(local_latencies[t])
    OBVIOUS
  <2>1. Open(t) = 0 /\ i[t] + Open(t) = missed[t] + Len(local_latencies[t])
    BY <1>1 DEF Open, Books, Ledger
  <2> QED
    BY <1>2, <2>1
<1>4. \A t \in Thread :
        /\ Counted(t) = Len(local_latencies[t]) /\ Merged(t) = Counted(t)
        /\ Timed(t) = Total(local_latencies[t]) /\ MergedTime(t) = Timed(t)
  <2> SUFFICES ASSUME NEW t \in Thread
               PROVE  /\ Counted(t) = Len(local_latencies[t]) /\ Merged(t) = Counted(t)
                      /\ Timed(t) = Total(local_latencies[t]) /\ MergedTime(t) = Timed(t)
    OBVIOUS
  <2>1. /\ Counted(t) = Len(local_latencies[t]) - 0 /\ Merged(t) = Len(local_latencies[t])
        /\ Timed(t) = SumTo(local_latencies[t], Len(local_latencies[t]) - 0)
        /\ MergedTime(t) = Total(local_latencies[t])
    BY <1>1 DEF Counted, Merged, Timed, MergedTime, Open
  <2>2. Len(local_latencies[t]) - 0 = Len(local_latencies[t])
    BY <1>2
  <2> QED
    BY <1>2, <2>1, <2>2, SumToIs
<1>5. Len(latencies_out) = Total(count) /\ Total(latencies_out) = Total(us_total)
  <2>1. [t \in Thread |-> Counted(t)] = [t \in Thread |-> Merged(t)]
    BY <1>4
  <2>2. [t \in Thread |-> Timed(t)] = [t \in Thread |-> MergedTime(t)]
    BY <1>4
  <2> QED
    BY <2>1, <2>2 DEF Books, Sums
<1>6. Len(latencies_out) = Total(done)
  <2>1. [t \in Thread |-> Merged(t)] = done
    BY <1>4
  <2> QED
    BY <2>1 DEF Books, Sums
<1>7. /\ share \in [Thread -> Nat] /\ rest \in [Thread -> Nat] /\ done \in [Thread -> Nat]
      /\ i \in [Thread -> Nat] /\ missed \in [Thread -> Nat]
  BY <1>2 DEF IInv, Threads
<1>8. \A t \in Thread : share[t] = i[t] + rest[t] /\ i[t] = missed[t] + done[t]
  BY <1>2, <1>3
<1>9. Total(share) = queries /\ Total(rest) = NotSent
  BY <1>1, SharesAddUp DEF NotSent
<1> HIDE DEF share, rest, done
<1>10. Total(share) = Total(i) + Total(rest) /\ Total(rest) \in Nat
  BY <1>1, <1>7, <1>8, TotalAdd
<1>11. Total(i) = Total(missed) + Total(done) /\ Total(missed) \in Nat /\ Total(done) \in Nat
  BY <1>1, <1>7, <1>8, TotalAdd
<1>12. queries = Len(latencies_out) + Total(missed) + NotSent
  BY <1>6, <1>9, <1>10, <1>11
<1> QED
  BY <1>5, <1>12

-----------------------------------------------------------------------------
\* The variables of main() and of the threads keep their types, and no thread sends
\* more queries than its share (benchmark.cpp, lines 153-217, 240-340).
THEOREM TypeCorrect == Spec => []TypeOK
<1>1. IInv => TypeOK
  BY DEF IInv, Args, Threads, Latencies, Network, TypeOK
<1> QED
  BY <1>1, Invariant, PTL

\* For any number of threads and queries, and however late the answers come: as many
\* answers to earlier queries as a thread has given up can still be mistaken for the
\* one it waits for, and no more (lines 108-131, 203).
THEOREM NoMoreStaleThanMissed == Spec => []StaleAnswers
<1>1. IInv => StaleAnswers
  <2> SUFFICES ASSUME IInv, NEW t \in Thread
               PROVE  Cardinality({n \in coming[t] : n # i[t]}) <= missed[t]
    BY DEF StaleAnswers
  <2>1. /\ IsFiniteSet(coming[t]) /\ missed[t] \in Nat
        /\ Cardinality(IF tpc[t] = "recv" THEN coming[t] \ {i[t]} ELSE coming[t]) <= missed[t]
    BY DEF IInv, Network, Owed, Threads
  <2>2. {n \in coming[t] : n # i[t]} = coming[t] \ {i[t]}
    OBVIOUS
  <2>3. /\ Cardinality(coming[t]) \in Nat /\ Cardinality(coming[t] \ {i[t]}) \in Nat
        /\ Cardinality(coming[t] \ {i[t]}) <= Cardinality(coming[t])
    BY <2>1, Cards
  <2> QED
    BY <2>1, <2>2, <2>3
<1> QED
  BY <1>1, Invariant, PTL

\* For any latencies measured, the percentiles that main() prints are measured ones,
\* in order, and none is above the last, which is the greatest (lines 232-237, 351-357).
THEOREM PercentilesAreOrdered == Spec => []PercentilesInOrder
<1>1. IInv => PercentilesInOrder
  <2> SUFFICES ASSUME IInv PROVE PercentilesInOrder
    OBVIOUS
  <2>1. latencies_out \in Seq(Latency) /\ Latency \subseteq Nat
    BY BenchmarkAssumption DEF IInv, Latencies
  <2>2. latencies_out \in Seq(Nat)
    BY <2>1, SeqMonotonic
  <2> QED
    BY <2>2, Percentiles
<1> QED
  BY <1>1, Invariant, PTL

\* For any number of queries and threads and however the threads' steps interleave, what
\* main() prints agrees: each query is completed, was given up or was never sent, and the
\* categories count the completed ones and add up their latencies (lines 205-225, 325-369).
THEOREM ReportIsRight == Spec => []ReportAgrees
<1>1. IInv /\ Books => ReportAgrees
  BY ReportIsComplete
<1> QED
  BY <1>1, Invariant, BooksInvariant, PTL
-----------------------------------------------------------------------------
(* How long a thread can go on                                             *)

\* More than the steps that a thread still takes: four for each query of its share
\* that is not done with
StepsLeft(t) ==
  CASE tpc[t] = "none" -> 4 * (ShareOf(t) - i[t]) + 5
    [] tpc[t] = "socket" -> 4 * (ShareOf(t) - i[t]) + 4
    [] tpc[t] = "loop" -> 4 * (ShareOf(t) - i[t]) + 3
    [] tpc[t] = "recv" -> 4 * (ShareOf(t) - i[t]) + 2
    [] tpc[t] = "count" -> 4 * (ShareOf(t) - i[t]) + 1
    [] tpc[t] = "add" -> 4 * (ShareOf(t) - i[t])
    [] tpc[t] = "merge" -> 2
    [] tpc[t] = "done" -> 0

Moves(t) == tpc'[t] # tpc[t] \/ i'[t] # i[t]

LEMMA StepsLeftBounded ==
  ASSUME Args, Threads, NEW t \in Thread
  PROVE  StepsLeft(t) \in 0..(4 * ShareOf(t) + 5)
<1>1. /\ ShareOf(t) \in Nat /\ i[t] \in Nat /\ i[t] <= ShareOf(t)
      /\ tpc[t] \in {"none", "socket", "loop", "recv", "count", "add", "merge", "done"}
  BY Shares DEF Threads
<1> QED
  BY <1>1 DEF StepsLeft

LEMMA StepsLeftFall ==
  ASSUME IInv, MainStep \/ (\E t \in Thread : ThreadStep(t) \/ Answer(t)) \/ Exited,
         NEW u \in Thread
  PROVE  IF Moves(u) THEN StepsLeft(u)' < StepsLeft(u) ELSE StepsLeft(u)' = StepsLeft(u)
<1>1. /\ ShareOf(u) \in Nat /\ i[u] \in Nat /\ i[u] <= ShareOf(u)
      /\ tpc[u] \in Waiting => i[u] < ShareOf(u)
      /\ tpc \in [Thread -> Places] /\ i \in [Thread -> Nat]
  BY Shares DEF IInv, Threads, Places
<1>2. ShareOf(u)' = ShareOf(u)
  BY DEF MainStep, Usage, Begin, Launch, Join, Report, Advance, Main, ThreadStep, Answer, NoSocket,
         Socket, Send, SendFails, Timeout, CountQuery, AddTime, Close, Merge, Lose, Receive,
         Go, NoAnswer, Exited, args, vars, ShareOf, Share
<1>3. CASE ~Moves(u)
  BY <1>2, <1>3 DEF Moves, StepsLeft
<1>4. CASE MainStep /\ Moves(u)
  <2>1. i' = i /\ (tpc' = tpc \/ (mpc = "launch" /\ tpc' = [tpc EXCEPT ![next] = "socket"]))
    BY <1>4 DEF MainStep, Usage, Begin, Launch, Join, Report, Advance, Main
  <2>2. u = next /\ mpc = "launch" /\ tpc'[u] = "socket"
    BY <1>1, <1>4, <2>1 DEF Moves
  <2>3. tpc[u] = "none"
    <3>1. next >= next
      BY BenchmarkAssumption DEF IInv, Args
    <3> QED
      BY <2>2, <3>1 DEF IInv, Unlaunched
  <2>4. StepsLeft(u) = 4 * (ShareOf(u) - i[u]) + 5
    BY <2>3 DEF StepsLeft
  <2>5. StepsLeft(u)' = 4 * (ShareOf(u) - i[u]) + 4
    BY <1>2, <2>1, <2>2 DEF StepsLeft
  <2> QED
    BY <1>1, <1>4, <2>4, <2>5
<1>5. ASSUME NEW t \in Thread, ThreadStep(t) \/ Answer(t), Moves(u)
      PROVE  StepsLeft(u)' < StepsLeft(u)
  <2>1. u = t
    BY <1>1, <1>5 DEF ThreadStep, Answer, NoSocket, Socket, Send, SendFails, Timeout, CountQuery,
       AddTime, Close, Merge, Lose, Receive, Go, NoAnswer, Moves
  <2>2. ~\E n \in coming[u] : Lose(u, n)
    BY <1>5 DEF Lose, Moves
  <2> USE DEF Go, NoAnswer, Waiting, StepsLeft
  <2>3. CASE NoSocket(u)
    BY <1>1, <1>2, <2>3 DEF NoSocket
  <2>4. CASE Socket(u)
    BY <1>1, <1>2, <2>4 DEF Socket
  <2>5. CASE Send(u)
    BY <1>1, <1>2, <2>5 DEF Send
  <2>6. CASE SendFails(u) \/ Timeout(u)
    BY <1>1, <1>2, <2>6 DEF SendFails, Timeout
  <2>7. CASE \E n \in coming[u] : \E lat \in Latency : Receive(u, n, lat)
    BY <1>1, <1>2, <2>7 DEF Receive
  <2>8. CASE CountQuery(u)
    BY <1>1, <1>2, <2>8 DEF CountQuery
  <2>9. CASE AddTime(u)
    BY <1>1, <1>2, <2>9 DEF AddTime
  <2>10. CASE Close(u)
    BY <1>1, <1>2, <2>10 DEF Close
  <2>11. CASE Merge(u)
    BY <1>1, <1>2, <2>11 DEF Merge
  <2> QED
    BY <1>5, <2>1, <2>2, <2>3, <2>4, <2>5, <2>6, <2>7, <2>8, <2>9, <2>10, <2>11
       DEF ThreadStep, Answer
<1>6. CASE Exited
  BY <1>3, <1>6 DEF Exited, vars, Moves
<1> QED
  BY <1>3, <1>4, <1>5, <1>6

\* For any share, and whatever the network loses, delays or brings late: no thread takes
\* more than four steps per query and five besides, and no other thread or main() can put it
\* back.  With the fairness of Spec this is why the benchmark ends (lines 184-224).
THEOREM ThreadsAreBounded ==
  Spec => /\ [](\A t \in Thread : StepsLeft(t) \in 0..(4 * ShareOf(t) + 5))
          /\ [][\A t \in Thread : IF Moves(t) THEN StepsLeft(t)' < StepsLeft(t)
                                  ELSE StepsLeft(t)' = StepsLeft(t)]_vars
<1>1. IInv => \A t \in Thread : StepsLeft(t) \in 0..(4 * ShareOf(t) + 5)
  BY StepsLeftBounded DEF IInv
<1>2. IInv /\ [Next]_vars =>
        [\A t \in Thread : IF Moves(t) THEN StepsLeft(t)' < StepsLeft(t)
                           ELSE StepsLeft(t)' = StepsLeft(t)]_vars
  BY StepsLeftFall DEF Next
<1> QED
  BY <1>1, <1>2, Invariant, PTL DEF Spec
=============================================================================
