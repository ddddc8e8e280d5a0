---------------------------- MODULE ReportProofs ----------------------------
(***************************************************************************)
(* What the scores and the choices of a report come to, for any findings,  *)
(* signatures and weights.  The functions that a fold over a finite set    *)
(* defines are made by hand here, as well as the inductions over its       *)
(* subsets.                                                                *)
(***************************************************************************)
EXTENDS Report, FiniteSetTheorems, TLAPS

\* Induction over the numbers, as the least of those for which something fails.
LEMMA LeastNumber ==
    ASSUME NEW N \in SUBSET Nat, N # {}
    PROVE  \E n \in N : \A m \in N : n <= m
<1> DEFINE below == {pair \in Nat \X Nat : pair[1] < pair[2]}
<1>1. IsWellFoundedOn(below, Nat)
  BY NatLessThanWellFounded DEF OpToRel
<1> HIDE DEF below
<1>2. \E n \in N : \A m \in N : <<m, n>> \notin below
  BY <1>1, WFMin
<1>3. \A m, n \in Nat : <<m, n>> \notin below => n <= m
  BY DEF below
<1> QED
  BY <1>2, <1>3

\* Induction over the subsets of a finite set, as a smallest one for which
\* something fails.
LEMMA LeastSubset ==
    ASSUME NEW S, IsFiniteSet(S), NEW C \in SUBSET SUBSET S, C # {}
    PROVE  \E T \in C : \A U \in SUBSET T : U # T => U \notin C
<1>1. C \subseteq FiniteSubsetsOf(S)
  BY FS_FiniteSubsetsOfFinite
<1>2. \E T \in C : \A U \in C : <<U, T>> \notin StrictSubsetOrdering(S)
  BY <1>1, FS_StrictSubsetOrderingWellFounded, WFMin
<1> QED
  BY <1>2 DEF StrictSubsetOrdering

\* The member a fold takes next.
AnyOf(T) == CHOOSE x \in T : TRUE

\* A set of sets that contains the empty one, and every set of which it contains
\* what AnyOf leaves.
LEMMA SubsetInduction ==
    ASSUME NEW S, IsFiniteSet(S), NEW Good, {} \in Good,
           \A T \in SUBSET S : T # {} /\ T \ {AnyOf(T)} \in Good => T \in Good
    PROVE  \A T \in SUBSET S : T \in Good
<1> SUFFICES ASSUME (SUBSET S) \ Good # {} PROVE FALSE
  OBVIOUS
<1>1. PICK T \in (SUBSET S) \ Good : \A U \in SUBSET T : U # T => U \notin (SUBSET S) \ Good
  <2> DEFINE Bad == (SUBSET S) \ Good
  <2>1. Bad \in SUBSET SUBSET S /\ Bad # {}
    OBVIOUS
  <2> HIDE DEF Bad
  <2>2. \E T \in Bad : \A U \in SUBSET T : U # T => U \notin Bad
    BY <2>1, LeastSubset
  <2> QED
    BY <2>2 DEF Bad
<1>2. T # {} /\ AnyOf(T) \in T
  BY DEF AnyOf
<1>3. T \ {AnyOf(T)} \in Good
  BY <1>1, <1>2
<1> QED
  BY <1>2, <1>3

\* What a recursion over the subsets of S computes.
Unrolls(g, S, base, step) ==
    \A T \in SUBSET S : g[T] = IF T = {} THEN base ELSE step[AnyOf(T)][g[T \ {AnyOf(T)}]]

\* There is such a function: it is made for the sets of at most n members, for
\* one n after the other.
LEMMA RecursionOnSubsets ==
    ASSUME NEW S, IsFiniteSet(S), NEW V, NEW base \in V, NEW step \in [S -> [V -> V]]
    PROVE  \E g \in [SUBSET S -> V] : Unrolls(g, S, base, step)
<1> DEFINE Value(g, T) == IF T = {} THEN base ELSE step[AnyOf(T)][g[T \ {AnyOf(T)}]]
           UpTo(g, n) == \A T \in SUBSET S : Cardinality(T) <= n => g[T] = Value(g, T)
           Reached == {n \in Nat : \E g \in [SUBSET S -> V] : UpTo(g, n)}
<1>1. \A T \in SUBSET S : /\ IsFiniteSet(T) /\ Cardinality(T) \in Nat
                          /\ Cardinality(T) <= Cardinality(S)
                          /\ Cardinality(T) = 0 <=> T = {}
  BY FS_Subset, FS_CardinalityType, FS_EmptySet
<1>2. ASSUME NEW T \in SUBSET S, T # {}
      PROVE  /\ AnyOf(T) \in T /\ T \ {AnyOf(T)} \in SUBSET S
             /\ Cardinality(T \ {AnyOf(T)}) = Cardinality(T) - 1
  <2>1. AnyOf(T) \in T
    BY <1>2 DEF AnyOf
  <2> QED
    BY <1>1, <2>1, FS_RemoveElement
<1>3. ASSUME NEW g \in [SUBSET S -> V], NEW T \in SUBSET S PROVE Value(g, T) \in V
  <2>1. CASE T = {}
    BY <2>1
  <2>2. CASE T # {}
    <3>1. step[AnyOf(T)] \in [V -> V] /\ g[T \ {AnyOf(T)}] \in V
      BY <1>2, <2>2
    <3> QED
      BY <2>2, <3>1
  <2> QED
    BY <2>1, <2>2
<1>4. 0 \in Reached
  <2>1. UpTo([T \in SUBSET S |-> base], 0)
    BY <1>1
  <2> QED
    BY <2>1
<1>5. ASSUME NEW n \in Reached PROVE n + 1 \in Reached
  <2>1. PICK g \in [SUBSET S -> V] : UpTo(g, n)
    OBVIOUS
  <2> DEFINE h == [T \in SUBSET S |-> IF Cardinality(T) <= n THEN g[T] ELSE Value(g, T)]
  <2>2. h \in [SUBSET S -> V]
    BY <1>3
  <2>3. ASSUME NEW T \in SUBSET S, Cardinality(T) <= n + 1 PROVE h[T] = Value(h, T)
    <3>1. h[T] = Value(g, T)
      BY <2>1
    <3>2. T # {} => h[T \ {AnyOf(T)}] = g[T \ {AnyOf(T)}]
      <4> SUFFICES ASSUME T # {} PROVE h[T \ {AnyOf(T)}] = g[T \ {AnyOf(T)}]
        OBVIOUS
      <4> HIDE DEF Value
      <4> QED
        BY <1>1, <1>2, <2>3
    <3> HIDE DEF h
    <3> QED
      BY <3>1, <3>2
  <2> HIDE DEF h, Value
  <2> QED
    BY <2>2, <2>3
<1> HIDE DEF Value
<1>6. Cardinality(S) \in Reached
  <2> SUFFICES ASSUME Cardinality(S) \notin Reached PROVE FALSE
    OBVIOUS
  <2>1. Cardinality(S) \in Nat
    BY <1>1
  <2> HIDE DEF Reached
  <2>2. PICK n \in Nat \ Reached : \A m \in Nat \ Reached : n <= m
    BY <2>1, LeastNumber
  <2>3. n # 0 /\ n - 1 \in Nat
    BY <1>4, <2>2
  <2>4. n - 1 \in Reached
    BY <2>2, <2>3
  <2> QED
    BY <1>5, <2>2, <2>4
<1> QED
  BY <1>1, <1>6 DEF Value, Unrolls


\* The sums of the subsets of S, and what each of them yields up to a cap.
IsTotal(g, S, f) ==
    \A T \in SUBSET S : g[T] = IF T = {} THEN 0 ELSE f[AnyOf(T)] + g[T \ {AnyOf(T)}]

\* What _difficulty_factors has after one more finding.
Filled(p, got, cap) == got + Least(p, cap - got)

IsCapped(g, S, f, cap) ==
    \A T \in SUBSET S :
        g[T] = IF T = {} THEN 0 ELSE Filled(f[AnyOf(T)], g[T \ {AnyOf(T)}], cap)

\* SumFunction adds what the definition of its fold says.
LEMMA RunningTotal ==
    ASSUME NEW S, IsFiniteSet(S), NEW f \in [S -> Nat]
    PROVE  \E total \in [SUBSET S -> Nat] : SumFunction(f) = total[S] /\ IsTotal(total, S, f)
<1> DEFINE Totals(g) == g = [T \in SUBSET S |->
                               IF T = {} THEN 0 ELSE f[AnyOf(T)] + g[T \ {AnyOf(T)}]]
           total == CHOOSE g : Totals(g)
<1>1. SumFunction(f) = total[S]
  BY DEF SumFunction, SumFunctionOnSet, FoldFunctionOnSet, MapThenFoldSet, AnyOf
<1>2. \A T \in SUBSET S : T # {} => AnyOf(T) \in T /\ T \ {AnyOf(T)} \in SUBSET S
  BY DEF AnyOf
<1>3. \E g : Totals(g)
  <2> DEFINE step == [x \in S |-> [v \in Nat |-> f[x] + v]]
  <2>1. 0 \in Nat /\ step \in [S -> [Nat -> Nat]]
    OBVIOUS
  <2>2. \A x \in S, v \in Nat : step[x][v] = f[x] + v
    OBVIOUS
  <2> HIDE DEF step
  <2>3. PICK g \in [SUBSET S -> Nat] : Unrolls(g, S, 0, step)
    BY <2>1, RecursionOnSubsets
  <2>4. ASSUME NEW T \in SUBSET S, T # {}
        PROVE  step[AnyOf(T)][g[T \ {AnyOf(T)}]] = f[AnyOf(T)] + g[T \ {AnyOf(T)}]
    BY <1>2, <2>2, <2>4
  <2>5. ASSUME NEW T \in SUBSET S
        PROVE  g[T] = IF T = {} THEN 0 ELSE f[AnyOf(T)] + g[T \ {AnyOf(T)}]
    BY <2>3, <2>4, Zenon DEF Unrolls
  <2>6. g = [T \in SUBSET S |-> g[T]]
    OBVIOUS
  <2>7. Totals(g)
    BY <2>5, <2>6
  <2> QED
    BY <2>7
<1>4. Totals(total)
  <2> HIDE DEF Totals
  <2> QED
    BY <1>3
<1> HIDE DEF total
<1>5. total = [T \in SUBSET S |-> total[T]]
  BY <1>4
<1>6. \A T \in SUBSET S :
         total[T] = IF T = {} THEN 0 ELSE f[AnyOf(T)] + total[T \ {AnyOf(T)}]
  BY <1>4
<1>7. total[{}] = 0
  BY <1>6, Zenon
<1>8. ASSUME NEW T \in SUBSET S, T # {}, total[T \ {AnyOf(T)}] \in Nat
      PROVE  total[T] \in Nat
  <2>1. total[T] = f[AnyOf(T)] + total[T \ {AnyOf(T)}]
    BY <1>6, <1>8, Zenon
  <2>2. f[AnyOf(T)] \in Nat
    BY <1>2, <1>8
  <2> QED
    BY <1>8, <2>1, <2>2
<1>9. \A T \in SUBSET S : total[T] \in Nat
  <2> DEFINE Good == {T \in SUBSET S : total[T] \in Nat}
  <2>1. {} \in Good
    BY <1>7
  <2>2. \A T \in SUBSET S : T # {} /\ T \ {AnyOf(T)} \in Good => T \in Good
    BY <1>2, <1>8
  <2> HIDE DEF Good
  <2>3. \A T \in SUBSET S : T \in Good
    BY <2>1, <2>2, SubsetInduction
  <2> QED
    BY <2>3 DEF Good
<1> QED
  BY <1>1, <1>5, <1>6, <1>9 DEF IsTotal

\* UpToCap goes on as its fold says, and never exceeds the cap.
LEMMA RunningPoints ==
    ASSUME NEW S, IsFiniteSet(S), NEW f \in [S -> Nat], NEW cap \in Nat
    PROVE  \E points \in [SUBSET S -> 0 .. cap] :
              UpToCap(f, cap) = points[S] /\ IsCapped(points, S, f, cap)
<1> DEFINE V == 0 .. cap
           Defines(g) == g = [T \in SUBSET S |->
                               IF T = {} THEN 0 ELSE Filled(f[AnyOf(T)], g[T \ {AnyOf(T)}], cap)]
           points == CHOOSE g : Defines(g)
<1>1. UpToCap(f, cap) = points[S]
  BY DEF UpToCap, FoldFunction, FoldFunctionOnSet, MapThenFoldSet, AnyOf, Filled
<1>2. \A T \in SUBSET S : T # {} => AnyOf(T) \in T /\ T \ {AnyOf(T)} \in SUBSET S
  BY DEF AnyOf
<1>3. 0 \in V /\ \A p \in Nat, got \in V : Filled(p, got, cap) \in V
  BY DEF Least, Filled
<1> HIDE DEF V
<1>4. \E g : Defines(g)
  <2> DEFINE step == [x \in S |-> [v \in V |-> Filled(f[x], v, cap)]]
  <2>1. step \in [S -> [V -> V]]
    BY <1>3
  <2>2. \A x \in S, v \in V : step[x][v] = Filled(f[x], v, cap)
    OBVIOUS
  <2> HIDE DEF step
  <2>3. PICK g \in [SUBSET S -> V] : Unrolls(g, S, 0, step)
    BY <1>3, <2>1, RecursionOnSubsets
  <2>4. ASSUME NEW T \in SUBSET S, T # {}
        PROVE  step[AnyOf(T)][g[T \ {AnyOf(T)}]] = Filled(f[AnyOf(T)], g[T \ {AnyOf(T)}], cap)
    BY <1>2, <2>2, <2>4
  <2>5. ASSUME NEW T \in SUBSET S
        PROVE  g[T] = IF T = {} THEN 0 ELSE Filled(f[AnyOf(T)], g[T \ {AnyOf(T)}], cap)
    BY <2>3, <2>4, Zenon DEF Unrolls
  <2>6. g = [T \in SUBSET S |-> g[T]]
    OBVIOUS
  <2>7. Defines(g)
    BY <2>5, <2>6
  <2> QED
    BY <2>7
<1>5. Defines(points)
  <2> HIDE DEF Defines
  <2> QED
    BY <1>4
<1> HIDE DEF points
<1>6. points = [T \in SUBSET S |-> points[T]]
  BY <1>5
<1>7. \A T \in SUBSET S :
         points[T] = IF T = {} THEN 0 ELSE Filled(f[AnyOf(T)], points[T \ {AnyOf(T)}], cap)
  BY <1>5
<1>8. points[{}] = 0
  BY <1>7, Zenon
<1>9. ASSUME NEW T \in SUBSET S, T # {}, points[T \ {AnyOf(T)}] \in V
      PROVE  points[T] \in V
  <2>1. points[T] = Filled(f[AnyOf(T)], points[T \ {AnyOf(T)}], cap)
    BY <1>7, <1>9, Zenon
  <2>2. f[AnyOf(T)] \in Nat
    BY <1>2, <1>9
  <2> QED
    BY <1>3, <1>9, <2>1, <2>2
<1>10. \A T \in SUBSET S : points[T] \in V
  <2> DEFINE Good == {T \in SUBSET S : points[T] \in V}
  <2>1. {} \in Good
    BY <1>3, <1>8
  <2>2. \A T \in SUBSET S : T # {} /\ T \ {AnyOf(T)} \in Good => T \in Good
    BY <1>2, <1>9
  <2> HIDE DEF Good
  <2>3. \A T \in SUBSET S : T \in Good
    BY <2>1, <2>2, SubsetInduction
  <2> QED
    BY <2>3 DEF Good
<1> QED
  <2>1. points \in [SUBSET S -> V]
    BY <1>6, <1>10 DEF V
  <2>2. IsCapped(points, S, f, cap)
    BY <1>7 DEF IsCapped
  <2> QED
    BY <1>1, <2>1, <2>2 DEF V

\* Taking points one by one, each as far as the cap allows, gives their sum cut at
\* the cap: UpToCap, for any points and any cap.
THEOREM CappedSum ==
    ASSUME NEW S, IsFiniteSet(S), NEW f \in [S -> Nat], NEW cap \in Nat
    PROVE  UpToCap(f, cap) = Least(cap, SumFunction(f))
<1>1. PICK total \in [SUBSET S -> Nat] : SumFunction(f) = total[S] /\ IsTotal(total, S, f)
  BY RunningTotal
<1>2. PICK points \in [SUBSET S -> 0 .. cap] :
         UpToCap(f, cap) = points[S] /\ IsCapped(points, S, f, cap)
  BY RunningPoints
<1> DEFINE Good == {T \in SUBSET S : points[T] = Least(cap, total[T])}
<1>3. {} \in Good
  <2>1. points[{}] = 0 /\ total[{}] = 0
    BY <1>1, <1>2, Zenon DEF IsTotal, IsCapped
  <2> QED
    BY <2>1 DEF Least
<1>4. ASSUME NEW T \in SUBSET S, T # {}, T \ {AnyOf(T)} \in Good
      PROVE  T \in Good
  <2> DEFINE x == AnyOf(T)
             rest == T \ {AnyOf(T)}
  <2>1. f[x] \in Nat /\ total[rest] \in Nat /\ points[rest] \in 0 .. cap
    BY <1>4 DEF AnyOf
  <2>2. total[T] = f[x] + total[rest]
    BY <1>1, <1>4, Zenon DEF IsTotal
  <2>3. points[T] = Filled(f[x], points[rest], cap)
    BY <1>2, <1>4, Zenon DEF IsCapped
  <2>4. points[rest] = Least(cap, total[rest])
    BY <1>4
  <2> HIDE DEF x, rest
  <2>5. points[T] = Least(cap, total[T])
    BY <2>1, <2>2, <2>3, <2>4 DEF Least, Filled
  <2> QED
    BY <2>5
<1> HIDE DEF Good
<1>5. S \in Good
  BY <1>3, <1>4, SubsetInduction
<1> QED
  BY <1>1, <1>2, <1>5 DEF Good

\* Whichever member is taken out, the rest is the total of the others.
AddsAny(g, S, f) == \A T \in SUBSET S : \A x \in T : g[T] = f[x] + g[T \ {x}]

\* A sum does not depend on where it begins.
LEMMA AnyOneFirst ==
    ASSUME NEW S, IsFiniteSet(S), NEW f \in [S -> Nat],
           NEW total \in [SUBSET S -> Nat], IsTotal(total, S, f)
    PROVE  AddsAny(total, S, f)
<1> USE DEF AddsAny
<1> DEFINE Bad == {U \in SUBSET S : \E y \in U : total[U] # f[y] + total[U \ {y}]}
<1> SUFFICES ASSUME Bad # {} PROVE FALSE
  OBVIOUS
<1>1. PICK U \in Bad : \A V \in SUBSET U : V # U => V \notin Bad
  <2>1. Bad \in SUBSET SUBSET S
    OBVIOUS
  <2> HIDE DEF Bad
  <2> QED
    BY <2>1, LeastSubset
<1>2. PICK y \in U : total[U] # f[y] + total[U \ {y}]
  OBVIOUS
<1> DEFINE a == AnyOf(U)
<1>3. a \in U /\ total[U] = f[a] + total[U \ {a}]
  <2>1. AnyOf(U) \in U /\ U # {}
    BY <1>2 DEF AnyOf
  <2> QED
    BY <2>1, Zenon DEF IsTotal
<1>4. a # y
  BY <1>2, <1>3
<1> HIDE DEF a
<1>5. total[U \ {a}] = f[y] + total[(U \ {a}) \ {y}]
  BY <1>1, <1>2, <1>3, <1>4
<1>6. total[U \ {y}] = f[a] + total[(U \ {y}) \ {a}]
  BY <1>1, <1>2, <1>3, <1>4
<1>7. (U \ {a}) \ {y} = (U \ {y}) \ {a}
  OBVIOUS
<1> DEFINE rest == total[(U \ {a}) \ {y}]
<1>8. total[U \ {a}] = f[y] + rest /\ total[U \ {y}] = f[a] + rest
  BY <1>5, <1>6, <1>7
<1>9. f[a] \in Nat /\ f[y] \in Nat /\ rest \in Nat
  BY <1>2, <1>3
<1> HIDE DEF rest
<1> QED
  BY <1>2, <1>3, <1>8, <1>9

\* The loop of _difficulty_factors, over findings in any order, as the detectors
\* happen to return them: the points that are added up are those of UpToCap.
THEOREM AnyOrder ==
    ASSUME NEW S, IsFiniteSet(S), NEW f \in [S -> Nat], NEW cap \in Nat,
           NEW n \in Nat, NEW order \in Bijection(1 .. n, S),
           NEW got, got[0] = 0,
           \A i \in 1 .. n : got[i] = got[i - 1] + Least(f[order[i]], cap - got[i - 1])
    PROVE  got[n] = UpToCap(f, cap)
<1>1. PICK total \in [SUBSET S -> Nat] : SumFunction(f) = total[S] /\ IsTotal(total, S, f)
  BY RunningTotal
<1> DEFINE Taken(i) == {order[j] : j \in 1 .. i}
           Off == {i \in 0 .. n : got[i] # Least(cap, total[Taken(i)])}
<1>2. order \in [1 .. n -> S] /\ (\A i, j \in 1 .. n : order[i] = order[j] => i = j)
      /\ \A s \in S : \E i \in 1 .. n : order[i] = s
  BY DEF Bijection, Injection, Surjection, IsInjective
<1>3. Taken(0) = {} /\ Taken(n) = S
  BY <1>2
<1>4. 0 \notin Off
  <2>1. total[Taken(0)] = 0
    BY <1>1, <1>3, Zenon DEF IsTotal
  <2> HIDE DEF Taken
  <2> QED
    BY <2>1 DEF Least
<1>5. ASSUME NEW i \in 1 .. n, i - 1 \notin Off PROVE i \notin Off
  <2>1. order[i] \in Taken(i) /\ Taken(i) \in SUBSET S
    BY <1>2
  <2>2. Taken(i) \ {order[i]} = Taken(i - 1)
    <3>1. \A j \in 1 .. i : order[j] # order[i] <=> j \in 1 .. (i - 1)
      BY <1>2
    <3>2. ASSUME NEW x \in Taken(i) \ {order[i]} PROVE x \in Taken(i - 1)
      <4>1. PICK j \in 1 .. i : order[j] = x
        OBVIOUS
      <4>2. j \in 1 .. (i - 1)
        BY <3>1, <4>1
      <4> QED
        BY <4>1, <4>2
    <3>3. ASSUME NEW x \in Taken(i - 1) PROVE x \in Taken(i) \ {order[i]}
      <4>1. PICK j \in 1 .. (i - 1) : order[j] = x
        OBVIOUS
      <4>2. j \in 1 .. i /\ order[j] # order[i]
        BY <3>1
      <4> QED
        BY <4>1, <4>2
    <3> HIDE DEF Taken
    <3> QED
      BY <3>2, <3>3
  <2>3. total[Taken(i)] = f[order[i]] + total[Taken(i - 1)]
    <3>1. AddsAny(total, S, f)
      BY <1>1, AnyOneFirst
    <3> HIDE DEF Taken
    <3>2. total[Taken(i)] = f[order[i]] + total[Taken(i) \ {order[i]}]
      BY <2>1, <3>1, Zenon DEF AddsAny
    <3> QED
      BY <2>2, <3>2, Zenon
  <2>4. got[i - 1] = Least(cap, total[Taken(i - 1)]) /\ i - 1 \in 0 .. n
    BY <1>5
  <2>5. got[i] = got[i - 1] + Least(f[order[i]], cap - got[i - 1])
    OBVIOUS
  <2>6. f[order[i]] \in Nat /\ total[Taken(i - 1)] \in Nat
    BY <1>2, <2>1, <2>2
  <2> HIDE DEF Taken
  <2> DEFINE p == f[order[i]]
             before == total[Taken(i - 1)]
  <2>7. /\ p \in Nat /\ before \in Nat /\ got[i - 1] = Least(cap, before)
        /\ got[i] = got[i - 1] + Least(p, cap - got[i - 1]) /\ total[Taken(i)] = p + before
    BY <2>3, <2>4, <2>5, <2>6
  <2> HIDE DEF p, before
  <2>8. got[i] = Least(cap, total[Taken(i)])
    BY <2>7 DEF Least
  <2> QED
    BY <2>8
<1>6. Off = {}
  <2> SUFFICES ASSUME Off # {} PROVE FALSE
    OBVIOUS
  <2>1. Off \in SUBSET Nat /\ \A i \in Off : i \in 0 .. n
    OBVIOUS
  <2> HIDE DEF Off
  <2>2. PICK i \in Off : \A j \in Off : i <= j
    BY <2>1, LeastNumber
  <2>3. i \in 1 .. n /\ i - 1 \notin Off
    BY <1>4, <2>1, <2>2
  <2> QED
    BY <1>5, <2>2, <2>3
<1>7. n \in 0 .. n
  OBVIOUS
<1>8. got[n] = Least(cap, total[S])
  BY <1>3, <1>6, <1>7
<1> QED
  BY <1>1, <1>8, CappedSum

\* The points of the fingerprinting findings can be counted.
LEMMA FingerprintSum ==
    ASSUME NEW S, IsFiniteSet(S)
    PROVE  SumFunction([p \in S |-> FingerprintPoints(p)])
             = 7 * Cardinality(S) - If(Reads \in S, 2)
<1> DEFINE f == [p \in S |-> FingerprintPoints(p)]
<1>1. f \in [S -> Nat]
  BY DEF FingerprintPoints
<1>2. PICK total \in [SUBSET S -> Nat] : SumFunction(f) = total[S] /\ IsTotal(total, S, f)
  <2> HIDE DEF f
  <2> QED
    BY <1>1, RunningTotal
<1> DEFINE Good == {T \in SUBSET S : total[T] = 7 * Cardinality(T) - If(Reads \in T, 2)}
<1>3. {} \in Good
  <2>1. total[{}] = 0 /\ Cardinality({}) = 0
    BY <1>2, FS_EmptySet, Zenon DEF IsTotal
  <2> QED
    BY <2>1 DEF If
<1>4. ASSUME NEW T \in SUBSET S, T # {}, T \ {AnyOf(T)} \in Good PROVE T \in Good
  <2> DEFINE x == AnyOf(T)
             rest == T \ {AnyOf(T)}
  <2>1. x \in T
    BY <1>4 DEF AnyOf
  <2>2. IsFiniteSet(T)
    BY FS_Subset
  <2>3. Cardinality(rest) = Cardinality(T) - 1 /\ Cardinality(T) \in Nat
    BY <2>1, <2>2, FS_RemoveElement, FS_CardinalityType
  <2>4. total[T] = f[x] + total[rest]
    BY <1>2, <1>4, Zenon DEF IsTotal
  <2>5. total[rest] = 7 * Cardinality(rest) - If(Reads \in rest, 2)
    BY <1>4
  <2>6. f[x] = FingerprintPoints(x)
    BY <2>1
  <2>7. Reads \in T <=> Reads \in rest \/ Reads = x
    BY <2>1
  <2>8. Reads = x => Reads \notin rest
    OBVIOUS
  <2> HIDE DEF x, rest, f
  <2>9. total[T] = 7 * Cardinality(T) - If(Reads \in T, 2)
    BY <2>3, <2>4, <2>5, <2>6, <2>7, <2>8 DEF If, FingerprintPoints
  <2> QED
    BY <2>9
<1> HIDE DEF Good
<1>5. S \in Good
  BY <1>3, <1>4, SubsetInduction
<1> QED
  BY <1>2, <1>5 DEF Good

-----------------------------------------------------------------------------
\* The values of the findings.
Postures ==
    [headers : SUBSET Headers, cookies : SUBSET CookieIssues, csrf : BOOLEAN, mfa : BOOLEAN]

FindingSets ==
    [provider : AuthSigs \cup {Custom, None}, flows : SUBSET Flows, security : SUBSET Postures,
     captchas : SUBSET CaptchaSigs, wafs : SUBSET WafSigs,
     fingerprinting : SUBSET (FingerprintSigs \cup {Reads})]

\* What the detectors find is made of signatures that there are.
LEMMA FindingsTyped ==
    ASSUME NEW a \in Artifacts, NEW failed, NEW winner \in AuthSigs \cup {None}
    PROVE  Findings(a, failed, winner) \in FindingSets
<1>1. Provider(a, winner) \in AuthSigs \cup {Custom, None}
  BY DEF Provider
<1>2. a.flows \in SUBSET Flows /\ Posture(a) \in Postures
  BY DEF Artifacts, Posture, Postures
<1>3. /\ Captchas(a) \in SUBSET CaptchaSigs /\ Wafs(a) \in SUBSET WafSigs
      /\ Fingerprinting(a) \in SUBSET (FingerprintSigs \cup {Reads})
  BY DEF Captchas, Wafs, Fingerprinting, Matched
<1> QED
  BY <1>1, <1>2, <1>3 DEF Findings, FoundBy, FindingSets

\* No detector finds more signatures than there are.
LEMMA FiniteFindings ==
    ASSUME NEW f \in FindingSets
    PROVE  IsFiniteSet(f.wafs) /\ IsFiniteSet(f.captchas) /\ IsFiniteSet(f.fingerprinting)
<1>1. f.wafs \in SUBSET Signatures /\ f.captchas \in SUBSET Signatures
      /\ f.fingerprinting \in SUBSET (Signatures \cup {Reads})
  BY DEF FindingSets, Signatures
<1>2. IsFiniteSet(Signatures) /\ IsFiniteSet(Signatures \cup {Reads})
  BY SignaturesAssumption, FS_AddElement
<1> QED
  BY <1>1, <1>2, FS_Subset

\* Every finding has a number of points.
LEMMA PointsTyped ==
    ASSUME NEW a, NEW f \in FindingSets
    PROVE  /\ [w \in f.wafs |-> WafPoints(w)] \in [f.wafs -> Nat]
           /\ [c \in f.captchas |-> CaptchaPoints(a.widgets, c)] \in [f.captchas -> Nat]
           /\ [p \in f.fingerprinting |-> FingerprintPoints(p)] \in [f.fingerprinting -> Nat]
<1>1. ASSUME NEW w \in f.wafs PROVE WafPoints(w) \in Nat
  <2>1. w \in WafSigs
    BY DEF FindingSets
  <2>2. Tier[w] = 1 \/ Tier[w] = 2 \/ Tier[w] = 3
    BY <2>1, WeightsAssumption
  <2> QED
    BY <2>2 DEF WafPoints
<1>2. \A c : CaptchaPoints(a.widgets, c) \in Nat
  BY DEF CaptchaPoints
<1>3. \A p : FingerprintPoints(p) \in Nat
  BY DEF FingerprintPoints
<1> QED
  BY <1>1, <1>2, <1>3

\* A category gives at most its cap.
LEMMA CappedTyped ==
    ASSUME NEW S, IsFiniteSet(S), NEW f \in [S -> Nat], NEW cap \in Nat
    PROVE  UpToCap(f, cap) \in 0 .. cap
<1>1. PICK points \in [SUBSET S -> 0 .. cap] :
         UpToCap(f, cap) = points[S] /\ IsCapped(points, S, f, cap)
  BY RunningPoints
<1> QED
  BY <1>1

\* The three categories of difficulty that are capped.
THEOREM FactorsAddUp ==
    ASSUME NEW a, NEW f \in FindingSets
    PROVE  /\ UpToCap([w \in f.wafs |-> WafPoints(w)], WafCap)
                = Least(40, SumFunction([w \in f.wafs |-> WafPoints(w)]))
           /\ UpToCap([c \in f.captchas |-> CaptchaPoints(a.widgets, c)], CaptchaCap)
                = Least(25, SumFunction([c \in f.captchas |-> CaptchaPoints(a.widgets, c)]))
           /\ UpToCap([p \in f.fingerprinting |-> FingerprintPoints(p)], FingerprintCap)
                = Least(20, 7 * Cardinality(f.fingerprinting) - If(Reads \in f.fingerprinting, 2))
<1> DEFINE wafs == [w \in f.wafs |-> WafPoints(w)]
           captchas == [c \in f.captchas |-> CaptchaPoints(a.widgets, c)]
           prints == [p \in f.fingerprinting |-> FingerprintPoints(p)]
<1>1. /\ wafs \in [f.wafs -> Nat] /\ captchas \in [f.captchas -> Nat]
      /\ prints \in [f.fingerprinting -> Nat]
  BY PointsTyped
<1>2. SumFunction(prints) = 7 * Cardinality(f.fingerprinting) - If(Reads \in f.fingerprinting, 2)
  BY FiniteFindings, FingerprintSum
<1> HIDE DEF wafs, captchas, prints
<1>3. 40 \in Nat /\ 25 \in Nat /\ 20 \in Nat
  OBVIOUS
<1>4. UpToCap(wafs, 40) = Least(40, SumFunction(wafs))
  BY <1>1, <1>3, FiniteFindings, CappedSum
<1>5. UpToCap(captchas, 25) = Least(25, SumFunction(captchas))
  BY <1>1, <1>3, FiniteFindings, CappedSum
<1>6. UpToCap(prints, 20) = Least(20, SumFunction(prints))
  BY <1>1, <1>3, FiniteFindings, CappedSum
<1> QED
  BY <1>2, <1>4, <1>5, <1>6 DEF wafs, captchas, prints, WafCap, CaptchaCap, FingerprintCap

\* Among finitely many numbers one is the greatest.
LEMMA HasGreatest ==
    ASSUME NEW S, IsFiniteSet(S), S # {}, NEW rank \in [S -> Nat]
    PROVE  \E x \in S : \A y \in S : rank[y] <= rank[x]
<1> DEFINE Good == {T \in SUBSET S : T = {} \/ \E x \in T : \A y \in T : rank[y] <= rank[x]}
<1>1. {} \in Good
  OBVIOUS
<1>2. ASSUME NEW T \in SUBSET S, T # {}, T \ {AnyOf(T)} \in Good PROVE T \in Good
  <2> DEFINE a == AnyOf(T)
             rest == T \ {a}
  <2>1. a \in T
    BY <1>2 DEF AnyOf
  <2> HIDE DEF a
  <2>2. CASE rest = {}
    <3>1. \A y \in T : y = a
      BY <2>1, <2>2
    <3>2. rank[a] <= rank[a]
      BY <2>1
    <3> QED
      BY <2>1, <3>1, <3>2
  <2>3. CASE rest # {}
    <3>1. PICK x \in rest : \A y \in rest : rank[y] <= rank[x]
      BY <1>2, <2>3 DEF a
    <3>2. CASE rank[a] <= rank[x]
      BY <2>1, <3>1, <3>2
    <3>3. CASE ~ rank[a] <= rank[x]
      <4>1. \A y \in T : rank[y] \in Nat
        OBVIOUS
      <4>2. \A y \in T : rank[y] <= rank[a]
        BY <2>1, <3>1, <3>3, <4>1
      <4> QED
        BY <2>1, <4>2
    <3> QED
      BY <3>2, <3>3
  <2> QED
    BY <2>2, <2>3
<1> HIDE DEF Good
<1>3. S \in Good
  BY <1>1, <1>2, SubsetInduction
<1> QED
  BY <1>3 DEF Good

\* HeuristicScoring: both scores are percentages, although the factors reach 102
\* and the risks more than 100.
LEMMA ScoresTyped ==
    ASSUME NEW a \in Artifacts, NEW f \in FindingSets
    PROVE  Scores(a, f) \in [difficulty : 0 .. 100, risk : 0 .. 100]
<1>1. Difficulty(a, f) \in 0 .. 100
  <2> DEFINE wafs == [w \in f.wafs |-> WafPoints(w)]
             captchas == [c \in f.captchas |-> CaptchaPoints(a.widgets, c)]
             prints == [p \in f.fingerprinting |-> FingerprintPoints(p)]
  <2>1. /\ wafs \in [f.wafs -> Nat] /\ captchas \in [f.captchas -> Nat]
        /\ prints \in [f.fingerprinting -> Nat]
    BY PointsTyped
  <2>2. WafCap \in Nat /\ CaptchaCap \in Nat /\ FingerprintCap \in Nat
    BY DEF WafCap, CaptchaCap, FingerprintCap
  <2>3. SumOfFactors(a, f) = UpToCap(wafs, WafCap) + UpToCap(captchas, CaptchaCap)
           + UpToCap(prints, FingerprintCap)
           + If(a.blocked, 10) + If(a.honeypot, 4) + If(\E p \in f.security : p.csrf, 3)
    BY DEF SumOfFactors
  <2> HIDE DEF wafs, captchas, prints
  <2>4. UpToCap(wafs, WafCap) \in 0 .. WafCap
    BY <2>1, <2>2, FiniteFindings, CappedTyped
  <2>5. UpToCap(captchas, CaptchaCap) \in 0 .. CaptchaCap
    BY <2>1, <2>2, FiniteFindings, CappedTyped
  <2>6. UpToCap(prints, FingerprintCap) \in 0 .. FingerprintCap
    BY <2>1, <2>2, FiniteFindings, CappedTyped
  <2>7. SumOfFactors(a, f) \in Nat
    BY <2>2, <2>3, <2>4, <2>5, <2>6 DEF If
  <2> QED
    BY <2>7 DEF Difficulty, Least
<1>2. Risk(a, f) \in 0 .. 100
  <2>1. CASE f.security = {}
    BY <2>1 DEF Risk
  <2>2. CASE f.security # {}
    <3> DEFINE p == CHOOSE p \in f.security : TRUE
    <3>1. p \in Postures
      BY <2>2 DEF FindingSets
    <3>2. Risk(a, f) = Least(100, RiskOf(p, a.passwordField))
      BY <2>2 DEF Risk
    <3> HIDE DEF p
    <3>3. Cardinality(p.cookies) \in Nat
      <4>1. IsFiniteSet(CookieIssues)
        <5>1. IsFiniteSet({"secure"})
          BY FS_Singleton
        <5>2. IsFiniteSet({"secure"} \cup {"httponly"})
          BY <5>1, FS_AddElement
        <5>3. IsFiniteSet(({"secure"} \cup {"httponly"}) \cup {"samesite"})
          BY <5>2, FS_AddElement
        <5>4. CookieIssues = ({"secure"} \cup {"httponly"}) \cup {"samesite"}
          BY DEF CookieIssues
        <5> QED
          BY <5>3, <5>4
      <4>2. p.cookies \in SUBSET CookieIssues
        BY <3>1 DEF Postures
      <4> QED
        BY <4>1, <4>2, FS_Subset, FS_CardinalityType
    <3>4. RiskOf(p, a.passwordField) \in Nat
      <4>1. Least(18, 6 * Cardinality(p.cookies)) \in Nat
        BY <3>3 DEF Least
      <4>2. \A condition, points \in Nat : If(condition, points) \in Nat
        BY DEF If
      <4> QED
        BY <4>1 DEF RiskOf, If
    <3> QED
      BY <3>2, <3>4 DEF Least
  <2> QED
    BY <2>1, <2>2
<1> QED
  BY <1>1, <1>2 DEF Scores

\* aggregate: the captcha named in a report is one that was found, and it is ahead
\* of every other by its confidence or else by its name.
THEOREM TopIsMostConfident ==
    ASSUME NEW widgets, NEW found \in SUBSET CaptchaSigs, found # {}
    PROVE  LET top == TopCaptcha(widgets, found)
           IN  /\ top \in found
               /\ \A s \in found \ {top} :
                     \/ CaptchaConfidence(widgets, top) > CaptchaConfidence(widgets, s)
                     \/ /\ CaptchaConfidence(widgets, top) = CaptchaConfidence(widgets, s)
                        /\ NameRank[top] > NameRank[s]
<1> DEFINE conf(s) == CaptchaConfidence(widgets, s)
           Before(s, t) == \/ conf(s) > conf(t)
                           \/ conf(s) = conf(t) /\ NameRank[s] > NameRank[t]
<1>1. IsFiniteSet(found)
  <2>1. found \in SUBSET Signatures
    BY DEF Signatures
  <2> QED
    BY <2>1, SignaturesAssumption, FS_Subset
<1>2. \A s \in found : conf(s) \in Nat /\ NameRank[s] \in Nat
  <2>1. \A s \in found : Base[s] \in 0 .. 100 /\ NameRank[s] \in Nat
    BY WeightsAssumption DEF Signatures
  <2> QED
    BY <2>1 DEF CaptchaConfidence, Least
<1> HIDE DEF conf
<1>3. PICK x \in found : \A y \in found : conf(y) <= conf(x)
  <2> DEFINE rank == [s \in found |-> conf(s)]
  <2>1. rank \in [found -> Nat]
    BY <1>2
  <2>2. \A s \in found : rank[s] = conf(s)
    OBVIOUS
  <2> HIDE DEF rank
  <2>3. \E x \in found : \A y \in found : rank[y] <= rank[x]
    BY <1>1, <2>1, HasGreatest
  <2> QED
    BY <2>2, <2>3
<1> DEFINE equal == {y \in found : conf(y) = conf(x)}
<1>4. PICK z \in equal : \A y \in equal : NameRank[y] <= NameRank[z]
  <2> DEFINE rank == [s \in equal |-> NameRank[s]]
  <2>1. rank \in [equal -> Nat]
    BY <1>2
  <2>2. \A s \in equal : rank[s] = NameRank[s]
    OBVIOUS
  <2>3. IsFiniteSet(equal) /\ equal # {}
    BY <1>1, <1>3, FS_Subset
  <2> HIDE DEF rank, equal
  <2>4. \E z \in equal : \A y \in equal : rank[y] <= rank[z]
    BY <2>1, <2>3, HasGreatest
  <2> QED
    BY <2>2, <2>4
<1>5. z \in found /\ \A t \in found \ {z} : Before(z, t)
  <2> SUFFICES ASSUME NEW t \in found \ {z} PROVE Before(z, t)
    OBVIOUS
  <2>1. NameRank[t] # NameRank[z]
    BY SignaturesAssumption
  <2>2. conf(t) <= conf(z)
    BY <1>3
  <2>3. conf(t) = conf(z) => NameRank[t] <= NameRank[z]
    BY <1>4
  <2>4. conf(t) \in Nat /\ conf(z) \in Nat /\ NameRank[t] \in Nat /\ NameRank[z] \in Nat
    BY <1>2
  <2>5. CASE conf(t) = conf(z)
    BY <2>1, <2>3, <2>4, <2>5
  <2>6. CASE conf(t) # conf(z)
    <3>1. conf(z) > conf(t)
      BY <2>2, <2>4, <2>6
    <3> QED
      BY <3>1
  <2> QED
    BY <2>5, <2>6
<1>6. TopCaptcha(widgets, found) = IF found = {} THEN None
         ELSE CHOOSE s \in found : \A t \in found \ {s} : Before(s, t)
  BY DEF TopCaptcha, conf
<1> HIDE DEF Before
<1>7. /\ TopCaptcha(widgets, found) \in found
      /\ \A t \in found \ {TopCaptcha(widgets, found)} : Before(TopCaptcha(widgets, found), t)
  BY <1>5, <1>6
<1> QED
  BY <1>7 DEF Before, conf
=============================================================================
