---------------------------- MODULE SumTheorems ----------------------------
(***************************************************************************)
(* What MapThenSumSet() computes for a function over a finite set.  The    *)
(* fold of the community modules is a recursive function on the subsets of *)
(* the set it folds; induction over these is the choice of a smallest      *)
(* counterexample.                                                         *)
(***************************************************************************)
EXTENDS Integers, FiniteSetsExt, FiniteSetTheorems, WellFoundedInduction, TLAPS

Sum(f, S) == MapThenSumSet(LAMBDA x : f[x], S)

-----------------------------------------------------------------------------
(* Induction.                                                              *)

\* Among sets of elements of a finite set there is a smallest one.
LEMMA SmallestSubset ==
  ASSUME NEW S, IsFiniteSet(S), NEW C \in SUBSET SUBSET S, C # {}
  PROVE  \E T \in C : \A U \in C : U \subseteq T => U = T
<1>1. FiniteSubsetsOf(S) = SUBSET S
  BY FS_FiniteSubsetsOfFinite
<1>2. IsWellFoundedOn(StrictSubsetOrdering(S), SUBSET S)
  BY <1>1, FS_StrictSubsetOrderingWellFounded
<1>3. \E T \in C : \A U \in C : <<U, T>> \notin StrictSubsetOrdering(S)
  BY <1>2, WFMin, Zenon
<1> QED BY <1>3 DEF StrictSubsetOrdering

-----------------------------------------------------------------------------
(* The recursion.                                                          *)

Pick(s) == CHOOSE x \in s : TRUE

\* g adds up f over the subsets of S.
Adds(g, f, S) ==
  g = [s \in SUBSET S |-> IF s = {} THEN 0 ELSE f[Pick(s)] + g[s \ {Pick(s)}]]

\* An element is picked from every set that has one.
LEMMA PickIn ==
  ASSUME NEW s, s # {}
  PROVE  Pick(s) \in s
BY DEF Pick

\* The recursion determines the sums.
LEMMA AddsUnique ==
  ASSUME NEW f, NEW A, NEW B, NEW g, NEW h, Adds(g, f, A), Adds(h, f, B),
         NEW s \in SUBSET A, s \in SUBSET B, IsFiniteSet(s)
  PROVE  g[s] = h[s]
<1> SUFFICES ASSUME g[s] # h[s] PROVE FALSE  OBVIOUS
<1> DEFINE C == {T \in SUBSET s : g[T] # h[T]}
<1>1. \E T \in C : \A U \in C : U \subseteq T => U = T
  <2>1. C \in SUBSET SUBSET s /\ C # {}
    OBVIOUS
  <2> HIDE DEF C
  <2> QED BY <2>1, SmallestSubset
<1>2. PICK T \in C : \A U \in C : U \subseteq T => U = T
  BY <1>1
<1>3. T \in SUBSET A /\ T \in SUBSET B
  OBVIOUS
<1>4. CASE T = {}
  BY <1>3, <1>4 DEF Adds
<1>5. CASE T # {}
  <2> DEFINE U == T \ {Pick(T)}
  <2>1. U \subseteq T /\ U # T
    BY <1>5, PickIn
  <2>2. g[U] = h[U]
    BY <1>2, <2>1
  <2>3. g[T] = f[Pick(T)] + g[U] /\ h[T] = f[Pick(T)] + h[U]
    BY <1>3, <1>5 DEF Adds
  <2> QED BY <2>2, <2>3
<1> QED BY <1>4, <1>5

\* There are sums over every finite set.
LEMMA AddsExists ==
  ASSUME NEW f, NEW S, IsFiniteSet(S)
  PROVE  \E g : Adds(g, f, S)
<1> SUFFICES ASSUME ~ \E g : Adds(g, f, S) PROVE FALSE  OBVIOUS
<1> DEFINE C == {T \in SUBSET S : ~ \E g : Adds(g, f, T)}
<1>1. \E T \in C : \A U \in C : U \subseteq T => U = T
  <2>1. C \in SUBSET SUBSET S /\ C # {}
    OBVIOUS
  <2> HIDE DEF C
  <2> QED BY <2>1, SmallestSubset
<1>2. PICK T \in C : \A U \in C : U \subseteq T => U = T
  BY <1>1
<1> DEFINE Of(s) == CHOOSE g : Adds(g, f, s)
           sum(s) == IF s = {} THEN 0 ELSE f[Pick(s)] + Of(s \ {Pick(s)})[s \ {Pick(s)}]
           h == [s \in SUBSET T |-> sum(s)]
<1>3. ASSUME NEW s \in SUBSET T, s # T PROVE Adds(Of(s), f, s)
  <2>1. \E g : Adds(g, f, s)
    BY <1>2, <1>3
  <2> QED BY <2>1
<1>4. ASSUME NEW s \in SUBSET T, s # T PROVE Of(s)[s] = sum(s)
  <2>1. Adds(Of(s), f, s)  BY <1>3, <1>4
  <2>2. CASE s = {}
    BY <2>1, <2>2 DEF Adds
  <2>3. CASE s # {}
    <3> DEFINE u == s \ {Pick(s)}
    <3>1. u \in SUBSET T /\ u # T /\ u \in SUBSET s
      BY <2>3, <1>4, PickIn
    <3>2. Adds(Of(u), f, u)
      BY <3>1, <1>3
    <3>3. Of(s)[s] = f[Pick(s)] + Of(s)[u]
      BY <2>1, <2>3 DEF Adds
    <3>4. IsFiniteSet(u)
      BY <3>1, FS_Subset
    <3>5. Of(s)[u] = Of(u)[u]
      <4> HIDE DEF Of, u
      <4> QED BY <2>1, <3>1, <3>2, <3>4, AddsUnique
    <3> QED BY <2>3, <3>3, <3>5
  <2> QED BY <2>2, <2>3
<1>5. ASSUME NEW s \in SUBSET T
      PROVE  sum(s) = IF s = {} THEN 0 ELSE f[Pick(s)] + h[s \ {Pick(s)}]
  <2>1. CASE s = {}
    BY <2>1
  <2>2. CASE s # {}
    <3> DEFINE u == s \ {Pick(s)}
    <3>1. u \in SUBSET T /\ u # T
      BY <2>2, PickIn
    <3>2. h[u] = Of(u)[u]
      BY <3>1, <1>4
    <3> QED BY <2>2, <3>2
  <2> QED BY <2>1, <2>2
<1>6. h = [s \in SUBSET T |-> IF s = {} THEN 0 ELSE f[Pick(s)] + h[s \ {Pick(s)}]]
  <2>1. [s \in SUBSET T |-> sum(s)]
          = [s \in SUBSET T |-> IF s = {} THEN 0 ELSE f[Pick(s)] + h[s \ {Pick(s)}]]
    <3> HIDE DEF sum, h
    <3> QED BY <1>5
  <2>2. h = [s \in SUBSET T |-> sum(s)]
    OBVIOUS
  <2> HIDE DEF h
  <2> QED BY <2>1, <2>2
<1>7. Adds(h, f, T)
  <2> HIDE DEF h
  <2> QED BY <1>6 DEF Adds
<1> QED BY <1>7

\* MapThenSumSet() is that recursion.
LEMMA SumAdds ==
  ASSUME NEW f, NEW S, NEW g, IsFiniteSet(S), Adds(g, f, S)
  PROVE  Sum(f, S) = g[S]
<1> DEFINE m == CHOOSE h : Adds(h, f, S)
<1>1. Sum(f, S) = m[S]
  BY DEF Sum, MapThenSumSet, MapThenFoldSet, Adds, Pick
<1>2. Adds(m, f, S)
  BY AddsExists
<1> HIDE DEF m
<1>3. m[S] = g[S]
  BY <1>2, AddsUnique
<1> QED BY <1>1, <1>3

-----------------------------------------------------------------------------
(* The laws of sums.                                                       *)

\* The empty sum is zero.
LEMMA SumEmpty ==
  ASSUME NEW f
  PROVE  Sum(f, {}) = 0
<1>1. IsFiniteSet({})
  BY FS_EmptySet
<1>2. PICK g : Adds(g, f, {})
  BY <1>1, AddsExists
<1>3. g[{}] = 0
  BY <1>2 DEF Adds
<1> QED BY <1>1, <1>2, <1>3, SumAdds

\* A sum is that of the element picked and the rest.
LEMMA SumPick ==
  ASSUME NEW f, NEW S, IsFiniteSet(S), S # {}
  PROVE  Sum(f, S) = f[Pick(S)] + Sum(f, S \ {Pick(S)})
<1> DEFINE R == S \ {Pick(S)}
<1>1. PICK g : Adds(g, f, S)
  BY AddsExists
<1>2. IsFiniteSet(R) /\ R \in SUBSET S /\ R \in SUBSET R
  BY FS_Subset
<1>3. PICK h : Adds(h, f, R)
  BY <1>2, AddsExists
<1>4. g[S] = f[Pick(S)] + g[R]
  BY <1>1 DEF Adds
<1>5. g[R] = h[R]
  <2> HIDE DEF R
  <2> QED BY <1>1, <1>2, <1>3, AddsUnique
<1>6. Sum(f, S) = g[S]
  BY <1>1, SumAdds
<1>7. Sum(f, R) = h[R]
  <2> HIDE DEF R
  <2> QED BY <1>2, <1>3, SumAdds
<1> QED BY <1>4, <1>5, <1>6, <1>7

\* A sum of integers is an integer.
LEMMA SumInt ==
  ASSUME NEW f, NEW S, IsFiniteSet(S), \A x \in S : f[x] \in Int
  PROVE  Sum(f, S) \in Int
<1> SUFFICES ASSUME Sum(f, S) \notin Int PROVE FALSE  OBVIOUS
<1> DEFINE C == {T \in SUBSET S : Sum(f, T) \notin Int}
<1>1. \E T \in C : \A U \in C : U \subseteq T => U = T
  <2>1. C \in SUBSET SUBSET S /\ C # {}
    OBVIOUS
  <2> HIDE DEF C
  <2> QED BY <2>1, SmallestSubset
<1>2. PICK T \in C : \A U \in C : U \subseteq T => U = T
  BY <1>1
<1>3. T # {}
  BY SumEmpty
<1>4. IsFiniteSet(T)
  BY FS_Subset
<1>5. Pick(T) \in T
  BY <1>3, PickIn
<1>6. Sum(f, T \ {Pick(T)}) \in Int
  BY <1>2, <1>5
<1>7. Sum(f, T) = f[Pick(T)] + Sum(f, T \ {Pick(T)})
  BY <1>3, <1>4, SumPick
<1> QED BY <1>5, <1>6, <1>7

\* A sum is that of any element and the rest.
LEMMA SumRemove ==
  ASSUME NEW f, NEW S, IsFiniteSet(S), \A x \in S : f[x] \in Int, NEW a \in S
  PROVE  Sum(f, S) = f[a] + Sum(f, S \ {a})
<1> DEFINE Law(T) == \A x \in T : Sum(f, T) = f[x] + Sum(f, T \ {x})
           C == {T \in SUBSET S : ~Law(T)}
<1> SUFFICES ASSUME ~Law(S) PROVE FALSE
  OBVIOUS
<1>1. \E T \in C : \A U \in C : U \subseteq T => U = T
  <2>1. C \in SUBSET SUBSET S /\ C # {}
    OBVIOUS
  <2> HIDE DEF C
  <2> QED BY <2>1, SmallestSubset
<1>2. PICK T \in C : \A U \in C : U \subseteq T => U = T
  BY <1>1
<1>3. \A U \in SUBSET T : U # T => Law(U)
  <2> HIDE DEF Law
  <2> QED BY <1>2
<1>4. \A U \in SUBSET T : IsFiniteSet(U) /\ Sum(f, U) \in Int
  <2>1. ASSUME NEW U \in SUBSET T PROVE IsFiniteSet(U)
    BY FS_Subset
  <2>2. ASSUME NEW U \in SUBSET T PROVE Sum(f, U) \in Int
    BY <2>1, <2>2, SumInt
  <2> QED BY <2>1, <2>2
<1>5. PICK x \in T : Sum(f, T) # f[x] + Sum(f, T \ {x})
  OBVIOUS
<1> DEFINE y == Pick(T)
<1>6. y \in T
  BY <1>5, PickIn
<1>7. Sum(f, T) = f[y] + Sum(f, T \ {y})
  BY <1>4, <1>5, SumPick
<1> HIDE DEF y
<1>8. x # y
  BY <1>5, <1>7
<1>9. Sum(f, T \ {y}) = f[x] + Sum(f, (T \ {y}) \ {x})
  <2>1. T \ {y} \in SUBSET T /\ T \ {y} # T /\ x \in T \ {y}
    BY <1>6, <1>8
  <2> QED BY <1>3, <2>1
<1>10. Sum(f, T \ {x}) = f[y] + Sum(f, (T \ {x}) \ {y})
  <2>1. T \ {x} \in SUBSET T /\ T \ {x} # T /\ y \in T \ {x}
    BY <1>6, <1>8
  <2> QED BY <1>3, <2>1
<1> DEFINE r == Sum(f, (T \ {x}) \ {y})
<1>11. Sum(f, (T \ {y}) \ {x}) = r
  <2>1. (T \ {y}) \ {x} = (T \ {x}) \ {y}
    OBVIOUS
  <2> QED BY <2>1
<1>12. f[x] \in Int /\ f[y] \in Int /\ r \in Int
  BY <1>4, <1>6
<1> HIDE DEF r
<1>13. Sum(f, T) = f[y] + (f[x] + r)
  BY <1>7, <1>9, <1>11
<1>14. Sum(f, T \ {x}) = f[y] + r
  BY <1>10 DEF r
<1> QED BY <1>5, <1>12, <1>13, <1>14

\* Sums look at the elements only.
LEMMA SumSame ==
  ASSUME NEW f, NEW h, NEW S, IsFiniteSet(S), \A x \in S : f[x] = h[x]
  PROVE  Sum(f, S) = Sum(h, S)
<1> SUFFICES ASSUME Sum(f, S) # Sum(h, S) PROVE FALSE  OBVIOUS
<1> DEFINE C == {T \in SUBSET S : Sum(f, T) # Sum(h, T)}
<1>1. \E T \in C : \A U \in C : U \subseteq T => U = T
  <2>1. C \in SUBSET SUBSET S /\ C # {}
    OBVIOUS
  <2> HIDE DEF C
  <2> QED BY <2>1, SmallestSubset
<1>2. PICK T \in C : \A U \in C : U \subseteq T => U = T
  BY <1>1
<1>3. T # {}
  BY SumEmpty
<1>4. IsFiniteSet(T)
  BY FS_Subset
<1>5. Pick(T) \in T
  BY <1>3, PickIn
<1>6. Sum(f, T \ {Pick(T)}) = Sum(h, T \ {Pick(T)})
  BY <1>2, <1>5
<1>7. /\ Sum(f, T) = f[Pick(T)] + Sum(f, T \ {Pick(T)})
      /\ Sum(h, T) = h[Pick(T)] + Sum(h, T \ {Pick(T)})
  BY <1>3, <1>4, SumPick
<1> QED BY <1>5, <1>6, <1>7

\* A change of one summand changes the sum by as much.
LEMMA SumChange ==
  ASSUME NEW f, NEW h, NEW S, IsFiniteSet(S), NEW a \in S,
         \A x \in S : f[x] \in Int /\ h[x] \in Int,
         \A x \in S \ {a} : f[x] = h[x]
  PROVE  Sum(h, S) = Sum(f, S) + (h[a] - f[a])
<1>1. IsFiniteSet(S \ {a})
  BY FS_Subset
<1>2. Sum(f, S \ {a}) = Sum(h, S \ {a})
  BY <1>1, SumSame
<1>3. Sum(f, S \ {a}) \in Int
  BY <1>1, SumInt
<1>4. Sum(f, S) = f[a] + Sum(f, S \ {a})
  BY SumRemove
<1>5. Sum(h, S) = h[a] + Sum(h, S \ {a})
  BY SumRemove
<1> QED BY <1>2, <1>3, <1>4, <1>5

\* Smaller summands have a smaller sum.
LEMMA SumLeq ==
  ASSUME NEW f, NEW h, NEW S, IsFiniteSet(S),
         \A x \in S : f[x] \in Int /\ h[x] \in Int /\ h[x] <= f[x]
  PROVE  Sum(h, S) <= Sum(f, S)
<1> DEFINE C == {T \in SUBSET S : ~(Sum(h, T) <= Sum(f, T))}
<1> SUFFICES ASSUME ~(Sum(h, S) <= Sum(f, S)) PROVE FALSE  OBVIOUS
<1>1. \E T \in C : \A U \in C : U \subseteq T => U = T
  <2>1. C \in SUBSET SUBSET S /\ C # {}
    OBVIOUS
  <2> HIDE DEF C
  <2> QED BY <2>1, SmallestSubset
<1>2. PICK T \in C : \A U \in C : U \subseteq T => U = T
  BY <1>1
<1>3. T # {}
  BY SumEmpty
<1>4. IsFiniteSet(T)
  BY FS_Subset
<1>5. Pick(T) \in T
  BY <1>3, PickIn
<1> DEFINE R == T \ {Pick(T)}
<1>6. Sum(h, R) <= Sum(f, R)
  BY <1>2, <1>5
<1>7. Sum(f, T) = f[Pick(T)] + Sum(f, R) /\ Sum(h, T) = h[Pick(T)] + Sum(h, R)
  BY <1>3, <1>4, SumPick
<1>8. IsFiniteSet(R) /\ \A x \in R : f[x] \in Int /\ h[x] \in Int
  BY <1>4, FS_Subset
<1>9. Sum(f, R) \in Int /\ Sum(h, R) \in Int
  <2> HIDE DEF R
  <2> QED BY <1>8, SumInt
<1>10. ~(Sum(h, T) <= Sum(f, T))
  OBVIOUS
<1> HIDE DEF R, C
<1>11. f[Pick(T)] \in Int /\ h[Pick(T)] \in Int /\ h[Pick(T)] <= f[Pick(T)]
  <2>1. Pick(T) \in S
    BY <1>2, <1>5 DEF C
  <2> QED BY <2>1
<1> QED BY <1>6, <1>7, <1>9, <1>10, <1>11

\* A sum of zeros is zero.
LEMMA SumZero ==
  ASSUME NEW f, NEW S, IsFiniteSet(S), \A x \in S : f[x] = 0
  PROVE  Sum(f, S) = 0
<1> SUFFICES ASSUME Sum(f, S) # 0 PROVE FALSE  OBVIOUS
<1> DEFINE C == {T \in SUBSET S : Sum(f, T) # 0}
<1>1. \E T \in C : \A U \in C : U \subseteq T => U = T
  <2>1. C \in SUBSET SUBSET S /\ C # {}
    OBVIOUS
  <2> HIDE DEF C
  <2> QED BY <2>1, SmallestSubset
<1>2. PICK T \in C : \A U \in C : U \subseteq T => U = T
  BY <1>1
<1>3. T # {} /\ IsFiniteSet(T)
  BY SumEmpty, FS_Subset
<1>4. Pick(T) \in T
  BY <1>3, PickIn
<1>5. Sum(f, T \ {Pick(T)}) = 0
  BY <1>2, <1>4
<1>6. Sum(f, T) = f[Pick(T)] + Sum(f, T \ {Pick(T)})
  BY <1>3, SumPick
<1> QED BY <1>4, <1>5, <1>6

\* A sum over an interval that grows by one.
LEMMA SumNext ==
  ASSUME NEW f, NEW h, NEW n \in Nat,
         \A i \in 1..(n + 1) : h[i] \in Int,
         \A i \in 1..n : f[i] = h[i]
  PROVE  Sum(h, 1..(n + 1)) = Sum(f, 1..n) + h[n + 1]
<1>1. IsFiniteSet(1..(n + 1)) /\ IsFiniteSet(1..n)
  BY FS_Interval
<1>2. n + 1 \in 1..(n + 1) /\ (1..(n + 1)) \ {n + 1} = 1..n
  OBVIOUS
<1>3. Sum(h, 1..(n + 1)) = h[n + 1] + Sum(h, (1..(n + 1)) \ {n + 1})
  BY <1>1, <1>2, SumRemove
<1>4. Sum(f, 1..n) = Sum(h, 1..n)
  BY <1>1, SumSame
<1>5. Sum(h, 1..n) \in Int
  BY <1>1, <1>2, SumInt
<1>6. h[n + 1] \in Int
  BY <1>2
<1>7. Sum(h, 1..(n + 1)) = h[n + 1] + Sum(h, 1..n)
  BY <1>2, <1>3
<1> QED BY <1>4, <1>5, <1>6, <1>7
=============================================================================
