----------------------------- MODULE SumTheorems ----------------------------
(***************************************************************************)
(* What the models' sums obey.  MapThenSumSet folds a recursive function    *)
(* over the subsets of a set, picking elements in an order of its own; the  *)
(* theorems here give its usual laws for numbers over a finite set, by      *)
(* looking at a least set that would break them.                            *)
(***************************************************************************)
EXTENDS FiniteSetsExt, FiniteSetTheorems, TLAPS

Sum(f, S) == MapThenSumSet(LAMBDA x : f[x], S)

\* The recursion behind Sum.
Pick(s) == CHOOSE x \in s : TRUE

IsSum(g, f, S) ==
    g = [s \in SUBSET S |-> IF s = {} THEN 0 ELSE f[Pick(s)] + g[s \ {Pick(s)}]]

LEMMA Unfold ==
    ASSUME NEW f, NEW S
    PROVE  Sum(f, S) = (CHOOSE g : IsSum(g, f, S))[S]
BY Zenon DEF Sum, MapThenSumSet, MapThenFoldSet, Pick, IsSum

LEMMA PickIn == \A s : s # {} => Pick(s) \in s
BY Zenon DEF Pick

\* Among subsets of a finite set there is a least one.
LEMMA LeastSet ==
    ASSUME NEW S, IsFiniteSet(S), NEW B, B \subseteq SUBSET S, B # {}
    PROVE  \E T \in B : \A U \in B : ~(U \subseteq T /\ U # T)
<1>1. B \subseteq FiniteSubsetsOf(S)
  BY FS_FiniteSubsetsOfFinite
<1>2. PICK T \in B : \A U \in B : ~(<<U, T>> \in StrictSubsetOrdering(S))
  BY <1>1, FS_StrictSubsetOrderingWellFounded, WFMin
<1>3. \A U \in B : (U \subseteq T /\ U # T) => <<U, T>> \in StrictSubsetOrdering(S)
  BY DEF StrictSubsetOrdering
<1>4. \A U \in B : ~(U \subseteq T /\ U # T)
  <2> TAKE U \in B
  <2> QED
    BY <1>2, <1>3, Zenon
<1> QED
  BY <1>4, Zenon

\* Two recursions agree where both are defined.
LEMMA SameSum ==
    ASSUME NEW f, NEW A, NEW g, IsSum(g, f, A), NEW B, NEW h, IsSum(h, f, B),
           IsFiniteSet(A), NEW S \in SUBSET A, S \subseteq B
    PROVE  g[S] = h[S]
<1> DEFINE Bad == {T \in SUBSET S : g[T] # h[T]}
<1> SUFFICES ASSUME Bad # {} PROVE FALSE
  OBVIOUS
<1>1. IsFiniteSet(S)
  BY FS_Subset
<1>2. PICK T \in Bad : \A U \in Bad : ~(U \subseteq T /\ U # T)
  <2>1. Bad \subseteq SUBSET S
    OBVIOUS
  <2> HIDE DEF Bad
  <2> QED
    BY <1>1, <2>1, LeastSet
<1>3. T \subseteq A /\ T \subseteq B
  OBVIOUS
<1>4. g[T] = IF T = {} THEN 0 ELSE f[Pick(T)] + g[T \ {Pick(T)}]
  BY <1>3 DEF IsSum
<1>5. h[T] = IF T = {} THEN 0 ELSE f[Pick(T)] + h[T \ {Pick(T)}]
  BY <1>3 DEF IsSum
<1>6. T # {} => g[T \ {Pick(T)}] = h[T \ {Pick(T)}]
  BY <1>2, PickIn
<1> QED
  BY <1>4, <1>5, <1>6

\* The recursion has a solution.
LEMMA SumExists ==
    ASSUME NEW f, NEW S, IsFiniteSet(S)
    PROVE  \E g : IsSum(g, f, S)
<1> DEFINE Bad == {T \in SUBSET S : ~\E g : IsSum(g, f, T)}
<1> SUFFICES ASSUME Bad # {} PROVE FALSE
  OBVIOUS
<1>1. PICK T \in Bad : \A U \in Bad : ~(U \subseteq T /\ U # T)
  <2>1. Bad \subseteq SUBSET S
    OBVIOUS
  <2> HIDE DEF Bad
  <2> QED
    BY <2>1, LeastSet
<1>2. IsFiniteSet(T)
  BY FS_Subset
<1> DEFINE Of(U) == CHOOSE g : IsSum(g, f, U)
           v == [U \in SUBSET T |-> Of(U)[U]]
           g == [s \in SUBSET T |-> IF s = {} THEN 0 ELSE f[Pick(s)] + v[s \ {Pick(s)}]]
<1>3. ASSUME NEW U \in SUBSET T, U # T PROVE IsSum(Of(U), f, U)
  <2>1. \E h : IsSum(h, f, U)
    BY <1>1, <1>3
  <2> QED
    BY <2>1, Zenon
<1>4. ASSUME NEW U \in SUBSET T, U # T PROVE v[U] = g[U]
  <2> DEFINE W == U \ {Pick(U)}
  <2>1. Of(U)[U] = IF U = {} THEN 0 ELSE f[Pick(U)] + Of(U)[W]
    <3>1. IsSum(Of(U), f, U)
      BY <1>3, <1>4
    <3> HIDE DEF Of
    <3> QED
      BY <3>1 DEF IsSum
  <2>2. ASSUME U # {} PROVE Of(U)[W] = Of(W)[W]
    <3>1. W \subseteq U /\ W # U /\ W \in SUBSET T /\ W # T
      BY <2>2, <1>4, PickIn
    <3>2. IsFiniteSet(U)
      BY <1>2, FS_Subset
    <3>3. IsSum(Of(U), f, U) /\ IsSum(Of(W), f, W)
      BY <1>3, <1>4, <3>1
    <3> HIDE DEF Of, W
    <3> QED
      BY <3>1, <3>2, <3>3, SameSum
  <2>3. v[W] = Of(W)[W] /\ v[U] = Of(U)[U]
    OBVIOUS
  <2>4. g[U] = IF U = {} THEN 0 ELSE f[Pick(U)] + v[W]
    <3> HIDE DEF v
    <3> QED
      OBVIOUS
  <2> HIDE DEF Of, W, v, g
  <2> QED
    BY <2>1, <2>2, <2>3, <2>4
<1>5. IsSum(g, f, T)
  <2>1. ASSUME NEW s \in SUBSET T
        PROVE  IF s = {} THEN g[s] = 0 ELSE g[s] = f[Pick(s)] + g[s \ {Pick(s)}]
    <3>1. s # {} => v[s \ {Pick(s)}] = g[s \ {Pick(s)}]
      <4> HIDE DEF v, g
      <4> QED
        BY <1>4, PickIn
    <3>2. IF s = {} THEN g[s] = 0 ELSE g[s] = f[Pick(s)] + v[s \ {Pick(s)}]
      <4> HIDE DEF v
      <4> QED
        OBVIOUS
    <3> HIDE DEF v, g
    <3> QED
      BY <3>1, <3>2
  <2>2. g = [s \in SUBSET T |-> g[s]]
    <3> HIDE DEF v
    <3> QED
      OBVIOUS
  <2>3. g = [s \in SUBSET T |-> IF s = {} THEN 0 ELSE f[Pick(s)] + g[s \ {Pick(s)}]]
    <3> HIDE DEF g
    <3> QED
      BY <2>1, <2>2
  <2> HIDE DEF g
  <2> QED
    BY <2>3 DEF IsSum
<1> QED
  BY <1>1, <1>5

\* The sum of nothing, and of the element picked and the rest.
LEMMA SumStep ==
    ASSUME NEW f, NEW S, IsFiniteSet(S)
    PROVE  Sum(f, S) = IF S = {} THEN 0 ELSE f[Pick(S)] + Sum(f, S \ {Pick(S)})
<1> DEFINE Of(U) == CHOOSE g : IsSum(g, f, U)
           W == S \ {Pick(S)}
<1>1. IsFiniteSet(W)
  BY FS_RemoveElement
<1>2. IsSum(Of(S), f, S) /\ IsSum(Of(W), f, W)
  <2>1. (\E g : IsSum(g, f, S)) /\ \E g : IsSum(g, f, W)
    BY <1>1, SumExists
  <2> QED
    BY <2>1, Zenon
<1>3. Sum(f, S) = Of(S)[S] /\ Sum(f, W) = Of(W)[W]
  BY Unfold
<1>4. Of(S)[W] = Of(W)[W]
  <2>1. W \in SUBSET S /\ W \subseteq W
    OBVIOUS
  <2> HIDE DEF Of, W
  <2> QED
    BY <1>2, <2>1, SameSum
<1>5. Of(S)[S] = IF S = {} THEN 0 ELSE f[Pick(S)] + Of(S)[W]
  <2> HIDE DEF Of
  <2> QED
    BY <1>2 DEF IsSum
<1> HIDE DEF Of, W
<1> QED
  BY <1>3, <1>4, <1>5 DEF W

-----------------------------------------------------------------------------
(* The laws.                                                                *)

\* A sum of numbers is a number, and any element can be taken out of it first.
THEOREM SumTake ==
    ASSUME NEW S, IsFiniteSet(S), NEW f, \A x \in S : f[x] \in Nat
    PROVE  /\ Sum(f, S) \in Nat
           /\ \A x \in S : Sum(f, S) = f[x] + Sum(f, S \ {x})
<1> DEFINE Fine(T) == /\ Sum(f, T) \in Nat
                      /\ \A x \in T : Sum(f, T) = f[x] + Sum(f, T \ {x})
           Bad == {T \in SUBSET S : ~Fine(T)}
<1> SUFFICES ASSUME Bad # {} PROVE FALSE
  OBVIOUS
<1>1. PICK T \in Bad : \A U \in Bad : ~(U \subseteq T /\ U # T)
  <2>1. Bad \subseteq SUBSET S
    OBVIOUS
  <2> HIDE DEF Bad
  <2> QED
    BY <2>1, LeastSet
<1>2. T \subseteq S /\ ~Fine(T) /\ \A U \in SUBSET T : U # T => Fine(U)
  <2> HIDE DEF Fine
  <2> QED
    BY <1>1
<1>3. IsFiniteSet(T)
  BY <1>2, FS_Subset
<1>4. Sum(f, T) = IF T = {} THEN 0 ELSE f[Pick(T)] + Sum(f, T \ {Pick(T)})
  BY <1>3, SumStep
<1>5. CASE T = {}
  BY <1>2, <1>4, <1>5
<1>6. CASE T # {}
  <2> DEFINE y == Pick(T)
             V == T \ {y}
  <2>1. y \in T /\ f[y] \in Nat
    BY <1>2, <1>6, PickIn
  <2> HIDE DEF y
  <2>2. Fine(V)
    <3> HIDE DEF Fine
    <3> QED
      BY <1>2, <2>1
  <2>3. Sum(f, T) = f[y] + Sum(f, V) /\ Sum(f, V) \in Nat
    BY <1>4, <1>6, <2>2 DEF y
  <2>4. ASSUME NEW x \in T, x # y PROVE Sum(f, T) = f[x] + Sum(f, T \ {x})
    <3> DEFINE U == T \ {x}
               W == V \ {x}
    <3>1. Fine(U) /\ Fine(W)
      <4>1. U \in SUBSET T /\ U # T /\ W \in SUBSET T /\ W # T
        BY <2>1
      <4> HIDE DEF Fine, U, W
      <4> QED
        BY <1>2, <4>1
    <3>2. U \ {y} = W /\ y \in U /\ x \in V
      BY <2>1, <2>4
    <3>3. Sum(f, U) = f[y] + Sum(f, W)
      BY <3>1, <3>2
    <3>4. Sum(f, V) = f[x] + Sum(f, W)
      BY <2>2, <3>2
    <3>5. f[x] \in Nat /\ Sum(f, W) \in Nat /\ Sum(f, U) \in Nat
      BY <1>2, <3>1
    <3> HIDE DEF U, V, W
    <3> QED
      BY <2>1, <2>3, <3>3, <3>4, <3>5 DEF U
  <2>5. Fine(T)
    <3>1. Sum(f, T) \in Nat
      BY <2>1, <2>3
    <3>2. ASSUME NEW x \in T PROVE Sum(f, T) = f[x] + Sum(f, T \ {x})
      <4>1. CASE x = y
        BY <2>3, <4>1
      <4>2. CASE x # y
        BY <2>4, <4>2
      <4> QED
        BY <4>1, <4>2
    <3> QED
      BY <3>1, <3>2
  <2> QED
    BY <1>2, <2>5
<1> QED
  BY <1>5, <1>6

\* Nothing adds up to nothing.
THEOREM SumEmpty == \A f : Sum(f, {}) = 0
BY SumStep, FS_EmptySet

\* A set with one element more.
THEOREM SumAdd ==
    ASSUME NEW S, IsFiniteSet(S), NEW x, x \notin S, NEW f, \A y \in S \cup {x} : f[y] \in Nat
    PROVE  Sum(f, S \cup {x}) = Sum(f, S) + f[x]
<1>1. IsFiniteSet(S \cup {x}) /\ (S \cup {x}) \ {x} = S
  BY FS_AddElement
<1>2. Sum(f, S \cup {x}) = f[x] + Sum(f, S)
  BY <1>1, SumTake
<1>3. Sum(f, S) \in Nat /\ f[x] \in Nat
  BY SumTake
<1> QED
  BY <1>2, <1>3

\* Where every number is at most another, so is the sum.
THEOREM SumLeq ==
    ASSUME NEW S, IsFiniteSet(S), NEW f, \A x \in S : f[x] \in Nat,
           NEW g, \A x \in S : g[x] \in Nat /\ f[x] <= g[x]
    PROVE  Sum(f, S) <= Sum(g, S)
<1> DEFINE Bad == {T \in SUBSET S : ~(Sum(f, T) <= Sum(g, T))}
<1> SUFFICES ASSUME Bad # {} PROVE FALSE
  OBVIOUS
<1>1. PICK T \in Bad : \A U \in Bad : ~(U \subseteq T /\ U # T)
  <2>1. Bad \subseteq SUBSET S
    OBVIOUS
  <2> HIDE DEF Bad
  <2> QED
    BY <2>1, LeastSet
<1>2. IsFiniteSet(T)
  BY FS_Subset
<1>3. T # {}
  BY SumEmpty
<1>4. PICK x \in T : TRUE
  BY <1>3
<1>5. Sum(f, T \ {x}) <= Sum(g, T \ {x}) /\ f[x] \in Nat /\ g[x] \in Nat /\ f[x] <= g[x]
  BY <1>1
<1>6. Sum(f, T) = f[x] + Sum(f, T \ {x}) /\ Sum(g, T) = g[x] + Sum(g, T \ {x})
  BY <1>2, SumTake
<1>7. Sum(f, T \ {x}) \in Nat /\ Sum(g, T \ {x}) \in Nat
  BY <1>2, FS_RemoveElement, SumTake
<1> QED
  BY <1>5, <1>6, <1>7

\* The sum depends on the numbers of its set only.
THEOREM SumSame ==
    ASSUME NEW S, IsFiniteSet(S), NEW f, \A x \in S : f[x] \in Nat,
           NEW g, \A x \in S : g[x] = f[x]
    PROVE  Sum(g, S) = Sum(f, S)
<1>1. Sum(f, S) \in Nat /\ Sum(g, S) \in Nat
  BY SumTake
<1>2. Sum(f, S) <= Sum(g, S) /\ Sum(g, S) <= Sum(f, S)
  BY SumLeq
<1> QED
  BY <1>1, <1>2

\* One number changes.
THEOREM SumChange ==
    ASSUME NEW S, IsFiniteSet(S), NEW x \in S,
           NEW f, \A y \in S : f[y] \in Nat, NEW g, \A y \in S : g[y] \in Nat,
           \A y \in S \ {x} : g[y] = f[y]
    PROVE  Sum(g, S) + f[x] = Sum(f, S) + g[x]
<1>1. Sum(f, S) = f[x] + Sum(f, S \ {x}) /\ Sum(g, S) = g[x] + Sum(g, S \ {x})
  BY SumTake
<1>2. Sum(f, S \ {x}) \in Nat /\ Sum(g, S \ {x}) = Sum(f, S \ {x})
  BY FS_RemoveElement, SumTake, SumSame
<1> QED
  BY <1>1, <1>2

\* A sum of zeros is zero.
THEOREM SumZero ==
    ASSUME NEW S, IsFiniteSet(S), NEW f, \A x \in S : f[x] = 0
    PROVE  Sum(f, S) = 0
<1> DEFINE Bad == {T \in SUBSET S : Sum(f, T) # 0}
<1> SUFFICES ASSUME Bad # {} PROVE FALSE
  OBVIOUS
<1>1. PICK T \in Bad : \A U \in Bad : ~(U \subseteq T /\ U # T)
  <2>1. Bad \subseteq SUBSET S
    OBVIOUS
  <2> HIDE DEF Bad
  <2> QED
    BY <2>1, LeastSet
<1>2. T # {} /\ IsFiniteSet(T)
  BY SumEmpty, FS_Subset
<1>3. PICK x \in T : TRUE
  BY <1>2
<1>4. Sum(f, T) = f[x] + Sum(f, T \ {x})
  BY <1>2, SumTake
<1>5. Sum(f, T \ {x}) = 0
  BY <1>1
<1> QED
  BY <1>4, <1>5

\* A sum over a part is a sum over the whole, with zeros for the rest.
THEOREM SumFilter ==
    ASSUME NEW S, IsFiniteSet(S), NEW T, T \subseteq S, NEW f, \A x \in T : f[x] \in Nat,
           NEW g, \A x \in T : g[x] = f[x], \A x \in S \ T : g[x] = 0
    PROVE  Sum(f, T) = Sum(g, S)
<1> DEFINE Bad == {U \in SUBSET S : Sum(f, T \cap U) # Sum(g, U)}
<1>1. Bad = {}
  <2> SUFFICES ASSUME Bad # {} PROVE FALSE
    OBVIOUS
  <2>1. PICK U \in Bad : \A V \in Bad : ~(V \subseteq U /\ V # U)
    <3>1. Bad \subseteq SUBSET S
      OBVIOUS
    <3> HIDE DEF Bad
    <3> QED
      BY <3>1, LeastSet
  <2>2. U # {} /\ IsFiniteSet(U) /\ IsFiniteSet(T \cap U) /\ U \subseteq S
    <3>1. T \cap {} = {}
      OBVIOUS
    <3> QED
      BY <3>1, SumEmpty, FS_Subset
  <2>3. PICK x \in U : TRUE
    BY <2>2
  <2> DEFINE V == U \ {x}
  <2>4. Sum(f, T \cap V) = Sum(g, V)
    BY <2>1
  <2>5. \A y \in U : g[y] \in Nat
    BY <2>2
  <2>6. Sum(g, U) = g[x] + Sum(g, V) /\ Sum(g, V) \in Nat
    <3>1. Sum(g, U) = g[x] + Sum(g, V)
      BY <2>2, <2>5, SumTake
    <3>2. IsFiniteSet(V) /\ \A y \in V : g[y] \in Nat
      BY <2>2, <2>5, FS_RemoveElement
    <3> HIDE DEF V
    <3> QED
      BY <3>1, <3>2, SumTake
  <2>7. CASE x \in T
    <3>1. (T \cap U) \ {x} = T \cap V /\ x \in T \cap U
      BY <2>7
    <3>2. Sum(f, T \cap U) = f[x] + Sum(f, T \cap V)
      BY <2>2, <3>1, SumTake
    <3> QED
      BY <2>1, <2>4, <2>6, <2>7, <3>2
  <2>8. CASE x \notin T
    <3>1. T \cap U = T \cap V /\ g[x] = 0
      BY <2>2, <2>8
    <3>2. Sum(f, T \cap U) # Sum(g, U)
      OBVIOUS
    <3> HIDE DEF V
    <3>3. Sum(f, T \cap U) = Sum(f, T \cap V)
      BY <3>1
    <3> QED
      BY <2>4, <2>6, <3>1, <3>2, <3>3
  <2> QED
    BY <2>7, <2>8
<1>2. T \cap S = T
  OBVIOUS
<1> QED
  BY <1>1, <1>2

\* A part adds up to at most the whole.
THEOREM SumPart ==
    ASSUME NEW S, IsFiniteSet(S), NEW f, \A x \in S : f[x] \in Nat, NEW y \in S
    PROVE  f[y] <= Sum(f, S)
<1>1. Sum(f, S) = f[y] + Sum(f, S \ {y})
  BY SumTake
<1>2. Sum(f, S \ {y}) \in Nat
  BY SumTake, FS_RemoveElement
<1> QED
  BY <1>1, <1>2

\* Fewer elements make no greater sum.
THEOREM SumSubset ==
    ASSUME NEW T, IsFiniteSet(T), NEW S, S \subseteq T, NEW f, \A x \in T : f[x] \in Nat
    PROVE  Sum(f, S) <= Sum(f, T)
<1> DEFINE g == [x \in T |-> IF x \in S THEN f[x] ELSE 0]
<1>1. \A x \in T : g[x] \in Nat /\ g[x] <= f[x]
  OBVIOUS
<1>2. (\A x \in S : f[x] \in Nat /\ g[x] = f[x]) /\ \A x \in T \ S : g[x] = 0
  OBVIOUS
<1> HIDE DEF g
<1>3. Sum(f, S) = Sum(g, T)
  BY <1>2, SumFilter
<1>4. Sum(g, T) <= Sum(f, T)
  BY <1>1, SumLeq
<1> QED
  BY <1>3, <1>4

\* Finitely many numbers have a greatest.
LEMMA MaxExists ==
    ASSUME NEW S, IsFiniteSet(S)
    PROVE  S \subseteq Nat /\ S # {} => \E x \in S : \A y \in S : x >= y
<1> DEFINE HasMax(T) == \E x \in T : \A y \in T : x >= y
           Bad == {T \in SUBSET S : T \subseteq Nat /\ T # {} /\ ~HasMax(T)}
<1>1. Bad = {}
  <2> SUFFICES ASSUME Bad # {} PROVE FALSE
    OBVIOUS
  <2>1. PICK T \in Bad : \A U \in Bad : ~(U \subseteq T /\ U # T)
    <3>1. Bad \subseteq SUBSET S
      OBVIOUS
    <3> HIDE DEF Bad
    <3> QED
      BY <3>1, LeastSet
  <2>2. PICK x \in T : TRUE
    OBVIOUS
  <2>3. T \ {x} # {} => HasMax(T \ {x})
    <3> HIDE DEF HasMax
    <3> QED
      BY <2>1
  <2>4. T \subseteq Nat
    OBVIOUS
  <2>5. CASE T \ {x} = {}
    BY <2>4, <2>5
  <2>6. CASE T \ {x} # {}
    <3>1. PICK m \in T \ {x} : \A y \in T \ {x} : m >= y
      BY <2>3, <2>6
    <3>2. CASE m >= x
      <4>1. \A y \in T : m >= y
        BY <2>4, <3>1, <3>2
      <4> QED
        BY <4>1
    <3>3. CASE ~(m >= x)
      <4>1. \A y \in T : x >= y
        BY <2>4, <3>1, <3>3
      <4> QED
        BY <4>1
    <3> QED
      BY <3>2, <3>3
  <2> QED
    BY <2>5, <2>6
<1> QED
  BY <1>1

\* The greatest of finitely many numbers is one of them, and the others are at
\* most as great.
THEOREM MaxBounds ==
    ASSUME NEW S, IsFiniteSet(S), S \subseteq Nat, S # {}
    PROVE  Max(S) \in S /\ \A y \in S : y <= Max(S)
<1>1. \E x \in S : \A y \in S : x >= y
  BY MaxExists
<1>2. Max(S) \in S /\ \A y \in S : Max(S) >= y
  BY <1>1, Zenon DEF Max
<1> QED
  BY <1>2

=============================================================================
