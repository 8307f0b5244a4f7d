-------------------------------- MODULE Folding ---------------------------------
(***************************************************************************)
(* Laws of what the models compute one element after the other: the sum of *)
(* a function of integers over a finite set (SumFunctionOnSet), which the  *)
(* proofs about amounts and costs need, and what a condition keeps of a    *)
(* sequence (Filtering), which those about pages and batches need.         *)
(*                                                                         *)
(* Both are defined by recursion: over the subsets of the set, and over    *)
(* the beginnings of the sequence.  That the recursion defines a function, *)
(* and every law below, follows from a smallest counterexample.            *)
(***************************************************************************)
EXTENDS Filtering, FiniteSetsExt, FiniteSetTheorems, SequenceTheorems, WellFoundedInduction, TLAPS

Pick(s) == CHOOSE x \in s : TRUE

\* g is the sum of f over each subset of T.
Recurs(f, T, g) ==
    g = [s \in SUBSET T |-> IF s = {} THEN 0 ELSE f[Pick(s)] + g[s \ {Pick(s)}]]

LEMMA SumIsChosen ==
    ASSUME NEW f, NEW T
    PROVE  SumFunctionOnSet(f, T) = (CHOOSE g : Recurs(f, T, g))[T]
  BY Zenon DEF SumFunctionOnSet, FoldFunctionOnSet, MapThenFoldSet, Recurs, Pick

\* A set of finite subsets that is not empty has a smallest member.
LEMMA SmallestSubset ==
    ASSUME NEW S, NEW B \in SUBSET (SUBSET S), IsFiniteSet(S), B # {}
    PROVE  \E s \in B : \A t \in B : t \subseteq s => t = s
  <1>1. IsWellFoundedOn(StrictSubsetOrdering(S), FiniteSubsetsOf(S))
    BY FS_StrictSubsetOrderingWellFounded
  <1>2. B \subseteq FiniteSubsetsOf(S)
    BY FS_FiniteSubsetsOfFinite
  <1>3. \E s \in B : \A t \in B : ~(<<t, s>> \in StrictSubsetOrdering(S))
    BY <1>1, <1>2, WFMin
  <1> QED
    BY <1>3 DEF StrictSubsetOrdering

\* The same of numbers up to a bound.
LEMMA SmallestNumber ==
    ASSUME NEW n \in Nat, NEW B \in SUBSET (0..n), B # {}
    PROVE  \E i \in B : \A j \in B : i <= j
  <1> DEFINE C == {0..i : i \in B}
  <1>1. C \in SUBSET (SUBSET (0..n)) /\ C # {}
    <2>1. \A i \in B : 0..i \subseteq 0..n
      OBVIOUS
    <2>2. C \in SUBSET (SUBSET (0..n))
      BY <2>1
    <2>3. PICK i \in B : TRUE
      OBVIOUS
    <2>4. 0..i \in C
      OBVIOUS
    <2> QED
      BY <2>2, <2>4
  <1>2. PICK s \in C : \A t \in C : t \subseteq s => t = s
    <2>1. PICK S : S = 0..n
      OBVIOUS
    <2>2. IsFiniteSet(S)
      BY <2>1, FS_Interval
    <2>3. C \in SUBSET (SUBSET S) /\ C # {}
      BY <1>1, <2>1
    <2> HIDE DEF C
    <2> QED BY <2>2, <2>3, SmallestSubset
  <1>3. PICK i \in B : s = 0..i
    OBVIOUS
  <1>4. ASSUME NEW j \in B, j < i PROVE FALSE
    <2>1. 0..j \in C /\ 0..j \subseteq s /\ i \in s /\ i \notin 0..j
      BY <1>3, <1>4
    <2> QED
      BY <1>2, <2>1
  <1> QED
    BY <1>4

\* Two such functions agree where both are defined.
LEMMA RecursionUnique ==
    ASSUME NEW f, NEW T, IsFiniteSet(T), NEW U \in SUBSET T, NEW g, NEW h,
           Recurs(f, T, g), Recurs(f, U, h)
    PROVE  h[U] = g[U]
  <1> DEFINE B == {s \in SUBSET U : h[s] # g[s]}
  <1> SUFFICES ASSUME B # {} PROVE FALSE
    OBVIOUS
  <1>1. IsFiniteSet(U)
    BY FS_Subset
  <1>2. PICK s \in B : \A t \in B : t \subseteq s => t = s
    <2>1. B \in SUBSET (SUBSET U)
      OBVIOUS
    <2> HIDE DEF B
    <2> QED BY <1>1, <2>1, SmallestSubset
  <1>3. s \in SUBSET U /\ s \in SUBSET T /\ h[s] # g[s]
    OBVIOUS
  <1>4. CASE s = {}
    BY <1>3, <1>4 DEF Recurs
  <1>5. CASE s # {}
    <2> DEFINE t == s \ {Pick(s)}
    <2>1. Pick(s) \in s
      BY <1>5 DEF Pick
    <2>2. t \in SUBSET U /\ t # s /\ t \subseteq s
      BY <2>1
    <2>3. h[t] = g[t]
      BY <1>2, <2>2
    <2>4. h[s] = f[Pick(s)] + h[t] /\ g[s] = f[Pick(s)] + g[t]
      BY <1>3, <1>5 DEF Recurs
    <2> QED
      BY <1>3, <2>3, <2>4
  <1> QED
    BY <1>4, <1>5

\* Every finite set has such a function.
LEMMA RecursionExists ==
    ASSUME NEW f, NEW S, IsFiniteSet(S)
    PROVE  \E g : Recurs(f, S, g)
  <1> DEFINE B == {T \in SUBSET S : ~\E g : Recurs(f, T, g)}
  <1> SUFFICES ASSUME B # {} PROVE FALSE
    OBVIOUS
  <1>1. PICK T \in B : \A U \in B : U \subseteq T => U = T
    <2>1. B \in SUBSET (SUBSET S)
      OBVIOUS
    <2> HIDE DEF B
    <2> QED BY <2>1, SmallestSubset
  <1>2. T \in SUBSET S /\ ~\E g : Recurs(f, T, g)
    OBVIOUS
  <1> HIDE DEF B
  <1>3. ASSUME NEW U \in SUBSET T, U # T
        PROVE  \E g : Recurs(f, U, g)
    BY <1>1, <1>2, <1>3 DEF B
  <1> DEFINE Of(U) == CHOOSE g : Recurs(f, U, g)
             whole == [s \in SUBSET T |->
                         IF s = {} THEN 0
                         ELSE f[Pick(s)] + Of(s \ {Pick(s)})[s \ {Pick(s)}]]
  <1>4. ASSUME NEW U \in SUBSET T, U # T
        PROVE  Recurs(f, U, Of(U))
    BY <1>3, <1>4
  <1> HIDE DEF Of
  <1>5. ASSUME NEW s \in SUBSET T, s # {}
        PROVE  whole[s \ {Pick(s)}] = Of(s \ {Pick(s)})[s \ {Pick(s)}]
    <2> DEFINE u == s \ {Pick(s)}
               v == u \ {Pick(u)}
    <2>1. Pick(s) \in s
      BY <1>5 DEF Pick
    <2>2. u \in SUBSET T /\ u # T /\ v \in SUBSET u /\ v \in SUBSET T /\ v # T
      BY <2>1
    <2> HIDE DEF u
    <2>3. Recurs(f, u, Of(u)) /\ Recurs(f, v, Of(v))
      BY <1>4, <2>2
    <2>4. Of(u)[u] = IF u = {} THEN 0 ELSE f[Pick(u)] + Of(u)[v]
      BY <2>2, <2>3 DEF Recurs
    <2>5. whole[u] = IF u = {} THEN 0 ELSE f[Pick(u)] + Of(v)[v]
      BY <2>2
    <2>6. IsFiniteSet(u)
      BY <1>2, <2>2, FS_Subset
    <2>7. Of(v)[v] = Of(u)[v]
      BY <2>2, <2>3, <2>6, RecursionUnique
    <2> QED
      BY <2>4, <2>5, <2>7 DEF u
  <1>6. Recurs(f, T, whole)
    BY <1>5 DEF Recurs
  <1> QED
    BY <1>2, <1>6

-----------------------------------------------------------------------------
(* The recursion *)

LEMMA SumEmpty == \A f : SumFunctionOnSet(f, {}) = 0
  <1> SUFFICES ASSUME NEW f PROVE SumFunctionOnSet(f, {}) = 0
    OBVIOUS
  <1> DEFINE g == CHOOSE g : Recurs(f, {}, g)
  <1>1. Recurs(f, {}, g)
    BY RecursionExists, FS_EmptySet
  <1>2. g[{}] = 0
    <2> HIDE DEF g
    <2> QED BY <1>1 DEF Recurs
  <1> QED
    BY <1>2, SumIsChosen

LEMMA SumPicks ==
    ASSUME NEW f, NEW S, IsFiniteSet(S), S # {}
    PROVE  /\ Pick(S) \in S
           /\ SumFunctionOnSet(f, S) = f[Pick(S)] + SumFunctionOnSet(f, S \ {Pick(S)})
  <1> DEFINE Of(U) == CHOOSE g : Recurs(f, U, g)
             U == S \ {Pick(S)}
  <1>1. Pick(S) \in S
    BY DEF Pick
  <1>2. IsFiniteSet(U)
    BY FS_Subset
  <1>3. Recurs(f, S, Of(S)) /\ Recurs(f, U, Of(U))
    BY <1>2, RecursionExists
  <1>4. SumFunctionOnSet(f, S) = Of(S)[S] /\ SumFunctionOnSet(f, U) = Of(U)[U]
    BY SumIsChosen
  <1> HIDE DEF Of
  <1>5. Of(S)[S] = f[Pick(S)] + Of(S)[U]
    BY <1>3 DEF Recurs
  <1>6. Of(U)[U] = Of(S)[U]
    <2> HIDE DEF U
    <2> QED BY <1>3, RecursionUnique DEF U
  <1> QED
    BY <1>1, <1>4, <1>5, <1>6

\* The order in which the elements are picked does not matter.
THEOREM SumRemove ==
    ASSUME NEW S, IsFiniteSet(S), NEW f, \A i \in S : f[i] \in Int
    PROVE  /\ SumFunctionOnSet(f, S) \in Int
           /\ \A x \in S : SumFunctionOnSet(f, S) = f[x] + SumFunctionOnSet(f, S \ {x})
  <1> DEFINE Sum(T) == SumFunctionOnSet(f, T)
             Right(T) == Sum(T) \in Int /\ \A x \in T : Sum(T) = f[x] + Sum(T \ {x})
             B == {T \in SUBSET S : ~Right(T)}
  <1> SUFFICES ASSUME B # {} PROVE FALSE
    OBVIOUS
  <1>1. PICK T \in B : \A U \in B : U \subseteq T => U = T
    <2>1. B \in SUBSET (SUBSET S)
      OBVIOUS
    <2> HIDE DEF B
    <2> QED BY <2>1, SmallestSubset
  <1>2. T \in SUBSET S /\ ~Right(T)
    OBVIOUS
  <1>3. ASSUME NEW U \in SUBSET T, U # T
        PROVE  Right(U)
    BY <1>1, <1>2, <1>3, Zenon
  <1>4. IsFiniteSet(T) /\ \A i \in T : f[i] \in Int
    BY <1>2, FS_Subset
  <1>5. T # {}
    <2> SUFFICES ASSUME T = {} PROVE Right(T)
      BY <1>2
    <2>1. Sum(T) = 0
      BY SumEmpty
    <2> HIDE DEF Sum
    <2> QED BY <2>1
  <1> DEFINE c == Pick(T)
  <1>6. c \in T /\ Sum(T) = f[c] + Sum(T \ {c})
    BY <1>4, <1>5, SumPicks
  <1> HIDE DEF Sum, c, B
  <1>7. Sum(T \ {c}) \in Int
    BY <1>3, <1>6
  <1>8. ASSUME NEW x \in T
        PROVE  Sum(T) = f[x] + Sum(T \ {x})
    <2>1. CASE x = c
      BY <1>6, <2>1
    <2>2. CASE x # c
      <3>1. x \in T \ {c} /\ c \in T \ {x}
        BY <1>6, <2>2
      <3>2. (T \ {c}) \ {x} = (T \ {x}) \ {c}
        OBVIOUS
      <3>3. Sum(T \ {c}) = f[x] + Sum((T \ {c}) \ {x})
        BY <1>3, <1>6, <3>1
      <3>4. Sum(T \ {x}) = f[c] + Sum((T \ {x}) \ {c})
        BY <1>3, <3>1
      <3>5. Sum((T \ {x}) \ {c}) \in Int
        BY <1>3, <3>1
      <3>6. Sum((T \ {c}) \ {x}) = Sum((T \ {x}) \ {c})
        BY <3>2, Zenon
      <3>7. f[x] \in Int /\ f[c] \in Int
        BY <1>4, <1>6
      <3>8. Sum(T) = f[c] + (f[x] + Sum((T \ {x}) \ {c}))
        BY <1>6, <3>3, <3>6, Zenon
      <3> QED
        BY <3>4, <3>5, <3>7, <3>8
    <2> QED BY <2>1, <2>2
  <1> QED
    BY <1>2, <1>4, <1>6, <1>7, <1>8

\* Adding an element adds its value.
THEOREM SumAdd ==
    ASSUME NEW S, IsFiniteSet(S), NEW x, x \notin S,
           NEW f, \A i \in S \cup {x} : f[i] \in Int
    PROVE  /\ SumFunctionOnSet(f, S) \in Int
           /\ SumFunctionOnSet(f, S \cup {x}) = SumFunctionOnSet(f, S) + f[x]
  <1>1. IsFiniteSet(S \cup {x})
    BY FS_AddElement
  <1>2. SumFunctionOnSet(f, S) \in Int
    BY SumRemove
  <1>3. SumFunctionOnSet(f, S \cup {x}) = f[x] + SumFunctionOnSet(f, (S \cup {x}) \ {x})
    BY <1>1, SumRemove
  <1>4. (S \cup {x}) \ {x} = S
    OBVIOUS
  <1>5. SumFunctionOnSet(f, S \cup {x}) = f[x] + SumFunctionOnSet(f, S)
    BY <1>3, <1>4, Zenon
  <1> QED
    BY <1>2, <1>5

\* The sum depends on the values over the set only.
THEOREM SumSame ==
    ASSUME NEW S, IsFiniteSet(S), NEW f, NEW g, \A i \in S : f[i] = g[i]
    PROVE  SumFunctionOnSet(f, S) = SumFunctionOnSet(g, S)
  <1> DEFINE B == {T \in SUBSET S : SumFunctionOnSet(f, T) # SumFunctionOnSet(g, T)}
  <1> SUFFICES ASSUME B # {} PROVE FALSE
    OBVIOUS
  <1>1. PICK T \in B : \A U \in B : U \subseteq T => U = T
    <2>1. B \in SUBSET (SUBSET S)
      OBVIOUS
    <2> HIDE DEF B
    <2> QED BY <2>1, SmallestSubset
  <1>2. T \in SUBSET S /\ SumFunctionOnSet(f, T) # SumFunctionOnSet(g, T)
    OBVIOUS
  <1>3. T # {}
    BY <1>2, SumEmpty, Zenon
  <1>4. IsFiniteSet(T)
    BY <1>2, FS_Subset
  <1>5. /\ Pick(T) \in T
        /\ SumFunctionOnSet(f, T) = f[Pick(T)] + SumFunctionOnSet(f, T \ {Pick(T)})
        /\ SumFunctionOnSet(g, T) = g[Pick(T)] + SumFunctionOnSet(g, T \ {Pick(T)})
    BY <1>3, <1>4, SumPicks
  <1>6. SumFunctionOnSet(f, T \ {Pick(T)}) = SumFunctionOnSet(g, T \ {Pick(T)})
    <2>1. T \ {Pick(T)} \in SUBSET S /\ T \ {Pick(T)} \subseteq T /\ T \ {Pick(T)} # T
      BY <1>2, <1>5
    <2> QED
      BY <1>1, <2>1
  <1>7. f[Pick(T)] = g[Pick(T)]
    BY <1>2, <1>5
  <1> QED
    BY <1>2, <1>5, <1>6, <1>7, Zenon

\* A sum of natural numbers is one, and a part of it is no larger.
THEOREM SumPart ==
    ASSUME NEW S, IsFiniteSet(S), NEW T \in SUBSET S, NEW f, \A i \in S : f[i] \in Nat
    PROVE  /\ SumFunctionOnSet(f, S) \in Nat
           /\ SumFunctionOnSet(f, T) \in Nat
           /\ SumFunctionOnSet(f, T) <= SumFunctionOnSet(f, S)
  <1> DEFINE Sum(U) == SumFunctionOnSet(f, U)
             Right(U) == Sum(U) \in Nat /\ \A V \in SUBSET U : Sum(V) \in Nat /\ Sum(V) <= Sum(U)
             B == {U \in SUBSET S : ~Right(U)}
  <1> SUFFICES ASSUME B # {} PROVE FALSE
    OBVIOUS
  <1>1. PICK U \in B : \A V \in B : V \subseteq U => V = U
    <2>1. B \in SUBSET (SUBSET S)
      OBVIOUS
    <2> HIDE DEF B
    <2> QED BY <2>1, SmallestSubset
  <1>2. U \in SUBSET S /\ ~Right(U)
    OBVIOUS
  <1>3. ASSUME NEW V \in SUBSET U, V # U
        PROVE  Right(V)
    BY <1>1, <1>2, <1>3, Zenon
  <1>4. U # {}
    <2> SUFFICES ASSUME U = {} PROVE Right(U)
      BY <1>2
    <2>1. Sum({}) = 0
      BY SumEmpty
    <2>2. \A V \in SUBSET U : V = {}
      OBVIOUS
    <2> HIDE DEF Sum
    <2> QED BY <2>1, <2>2
  <1>5. IsFiniteSet(U) /\ \A i \in U : f[i] \in Int /\ f[i] \in Nat
    BY <1>2, FS_Subset
  <1>6. \A x \in U : Sum(U) = f[x] + Sum(U \ {x})
    BY <1>5, SumRemove
  <1> HIDE DEF Sum, B
  <1>7. \A x \in U : Sum(U \ {x}) \in Nat
    BY <1>3
  <1>8. Sum(U) \in Nat
    <2>1. PICK x \in U : TRUE
      BY <1>4
    <2>2. Sum(U) = f[x] + Sum(U \ {x}) /\ f[x] \in Nat /\ Sum(U \ {x}) \in Nat
      BY <1>5, <1>6, <1>7
    <2> QED BY <2>2
  <1>9. ASSUME NEW V \in SUBSET U
        PROVE  Sum(V) \in Nat /\ Sum(V) <= Sum(U)
    <2>1. CASE V = U
      BY <1>8, <2>1
    <2>2. CASE V # U
      <3>1. PICK x \in U : x \notin V
        BY <2>2
      <3>2. V \in SUBSET (U \ {x}) /\ U \ {x} # U
        BY <3>1
      <3>3. Sum(V) \in Nat /\ Sum(V) <= Sum(U \ {x})
        BY <1>3, <3>2
      <3> QED
        BY <1>5, <1>6, <1>7, <3>3
    <2> QED BY <2>1, <2>2
  <1> QED
    BY <1>2, <1>8, <1>9

\* When f changes at x alone, the sum changes by as much.
THEOREM SumChange ==
    ASSUME NEW S, IsFiniteSet(S), NEW x \in S, NEW f, NEW g,
           \A i \in S : f[i] \in Int /\ g[i] \in Int,
           \A i \in S \ {x} : g[i] = f[i]
    PROVE  /\ SumFunctionOnSet(f, S) \in Int
           /\ SumFunctionOnSet(g, S) = SumFunctionOnSet(f, S) - f[x] + g[x]
  <1> DEFINE T == S \ {x}
  <1>1. IsFiniteSet(T)
    BY FS_Subset
  <1>2. SumFunctionOnSet(f, T) = SumFunctionOnSet(g, T)
    BY <1>1, SumSame
  <1>3. SumFunctionOnSet(f, S) \in Int /\ SumFunctionOnSet(f, S) = f[x] + SumFunctionOnSet(f, T)
    BY SumRemove
  <1>4. SumFunctionOnSet(g, S) \in Int /\ SumFunctionOnSet(g, S) = g[x] + SumFunctionOnSet(g, T)
    BY SumRemove
  <1>5. SumFunctionOnSet(f, T) \in Int
    BY <1>1, SumRemove
  <1> HIDE DEF T
  <1> QED
    BY <1>2, <1>3, <1>4, <1>5

\* A sum of values of at most m is at most m for each of its elements.
THEOREM SumBound ==
    ASSUME NEW S, IsFiniteSet(S), NEW m \in Nat, NEW f,
           \A i \in S : f[i] \in Nat /\ f[i] <= m
    PROVE  SumFunctionOnSet(f, S) <= m * Cardinality(S)
  <1> DEFINE Right(U) == SumFunctionOnSet(f, U) <= m * Cardinality(U)
             B == {U \in SUBSET S : ~Right(U)}
  <1> SUFFICES ASSUME B # {} PROVE FALSE
    OBVIOUS
  <1>1. PICK U \in B : \A V \in B : V \subseteq U => V = U
    <2>1. B \in SUBSET (SUBSET S)
      OBVIOUS
    <2> HIDE DEF B
    <2> QED BY <2>1, SmallestSubset
  <1>2. U \in SUBSET S /\ ~Right(U)
    OBVIOUS
  <1>3. U # {}
    BY <1>2, SumEmpty, FS_EmptySet
  <1>4. IsFiniteSet(U) /\ \A i \in U : f[i] \in Nat /\ f[i] <= m
    BY <1>2, FS_Subset
  <1>5. PICK x \in U : TRUE
    BY <1>3
  <1> DEFINE V == U \ {x}
  <1>6. V \in SUBSET S /\ V \subseteq U /\ V # U
    BY <1>2
  <1>7. Right(V)
    BY <1>1, <1>6
  <1>8. Cardinality(V) \in Nat /\ Cardinality(U) = Cardinality(V) + 1
    <2>1. IsFiniteSet(V) /\ Cardinality(V) = Cardinality(U) - 1
      BY <1>4, FS_RemoveElement
    <2>2. Cardinality(U) \in Nat /\ Cardinality(V) \in Nat
      BY <1>4, <2>1, FS_CardinalityType
    <2> HIDE DEF V
    <2> QED BY <2>1, <2>2
  <1>9. SumFunctionOnSet(f, U) = f[x] + SumFunctionOnSet(f, V)
    BY <1>4, SumRemove
  <1>10. SumFunctionOnSet(f, V) \in Nat
    BY <1>4, <1>6, SumPart
  <1>11. m * Cardinality(U) = m * Cardinality(V) + m
    BY <1>8
  <1> DEFINE a == m * Cardinality(V)
  <1>12. a \in Int
    BY <1>8
  <1> QED
    BY <1>2, <1>4, <1>7, <1>9, <1>10, <1>11, <1>12

\* A sum of values of at least m is at least m for each of its elements.
THEOREM SumFloor ==
    ASSUME NEW S, IsFiniteSet(S), NEW m \in Nat, NEW f,
           \A i \in S : f[i] \in Nat /\ f[i] >= m
    PROVE  SumFunctionOnSet(f, S) \in Nat /\ SumFunctionOnSet(f, S) >= m * Cardinality(S)
  <1> DEFINE Right(U) == SumFunctionOnSet(f, U) \in Nat /\ SumFunctionOnSet(f, U) >= m * Cardinality(U)
             B == {U \in SUBSET S : ~Right(U)}
  <1> SUFFICES ASSUME B # {} PROVE FALSE
    OBVIOUS
  <1>1. PICK U \in B : \A V \in B : V \subseteq U => V = U
    <2>1. B \in SUBSET (SUBSET S)
      OBVIOUS
    <2> HIDE DEF B
    <2> QED BY <2>1, SmallestSubset
  <1>2. U \in SUBSET S /\ ~Right(U)
    OBVIOUS
  <1>3. U # {}
    <2>1. SumFunctionOnSet(f, {}) = 0 /\ Cardinality({}) = 0
      BY SumEmpty, FS_EmptySet
    <2> QED BY <1>2, <2>1
  <1>4. IsFiniteSet(U) /\ \A i \in U : f[i] \in Nat /\ f[i] >= m
    BY <1>2, FS_Subset
  <1>5. PICK x \in U : TRUE
    BY <1>3
  <1> DEFINE V == U \ {x}
  <1>6. V \in SUBSET S /\ V \subseteq U /\ V # U
    BY <1>2
  <1>7. Right(V)
    BY <1>1, <1>6
  <1>8. Cardinality(V) \in Nat /\ Cardinality(U) = Cardinality(V) + 1
    <2>1. IsFiniteSet(V) /\ Cardinality(V) = Cardinality(U) - 1
      BY <1>4, FS_RemoveElement
    <2>2. Cardinality(U) \in Nat /\ Cardinality(V) \in Nat
      BY <1>4, <2>1, FS_CardinalityType
    <2> HIDE DEF V
    <2> QED BY <2>1, <2>2
  <1>9. SumFunctionOnSet(f, U) = f[x] + SumFunctionOnSet(f, V)
    BY <1>4, SumRemove
  <1>11. m * Cardinality(U) = m * Cardinality(V) + m
    BY <1>8
  <1> DEFINE a == m * Cardinality(V)
  <1>12. a \in Int
    BY <1>8
  <1> QED
    BY <1>2, <1>4, <1>7, <1>9, <1>11, <1>12

\* It is at least the number of elements when none is below 1.
THEOREM SumAtLeast ==
    ASSUME NEW S, IsFiniteSet(S), NEW f, \A i \in S : f[i] \in Nat \ {0}
    PROVE  SumFunctionOnSet(f, S) >= Cardinality(S)
  <1>1. 1 \in Nat /\ \A i \in S : f[i] \in Nat /\ f[i] >= 1
    OBVIOUS
  <1>2. SumFunctionOnSet(f, S) \in Nat /\ SumFunctionOnSet(f, S) >= 1 * Cardinality(S)
    BY <1>1, SumFloor
  <1>3. Cardinality(S) \in Nat
    BY FS_CardinalityType
  <1> QED BY <1>2, <1>3

\* The sum over two disjoint sets.
THEOREM SumUnion ==
    ASSUME NEW S, NEW T, IsFiniteSet(S), IsFiniteSet(T), S \cap T = {},
           NEW f, \A i \in S \cup T : f[i] \in Int
    PROVE  /\ SumFunctionOnSet(f, S) \in Int /\ SumFunctionOnSet(f, T) \in Int
           /\ SumFunctionOnSet(f, S \cup T)
                = SumFunctionOnSet(f, S) + SumFunctionOnSet(f, T)
  <1> DEFINE Sum(U) == SumFunctionOnSet(f, U)
             B == {U \in SUBSET T : Sum(S \cup U) # Sum(S) + Sum(U)}
  <1>1. Sum(S) \in Int /\ Sum(T) \in Int
    BY SumRemove
  <1> SUFFICES ASSUME B # {} PROVE FALSE
    BY <1>1
  <1>2. PICK U \in B : \A V \in B : V \subseteq U => V = U
    <2>1. B \in SUBSET (SUBSET T)
      OBVIOUS
    <2> HIDE DEF B
    <2> QED BY <2>1, SmallestSubset
  <1>3. U # {}
    <2> SUFFICES ASSUME U = {} PROVE FALSE
      OBVIOUS
    <2>1. S \cup U = S /\ Sum(U) = 0
      BY SumEmpty
    <2>2. Sum(S \cup U) # Sum(S) + Sum(U)
      BY <1>2
    <2> HIDE DEF Sum, B
    <2>3. Sum(S \cup U) = Sum(S)
      BY <2>1
    <2> QED
      BY <1>1, <2>1, <2>2, <2>3
  <1>4. PICK x \in U : TRUE
    BY <1>3
  <1> DEFINE V == U \ {x}
  <1>5. V \notin B /\ V \subseteq T
    BY <1>2, <1>4
  <1>6. IsFiniteSet(U) /\ IsFiniteSet(S \cup U)
    BY <1>2, FS_Subset, FS_Union
  <1>7. (S \cup U) \ {x} = S \cup V
    BY <1>2, <1>4
  <1>8. Sum(U) = f[x] + Sum(V)
    BY <1>2, <1>4, <1>6, SumRemove
  <1>9. Sum(S \cup U) = f[x] + Sum(S \cup V)
    <2>1. x \in S \cup U /\ \A i \in S \cup U : f[i] \in Int
      BY <1>2, <1>4
    <2>2. Sum(S \cup U) = f[x] + Sum((S \cup U) \ {x})
      BY <1>6, <2>1, SumRemove
    <2> QED
      BY <1>7, <2>2
  <1>10. Sum(S \cup V) = Sum(S) + Sum(V)
    BY <1>5
  <1>11. Sum(V) \in Int /\ f[x] \in Int
    <2>1. IsFiniteSet(V) /\ \A i \in V : f[i] \in Int
      BY <1>2, <1>6, FS_RemoveElement
    <2> HIDE DEF V
    <2> QED BY <1>2, <1>4, <2>1, SumRemove
  <1> HIDE DEF Sum, V
  <1>12. Sum(S \cup U) = Sum(S) + Sum(U)
    BY <1>1, <1>8, <1>9, <1>10, <1>11
  <1> QED
    BY <1>2, <1>12

-----------------------------------------------------------------------------
(* Combinations and squares *)

\* What the empty set has, and a set has when it has it but for one element, all
\* finite sets have.
LEMMA SubsetInduction ==
    ASSUME NEW S, IsFiniteSet(S), NEW B \in SUBSET (SUBSET S), {} \in B,
           \A U \in SUBSET S : \A x \in U : U \ {x} \in B => U \in B
    PROVE  S \in B
  <1> DEFINE C == (SUBSET S) \ B
  <1> SUFFICES ASSUME C # {} PROVE FALSE
    OBVIOUS
  <1>1. PICK U \in C : \A V \in C : V \subseteq U => V = U
    <2>1. C \in SUBSET (SUBSET S)
      OBVIOUS
    <2> HIDE DEF C
    <2> QED BY <2>1, SmallestSubset
  <1>2. PICK x \in U : TRUE
    OBVIOUS
  <1>3. U \ {x} \in SUBSET S /\ U \ {x} \subseteq U /\ U \ {x} # U
    BY <1>2
  <1>4. U \ {x} \in B
    BY <1>1, <1>3
  <1> QED BY <1>2, <1>4

\* The sum of a combination is the combination of the sums.
THEOREM SumLinear ==
    ASSUME NEW S, IsFiniteSet(S), NEW a \in Int, NEW b \in Int, NEW f, NEW g, NEW h,
           \A i \in S : f[i] \in Int /\ g[i] \in Int /\ h[i] = a * f[i] + b * g[i]
    PROVE  SumFunctionOnSet(h, S) = a * SumFunctionOnSet(f, S) + b * SumFunctionOnSet(g, S)
  <1> DEFINE Right(U) == SumFunctionOnSet(h, U) = a * SumFunctionOnSet(f, U) + b * SumFunctionOnSet(g, U)
             B == {U \in SUBSET S : Right(U)}
  <1>1. {} \in B
    <2>1. SumFunctionOnSet(f, {}) = 0 /\ SumFunctionOnSet(g, {}) = 0 /\ SumFunctionOnSet(h, {}) = 0
      BY SumEmpty
    <2>2. 0 = a * 0 + b * 0
      OBVIOUS
    <2> QED BY <2>1, <2>2
  <1>2. ASSUME NEW U \in SUBSET S, NEW x \in U, U \ {x} \in B
        PROVE  U \in B
    <2> DEFINE V == U \ {x}
    <2>1. IsFiniteSet(U) /\ IsFiniteSet(V)
      BY FS_Subset
    <2>2. \A i \in U : f[i] \in Int /\ g[i] \in Int /\ h[i] \in Int
      <3>1. ASSUME NEW i \in U
            PROVE  f[i] \in Int /\ g[i] \in Int /\ h[i] \in Int
        <4>1. PICK p, q \in Int : p = f[i] /\ q = g[i] /\ h[i] = a * p + b * q
          OBVIOUS
        <4>2. a * p + b * q \in Int
          OBVIOUS
        <4> QED BY <4>1, <4>2
      <3> QED BY <3>1
    <2>3. PICK p, q, r, s, t, u \in Int :
            /\ p = f[x] /\ q = g[x] /\ r = SumFunctionOnSet(f, V) /\ s = SumFunctionOnSet(g, V)
            /\ t = h[x] /\ u = SumFunctionOnSet(h, V)
      <3>1. /\ SumFunctionOnSet(f, V) \in Int /\ SumFunctionOnSet(g, V) \in Int
            /\ SumFunctionOnSet(h, V) \in Int
        BY <2>1, <2>2, SumRemove
      <3> HIDE DEF V
      <3> QED BY <2>2, <3>1
    <2>4. /\ SumFunctionOnSet(f, U) = p + r /\ SumFunctionOnSet(g, U) = q + s
          /\ SumFunctionOnSet(h, U) = t + u
      BY <2>1, <2>2, <2>3, SumRemove
    <2>5. u = a * r + b * s /\ t = a * p + b * q
      <3>1. SumFunctionOnSet(h, V) = a * SumFunctionOnSet(f, V) + b * SumFunctionOnSet(g, V)
        BY <1>2
      <3>2. h[x] = a * f[x] + b * g[x]
        BY <1>2
      <3> HIDE DEF V
      <3> QED BY <2>3, <3>1, <3>2, Zenon
    <2>6. t + u = a * (p + r) + b * (q + s)
      <3>1. a * (p + r) = a * p + a * r /\ b * (q + s) = b * q + b * s
        OBVIOUS
      <3>2. a * p \in Int /\ a * r \in Int /\ b * q \in Int /\ b * s \in Int
        OBVIOUS
      <3> HIDE DEF V
      <3> QED BY <2>5, <3>1, <3>2
    <2> QED BY <2>4, <2>6
  <1> HIDE DEF B
  <1>3. S \in B
    <2>1. B \in SUBSET (SUBSET S)
      BY DEF B
    <2> QED BY <1>1, <1>2, <2>1, SubsetInduction
  <1> QED BY <1>3 DEF B

\* As many ones as there are elements.
LEMMA SumOfOnes ==
    ASSUME NEW S, IsFiniteSet(S), NEW f, \A i \in S : f[i] = 1
    PROVE  SumFunctionOnSet(f, S) = Cardinality(S)
  <1>1. 1 \in Nat /\ \A i \in S : f[i] \in Nat /\ f[i] >= 1 /\ f[i] <= 1
    OBVIOUS
  <1>2. PICK s, c \in Nat : s = SumFunctionOnSet(f, S) /\ c = Cardinality(S)
    BY <1>1, SumFloor, FS_CardinalityType
  <1>3. s >= 1 * c /\ s <= 1 * c
    BY <1>1, <1>2, SumFloor, SumBound
  <1> QED BY <1>2, <1>3

\* The squares of the distances to a number x make no negative sum.
LEMMA SumOfDistances ==
    ASSUME NEW S, IsFiniteSet(S), NEW f, NEW g, NEW x \in Int,
           \A i \in S : f[i] \in Int /\ g[i] = f[i] * f[i]
    PROVE  SumFunctionOnSet(g, S) + Cardinality(S) * (x * x) - 2 * (x * SumFunctionOnSet(f, S)) >= 0
  <1> PICK o : o = [i \in S |-> 1]
    OBVIOUS
  <1> PICK k : k = [i \in S |-> f[i] * f[i] + x * x - 2 * (x * f[i])]
    OBVIOUS
  <1> PICK m : m = [i \in S |-> x * x - 2 * (x * f[i])]
    OBVIOUS
  <1> PICK y \in Int : y = x * x
    OBVIOUS
  <1>1. ASSUME NEW i \in S
        PROVE  /\ f[i] \in Int /\ g[i] \in Int /\ o[i] = 1 /\ m[i] \in Int /\ k[i] \in Nat
               /\ m[i] = y * o[i] + (-2 * x) * f[i] /\ k[i] = 1 * g[i] + 1 * m[i]
    <2>1. PICK z \in Int : z = f[i] /\ g[i] = z * z
      OBVIOUS
    <2>2. z * z + x * x - 2 * (x * z) = (z - x) * (z - x)
      OBVIOUS
    <2>3. (z - x) * (z - x) \in Nat
      <3>1. PICK w \in Int : w = z - x
        OBVIOUS
      <3>2. w * w >= 0 /\ w * w \in Int
        OBVIOUS
      <3> QED BY <3>1, <3>2
    <2>4. x * z \in Int /\ (-2 * x) * z = -2 * (x * z)
      OBVIOUS
    <2> QED BY <2>1, <2>2, <2>3, <2>4
  <1>2. SumFunctionOnSet(m, S) = y * SumFunctionOnSet(o, S) + (-2 * x) * SumFunctionOnSet(f, S)
    <2>1. -2 * x \in Int /\ \A i \in S : o[i] \in Int /\ f[i] \in Int /\ m[i] = y * o[i] + (-2 * x) * f[i]
      BY <1>1
    <2> QED BY <2>1, SumLinear
  <1>3. SumFunctionOnSet(k, S) = 1 * SumFunctionOnSet(g, S) + 1 * SumFunctionOnSet(m, S)
    <2>1. \A i \in S : g[i] \in Int /\ m[i] \in Int /\ k[i] = 1 * g[i] + 1 * m[i]
      BY <1>1
    <2> QED BY <2>1, SumLinear
  <1>4. SumFunctionOnSet(k, S) >= 0
    <2>1. \A i \in S : k[i] \in Nat
      BY <1>1
    <2>2. SumFunctionOnSet(k, S) \in Nat
      BY <2>1, SumPart
    <2> QED BY <2>2
  <1>5. SumFunctionOnSet(o, S) = Cardinality(S) /\ Cardinality(S) \in Nat
    BY <1>1, SumOfOnes, FS_CardinalityType
  <1>6. PICK c \in Nat, s, t, u \in Int :
          /\ c = Cardinality(S) /\ s = SumFunctionOnSet(f, S) /\ t = SumFunctionOnSet(g, S)
          /\ u = SumFunctionOnSet(m, S)
    BY <1>1, <1>5, SumRemove
  <1>7. u = y * c + (-2 * x) * s /\ 1 * t + 1 * u >= 0
    BY <1>2, <1>3, <1>4, <1>5, <1>6
  <1>8. t + c * (x * x) - 2 * (x * s) >= 0
    <2>1. y * c = c * (x * x) /\ (-2 * x) * s = -2 * (x * s) /\ c * (x * x) \in Int /\ x * s \in Int
      OBVIOUS
    <2> QED BY <1>7, <2>1
  <1> QED BY <1>6, <1>8

\* The square of a sum is no more than the squares of its terms, times their number.
THEOREM SquareOfSum ==
    ASSUME NEW S, IsFiniteSet(S), NEW f, NEW g, \A i \in S : f[i] \in Int /\ g[i] = f[i] * f[i]
    PROVE  Cardinality(S) * SumFunctionOnSet(g, S) >= SumFunctionOnSet(f, S) * SumFunctionOnSet(f, S)
  <1> DEFINE Right(U) == Cardinality(U) * SumFunctionOnSet(g, U)
                           >= SumFunctionOnSet(f, U) * SumFunctionOnSet(f, U)
             B == {U \in SUBSET S : Right(U)}
  <1>1. {} \in B
    <2>1. SumFunctionOnSet(f, {}) = 0 /\ SumFunctionOnSet(g, {}) = 0 /\ Cardinality({}) = 0
      BY SumEmpty, FS_EmptySet
    <2>2. 0 * 0 >= 0 * 0
      OBVIOUS
    <2> QED BY <2>1, <2>2
  <1>2. ASSUME NEW U \in SUBSET S, NEW x \in U, U \ {x} \in B
        PROVE  U \in B
    <2> DEFINE V == U \ {x}
    <2>1. IsFiniteSet(U) /\ IsFiniteSet(V)
      BY FS_Subset
    <2>2. \A i \in U : f[i] \in Int /\ g[i] \in Int /\ g[i] = f[i] * f[i]
      OBVIOUS
    <2>3. PICK z, s, t, c \in Int :
            /\ z = f[x] /\ z * z = g[x] /\ s = SumFunctionOnSet(f, V) /\ t = SumFunctionOnSet(g, V)
            /\ c = Cardinality(V)
      <3>1. SumFunctionOnSet(f, V) \in Int /\ SumFunctionOnSet(g, V) \in Int
        BY <2>1, <2>2, SumRemove
      <3>2. Cardinality(V) \in Int
        BY <2>1, FS_CardinalityType
      <3> HIDE DEF V
      <3> QED BY <2>2, <3>1, <3>2
    <2>4. SumFunctionOnSet(f, U) = z + s /\ SumFunctionOnSet(g, U) = z * z + t /\ Cardinality(U) = c + 1
      <3>1. SumFunctionOnSet(f, U) = z + s /\ SumFunctionOnSet(g, U) = z * z + t
        BY <2>1, <2>2, <2>3, SumRemove
      <3>2. Cardinality(V) = Cardinality(U) - 1 /\ Cardinality(U) \in Nat
        BY <2>1, FS_RemoveElement, FS_CardinalityType
      <3>3. Cardinality(U) = c + 1
        <4> HIDE DEF V
        <4> QED BY <2>3, <3>2
      <3> QED BY <3>1, <3>3
    <2>5. c * t >= s * s
      <3>1. Cardinality(V) * SumFunctionOnSet(g, V) >= SumFunctionOnSet(f, V) * SumFunctionOnSet(f, V)
        BY <1>2
      <3> HIDE DEF V
      <3> QED BY <2>3, <3>1, Zenon
    <2>6. t + c * (z * z) - 2 * (z * s) >= 0
      <3>1. \A i \in V : f[i] \in Int /\ g[i] = f[i] * f[i]
        OBVIOUS
      <3> HIDE DEF V
      <3> QED BY <2>1, <2>3, <3>1, SumOfDistances
    <2>7. (c + 1) * (z * z + t) >= (z + s) * (z + s)
      <3>1. /\ (c + 1) * (z * z + t) = c * (z * z) + c * t + z * z + t
            /\ (z + s) * (z + s) = z * z + 2 * (z * s) + s * s
        OBVIOUS
      <3>2. /\ c * (z * z) \in Int /\ c * t \in Int /\ z * z \in Int /\ z * s \in Int /\ s * s \in Int
        OBVIOUS
      <3> HIDE DEF V
      <3> QED BY <2>5, <2>6, <3>1, <3>2
    <2> QED BY <2>4, <2>7
  <1> HIDE DEF B
  <1>3. S \in B
    <2>1. B \in SUBSET (SUBSET S)
      BY DEF B
    <2> QED BY <1>1, <1>2, <2>1, SubsetInduction
  <1> QED BY <1>3 DEF B

\* A part of a sum of natural numbers is a term.
LEMMA SumHasTerm ==
    ASSUME NEW S, IsFiniteSet(S), NEW f, \A i \in S : f[i] \in Nat, NEW x \in S
    PROVE  SumFunctionOnSet(f, S) \in Nat /\ f[x] <= SumFunctionOnSet(f, S)
  <1>1. SumFunctionOnSet(f, S) = f[x] + SumFunctionOnSet(f, S \ {x})
    <2>1. \A i \in S : f[i] \in Int
      OBVIOUS
    <2> QED BY <2>1, SumRemove
  <1>2. SumFunctionOnSet(f, S) \in Nat /\ SumFunctionOnSet(f, S \ {x}) \in Nat
    <2>1. S \ {x} \in SUBSET S
      OBVIOUS
    <2> QED BY <2>1, SumPart
  <1> QED BY <1>1, <1>2

\* It is less when two of the terms differ.
THEOREM SquareOfUnequal ==
    ASSUME NEW S, IsFiniteSet(S), NEW f, NEW g, \A i \in S : f[i] \in Int /\ g[i] = f[i] * f[i],
           NEW i \in S, NEW j \in S, f[i] # f[j]
    PROVE  Cardinality(S) * SumFunctionOnSet(g, S) > SumFunctionOnSet(f, S) * SumFunctionOnSet(f, S)
  <1>1. /\ \A x \in S : f[x] \in Int /\ g[x] \in Int
        /\ SumFunctionOnSet(f, S) \in Int /\ SumFunctionOnSet(g, S) \in Int
    <2>1. \A x \in S : f[x] \in Int /\ g[x] \in Int
      OBVIOUS
    <2> QED BY <2>1, SumRemove
  <1>2. PICK c \in Nat, s, t \in Int :
          c = Cardinality(S) /\ s = SumFunctionOnSet(f, S) /\ t = SumFunctionOnSet(g, S)
    BY <1>1, FS_CardinalityType
  <1>3. c # 0
    BY <1>2, FS_EmptySet
  <1>4. PICK k : k = [x \in S |-> (c * f[x] - s) * (c * f[x] - s)]
    OBVIOUS
  <1>5. PICK m : m = [x \in S |-> (c * c) * g[x] + (-2 * (c * s)) * f[x]]
    OBVIOUS
  <1>6. PICK o : o = [x \in S |-> 1]
    OBVIOUS
  <1>7. PICK a, b, d \in Int : a = c * c /\ b = -2 * (c * s) /\ d = s * s
    <2>1. c * c \in Int /\ -2 * (c * s) \in Int /\ s * s \in Int
      OBVIOUS
    <2> QED BY <2>1
  <1>8. ASSUME NEW x \in S
        PROVE  /\ k[x] \in Nat /\ m[x] \in Int /\ m[x] = a * g[x] + b * f[x]
               /\ k[x] = 1 * m[x] + d * o[x]
    <2>1. PICK z \in Int : z = f[x] /\ g[x] = z * z
      BY <1>1
    <2>2. k[x] = (c * z - s) * (c * z - s) /\ m[x] = (c * c) * (z * z) + (-2 * (c * s)) * z
      BY <1>4, <1>5, <2>1
    <2>3. (c * z - s) * (c * z - s) \in Nat
      <3>1. PICK w \in Int : w = c * z - s
        <4>1. c * z \in Int
          OBVIOUS
        <4> QED BY <4>1
      <3>2. w * w \in Nat
        OBVIOUS
      <3> QED BY <3>1, <3>2
    <2>4. (c * z - s) * (c * z - s) = (c * c) * (z * z) + (-2 * (c * s)) * z + s * s
      OBVIOUS
    <2>5. (c * c) * (z * z) + (-2 * (c * s)) * z \in Int
      OBVIOUS
    <2>6. m[x] = a * g[x] + b * f[x]
      BY <1>7, <2>1, <2>2, Zenon
    <2>7. k[x] = m[x] + d
      BY <1>7, <2>2, <2>4, Zenon
    <2>8. o[x] = 1
      BY <1>6
    <2>9. m[x] \in Int /\ k[x] \in Nat
      BY <2>2, <2>3, <2>5, Zenon
    <2> QED BY <1>7, <2>6, <2>7, <2>8, <2>9
  <1>9. SumFunctionOnSet(m, S) = a * t + b * s
    <2>1. \A x \in S : g[x] \in Int /\ f[x] \in Int /\ m[x] = a * g[x] + b * f[x]
      BY <1>1, <1>8
    <2>2. SumFunctionOnSet(m, S) = a * SumFunctionOnSet(g, S) + b * SumFunctionOnSet(f, S)
      BY <1>7, <2>1, SumLinear
    <2> QED BY <1>2, <2>2, Zenon
  <1>10. SumFunctionOnSet(k, S) = 1 * SumFunctionOnSet(m, S) + d * c
    <2>1. \A x \in S : m[x] \in Int /\ o[x] \in Int /\ k[x] = 1 * m[x] + d * o[x]
      BY <1>6, <1>8
    <2>2. 1 \in Int
      OBVIOUS
    <2>3. SumFunctionOnSet(k, S) = 1 * SumFunctionOnSet(m, S) + d * SumFunctionOnSet(o, S)
      BY <1>7, <2>1, <2>2, SumLinear
    <2>4. SumFunctionOnSet(o, S) = c
      BY <1>2, <1>6, SumOfOnes
    <2> QED BY <2>3, <2>4, Zenon
  <1>11. SumFunctionOnSet(k, S) > 0
    <2>1. \A x \in S : k[x] \in Nat
      BY <1>8
    <2>2. SumFunctionOnSet(k, S) \in Nat /\ k[i] <= SumFunctionOnSet(k, S) /\ k[j] <= SumFunctionOnSet(k, S)
      BY <2>1, SumHasTerm
    <2>3. k[i] # 0 \/ k[j] # 0
      <3>1. PICK y, z \in Int : y = f[i] /\ z = f[j] /\ y # z
        BY <1>1
      <3>2. k[i] = (c * y - s) * (c * y - s) /\ k[j] = (c * z - s) * (c * z - s)
        BY <1>4, <3>1
      <3>3. c * y # c * z
        <4>1. PICK e \in Int : e = y - z /\ e # 0
          BY <3>1
        <4>2. c * e # 0
          BY <1>3, <4>1
        <4>3. c * (y - z) = c * y - c * z
          OBVIOUS
        <4>4. c * y - c * z # 0 /\ c * y \in Int /\ c * z \in Int
          BY <4>1, <4>2, <4>3
        <4> QED BY <4>4
      <3>4. PICK u, v \in Int : u = c * y - s /\ v = c * z - s
        <4>1. c * y \in Int /\ c * z \in Int
          OBVIOUS
        <4> QED BY <4>1
      <3>5. u # 0 \/ v # 0
        <4>1. c * y \in Int /\ c * z \in Int
          OBVIOUS
        <4> QED BY <3>3, <3>4, <4>1
      <3>6. u # 0 => u * u # 0
        OBVIOUS
      <3>7. v # 0 => v * v # 0
        OBVIOUS
      <3> QED BY <3>2, <3>4, <3>5, <3>6, <3>7
    <2> QED BY <2>1, <2>2, <2>3
  <1>12. a * t + b * s + d * c > 0
    <2>1. a * t + b * s \in Int
      OBVIOUS
    <2> QED BY <1>9, <1>10, <1>11, <2>1
  <1>13. c * (c * t - s * s) > 0
    <2>1. c * (c * t - s * s) = (c * c) * t + (-2 * (c * s)) * s + (s * s) * c
      OBVIOUS
    <2> QED BY <1>7, <1>12, <2>1, Zenon
  <1>14. c * t > s * s
    <2>1. PICK e \in Int : e = c * t - s * s
      <3>1. c * t \in Int /\ s * s \in Int
        OBVIOUS
      <3> QED BY <3>1
    <2>2. c * e > 0 => e > 0
      BY <1>3
    <2>3. c * t \in Int /\ s * s \in Int
      OBVIOUS
    <2> QED BY <1>13, <2>1, <2>2, <2>3
  <1> QED BY <1>2, <1>14

-----------------------------------------------------------------------------
(* Sequences without some of their elements *)

\* g is what is left of the first n elements of s, for each n up to m.
Filters(s, T, m, g) ==
    g = [n \in 0..m |-> IF n = 0 THEN <<>>
                        ELSE IF s[n] \in T THEN g[n - 1] ELSE Append(g[n - 1], s[n])]

LEMMA FilterExists ==
  ASSUME NEW s, NEW T, NEW m \in Nat
  PROVE  \E g : Filters(s, T, m, g)
<1>. DEFINE B == {n \in 0..m : ~ \E g : Filters(s, T, n, g)}
<1>. SUFFICES ASSUME B # {} PROVE FALSE
  OBVIOUS
<1>1. PICK n \in B : \A k \in B : n <= k
  <2>1. B \in SUBSET (0..m)
    OBVIOUS
  <2>. HIDE DEF B
  <2>. QED
    BY <2>1, SmallestNumber
<1>2. CASE n = 0
  <2>1. Filters(s, T, 0, [k \in 0..0 |-> <<>>])
    BY DEF Filters
  <2>. QED
    BY <1>1, <1>2, <2>1
<1>3. CASE n # 0
  <2>1. n - 1 \in 0..m /\ n - 1 \notin B /\ n \in 1..m
    BY <1>1, <1>3
  <2>2. PICK g : Filters(s, T, n - 1, g)
    BY <2>1
  <2>. DEFINE h == [k \in 0..n |-> IF k = n THEN IF s[n] \in T THEN g[n - 1] ELSE Append(g[n - 1], s[n])
                                   ELSE g[k]]
  <2>3. ASSUME NEW k \in 0..n
        PROVE  h[k] = IF k = 0 THEN <<>> ELSE IF s[k] \in T THEN h[k - 1] ELSE Append(h[k - 1], s[k])
    <3>1. CASE k = n
      BY <2>1, <3>1
    <3>2. CASE k # n
      <4>1. k \in 0..(n - 1) /\ (k # 0 => k - 1 \in 0..n /\ k - 1 # n)
        BY <2>1, <3>2
      <4>2. g[k] = IF k = 0 THEN <<>> ELSE IF s[k] \in T THEN g[k - 1] ELSE Append(g[k - 1], s[k])
        BY <2>2, <4>1 DEF Filters
      <4>. QED
        BY <3>2, <4>1, <4>2
    <3>. QED
      BY <3>1, <3>2
  <2>4. Filters(s, T, n, h)
    <3>1. h = [k \in 0..n |-> h[k]]
      OBVIOUS
    <3>. HIDE DEF h
    <3>. QED
      BY <2>3, <3>1 DEF Filters
  <2>. QED
    BY <1>1, <2>4
<1>. QED
  BY <1>2, <1>3

\* What is kept is computed along the beginnings of the sequence.
LEMMA WithoutSteps ==
  ASSUME NEW S, NEW s \in Seq(S), NEW T
  PROVE  \E g : /\ g[0] = <<>>
                /\ \A n \in 1..Len(s) : g[n] = IF s[n] \in T THEN g[n - 1] ELSE Append(g[n - 1], s[n])
                /\ Without(s, T) = g[Len(s)]
<1>. DEFINE g == CHOOSE g : Filters(s, T, Len(s), g)
<1>1. Len(s) \in Nat
  BY LenProperties
<1>2. Without(s, T) = g[Len(s)]
  BY Zenon DEF Without, Filters
<1>3. Filters(s, T, Len(s), g)
  BY <1>1, FilterExists
<1>. HIDE DEF g
<1>4. g = [n \in 0..Len(s) |-> IF n = 0 THEN <<>>
                        ELSE IF s[n] \in T THEN g[n - 1] ELSE Append(g[n - 1], s[n])]
  BY <1>3, Zenon DEF Filters
<1>5. ASSUME NEW n \in 0..Len(s)
      PROVE  g[n] = IF n = 0 THEN <<>> ELSE IF s[n] \in T THEN g[n - 1] ELSE Append(g[n - 1], s[n])
  BY <1>4
<1>6. g[0] = <<>> /\ \A n \in 1..Len(s) : g[n] = IF s[n] \in T THEN g[n - 1] ELSE Append(g[n - 1], s[n])
  BY <1>1, <1>5
<1>. QED
  BY <1>2, <1>6

\* What is kept are elements of the sequence, and no more of them than it has.
THEOREM WithoutTypes ==
  ASSUME NEW S, NEW s \in Seq(S), NEW T
  PROVE  Without(s, T) \in Seq(S) /\ Len(Without(s, T)) <= Len(s)
<1>1. Len(s) \in Nat /\ \A n \in 1..Len(s) : s[n] \in S
  BY LenProperties, ElementOfSeq
<1>2. PICK g : /\ g[0] = <<>>
               /\ \A n \in 1..Len(s) : g[n] = IF s[n] \in T THEN g[n - 1] ELSE Append(g[n - 1], s[n])
               /\ Without(s, T) = g[Len(s)]
  BY WithoutSteps
<1>4. g[0] = <<>> /\ \A n \in 1..Len(s) : g[n] = IF s[n] \in T THEN g[n - 1] ELSE Append(g[n - 1], s[n])
  BY <1>2
<1>. DEFINE B == {n \in 0..Len(s) : ~ (g[n] \in Seq(S) /\ Len(g[n]) <= n)}
<1>5. ASSUME B # {} PROVE FALSE
  <2>1. PICK n \in B : \A k \in B : n <= k
    <3>1. B \in SUBSET (0..Len(s))
      OBVIOUS
    <3>. HIDE DEF B
    <3>. QED
      BY <1>1, <1>5, <3>1, SmallestNumber
  <2>2. n # 0
    BY <2>1, <1>4, EmptySeq
  <2>3. n - 1 \in 0..Len(s) /\ n - 1 \notin B /\ n \in 1..Len(s)
    BY <1>1, <2>1, <2>2
  <2>4. g[n - 1] \in Seq(S) /\ Len(g[n - 1]) <= n - 1 /\ Len(g[n - 1]) \in Nat
    BY <2>3
  <2>5. Append(g[n - 1], s[n]) \in Seq(S) /\ Len(Append(g[n - 1], s[n])) = Len(g[n - 1]) + 1
    BY <1>1, <2>3, <2>4, AppendProperties
  <2>6. g[n] \in {g[n - 1], Append(g[n - 1], s[n])}
    BY <1>4, <2>3
  <2>7. g[n] \in Seq(S) /\ Len(g[n]) <= n
    <3>1. n \in Int /\ n - 1 <= n
      BY <2>3
    <3>2. CASE g[n] = g[n - 1]
      BY <2>4, <3>1, <3>2
    <3>3. CASE g[n] = Append(g[n - 1], s[n])
      BY <2>4, <2>5, <3>1, <3>3
    <3>. QED
      BY <2>6, <3>2, <3>3
  <2>. QED
    BY <2>1, <2>7
<1>. QED
  BY <1>1, <1>2, <1>5

\* A sequence over a set is one over any larger set.
THEOREM SeqWidens ==
    ASSUME NEW S, NEW T, S \subseteq T, NEW s \in Seq(S)
    PROVE  s \in Seq(T)
  <1>1. Len(s) \in Nat /\ s \in [1..Len(s) -> S]
    BY LenProperties
  <1>2. s \in [1..Len(s) -> T]
    BY <1>1
  <1>. QED
    BY <1>1, <1>2, SeqDef

\* What is appended is in the range.
LEMMA RangeOfAppend ==
  ASSUME NEW S, NEW s \in Seq(S), NEW e \in S
  PROVE  Range(Append(s, e)) = Range(s) \cup {e}
<1>1. Len(s) \in Nat /\ DOMAIN s = 1..Len(s)
  BY LenProperties
<1>2. /\ DOMAIN Append(s, e) = 1..(Len(s) + 1) /\ Append(s, e)[Len(s) + 1] = e
      /\ \A k \in 1..Len(s) : Append(s, e)[k] = s[k]
  BY AppendProperties, <1>1
<1>. PICK a : a = Append(s, e)
  OBVIOUS
<1>3. \A x : x \in Range(a) => x \in Range(s) \cup {e}
  BY <1>1, <1>2 DEF Range
<1>4. \A x : x \in Range(s) => x \in Range(a)
  BY <1>1, <1>2 DEF Range
<1>5. e \in Range(a)
  BY <1>1, <1>2 DEF Range
<1>. QED
  BY <1>3, <1>4, <1>5

\* What is kept is what is not in T.
THEOREM WithoutRange ==
  ASSUME NEW S, NEW s \in Seq(S), NEW T
  PROVE  Range(Without(s, T)) = Range(s) \ T
<1>1. Len(s) \in Nat /\ DOMAIN s = 1..Len(s) /\ \A n \in 1..Len(s) : s[n] \in S
  BY LenProperties, ElementOfSeq
<1>2. PICK g : /\ g[0] = <<>>
               /\ \A n \in 1..Len(s) : g[n] = IF s[n] \in T THEN g[n - 1] ELSE Append(g[n - 1], s[n])
               /\ Without(s, T) = g[Len(s)]
  BY WithoutSteps
<1>. DEFINE First(n) == {s[j] : j \in 1..n}
            B == {n \in 0..Len(s) : ~ (g[n] \in Seq(S) /\ Range(g[n]) = First(n) \ T)}
<1>3. ASSUME B # {} PROVE FALSE
  <2>1. PICK n \in B : \A k \in B : n <= k
    <3>1. B \in SUBSET (0..Len(s))
      OBVIOUS
    <3>. HIDE DEF B
    <3>. QED
      BY <1>1, <1>3, <3>1, SmallestNumber
  <2>2. n # 0
    <3>1. Range(<<>>) = {}
      BY DEF Range
    <3>2. First(0) = {}
      OBVIOUS
    <3>. QED
      BY <2>1, <1>2, <3>1, <3>2, EmptySeq
  <2>3. n - 1 \in 0..Len(s) /\ n - 1 \notin B /\ n \in 1..Len(s) /\ n \in Nat
    <3>1. n \in 0..Len(s)
      OBVIOUS
    <3>. HIDE DEF B
    <3>. QED
      BY <1>1, <2>1, <2>2, <3>1
  <2>4. g[n - 1] \in Seq(S) /\ Range(g[n - 1]) = First(n - 1) \ T
    BY <2>3
  <2>5. First(n) = First(n - 1) \cup {s[n]}
    BY <2>3
  <2>. HIDE DEF First
  <2>6. Append(g[n - 1], s[n]) \in Seq(S) /\ Range(Append(g[n - 1], s[n])) = Range(g[n - 1]) \cup {s[n]}
    BY <1>1, <2>3, <2>4, AppendProperties, RangeOfAppend
  <2>7. g[n] \in Seq(S) /\ Range(g[n]) = First(n) \ T
    <3>1. CASE s[n] \in T
      <4>1. g[n] = g[n - 1]
        BY <1>2, <2>3, <3>1
      <4>. QED
        BY <2>4, <2>5, <3>1, <4>1
    <3>2. CASE s[n] \notin T
      <4>1. g[n] = Append(g[n - 1], s[n])
        BY <1>2, <2>3, <3>2
      <4>. QED
        BY <2>4, <2>5, <2>6, <3>2, <4>1
    <3>. QED
      BY <3>1, <3>2
  <2>. QED
    BY <2>1, <2>7
<1>4. Len(s) \in 0..Len(s) /\ Len(s) \notin B
  <2>. HIDE DEF B
  <2>. QED
    BY <1>1, <1>3
<1>5. First(Len(s)) = Range(s)
  BY <1>1 DEF Range
<1>. QED
  BY <1>2, <1>4, <1>5

\* Nothing is kept twice that is in the sequence once.
THEOREM WithoutInjective ==
  ASSUME NEW S, NEW s \in Seq(S), NEW T, IsInjective(s)
  PROVE  IsInjective(Without(s, T))
<1>1. Len(s) \in Nat /\ DOMAIN s = 1..Len(s) /\ \A n \in 1..Len(s) : s[n] \in S
  BY LenProperties, ElementOfSeq
<1>2. PICK g : /\ g[0] = <<>>
               /\ \A n \in 1..Len(s) : g[n] = IF s[n] \in T THEN g[n - 1] ELSE Append(g[n - 1], s[n])
               /\ Without(s, T) = g[Len(s)]
  BY WithoutSteps
<1>. DEFINE First(n) == {s[j] : j \in 1..n}
            B == {n \in 0..Len(s) :
                    ~ (g[n] \in Seq(S) /\ IsInjective(g[n]) /\ Range(g[n]) \subseteq First(n))}
<1>3. ASSUME B # {} PROVE FALSE
  <2>1. PICK n \in B : \A k \in B : n <= k
    <3>1. B \in SUBSET (0..Len(s))
      OBVIOUS
    <3>. HIDE DEF B
    <3>. QED
      BY <1>1, <1>3, <3>1, SmallestNumber
  <2>2. n # 0
    <3>1. Range(<<>>) = {} /\ IsInjective(<<>>)
      BY DEF Range, IsInjective
    <3>. QED
      BY <2>1, <1>2, <3>1, EmptySeq
  <2>3. n - 1 \in 0..Len(s) /\ n - 1 \notin B /\ n \in 1..Len(s) /\ n \in Nat
    <3>1. n \in 0..Len(s)
      OBVIOUS
    <3>. HIDE DEF B
    <3>. QED
      BY <1>1, <2>1, <2>2, <3>1
  <2>4. g[n - 1] \in Seq(S) /\ IsInjective(g[n - 1]) /\ Range(g[n - 1]) \subseteq First(n - 1)
    BY <2>3
  <2>5. First(n) = First(n - 1) \cup {s[n]}
    BY <2>3
  <2>6. s[n] \notin First(n - 1)
    BY <1>1, <2>3 DEF IsInjective
  <2>. HIDE DEF First
  <2>7. /\ Append(g[n - 1], s[n]) \in Seq(S)
        /\ Range(Append(g[n - 1], s[n])) = Range(g[n - 1]) \cup {s[n]}
    BY <1>1, <2>3, <2>4, AppendProperties, RangeOfAppend
  <2>8. IsInjective(Append(g[n - 1], s[n]))
    <3>. PICK q : q = g[n - 1]
      OBVIOUS
    <3>. PICK e : e = s[n]
      OBVIOUS
    <3>. PICK a : a = Append(q, e)
      OBVIOUS
    <3>0. q \in Seq(S) /\ e \in S
      BY <1>1, <2>3, <2>4
    <3>1. Len(q) \in Nat /\ DOMAIN q = 1..Len(q)
      BY <3>0, LenProperties
    <3>2. /\ DOMAIN a = 1..(Len(q) + 1) /\ a[Len(q) + 1] = e
          /\ \A k \in 1..Len(q) : a[k] = q[k]
      BY <3>0, <3>1, AppendProperties
    <3>3. \A k \in 1..Len(q) : q[k] # e
      BY <2>4, <2>6, <3>1 DEF Range
    <3>4. \A j, k \in 1..Len(q) : q[j] = q[k] => j = k
      BY <2>4, <3>1 DEF IsInjective
    <3>5. \A j, k \in DOMAIN a : a[j] = a[k] => j = k
      BY <3>1, <3>2, <3>3, <3>4
    <3>. QED
      BY <3>5 DEF IsInjective
  <2>9. g[n] \in Seq(S) /\ IsInjective(g[n]) /\ Range(g[n]) \subseteq First(n)
    <3>1. CASE s[n] \in T
      <4>1. g[n] = g[n - 1]
        BY <1>2, <2>3, <3>1
      <4>. QED
        BY <2>4, <2>5, <4>1
    <3>2. CASE s[n] \notin T
      <4>1. g[n] = Append(g[n - 1], s[n])
        BY <1>2, <2>3, <3>2
      <4>. QED
        BY <2>4, <2>5, <2>7, <2>8, <4>1
    <3>. QED
      BY <3>1, <3>2
  <2>. QED
    BY <2>1, <2>9
<1>4. Len(s) \in 0..Len(s) /\ Len(s) \notin B
  <2>. HIDE DEF B
  <2>. QED
    BY <1>1, <1>3
<1>. QED
  BY <1>2, <1>4

\* What is kept stays in its order: of what comes after an element of s and is
\* not in T, everything comes after that element in what is kept.
THEOREM WithoutOrder ==
  ASSUME NEW S, NEW s \in Seq(S), NEW T
  PROVE  \A b \in DOMAIN Without(s, T) : \E a \in DOMAIN s :
            /\ s[a] = Without(s, T)[b]
            /\ \A c \in DOMAIN s : a < c /\ s[c] \notin T =>
                  \E d \in DOMAIN Without(s, T) : b < d /\ Without(s, T)[d] = s[c]
<1>1. Len(s) \in Nat /\ DOMAIN s = 1..Len(s) /\ \A n \in 1..Len(s) : s[n] \in S
  BY LenProperties, ElementOfSeq
<1>2. PICK g : /\ g[0] = <<>>
               /\ \A n \in 1..Len(s) : g[n] = IF s[n] \in T THEN g[n - 1] ELSE Append(g[n - 1], s[n])
               /\ Without(s, T) = g[Len(s)]
  BY WithoutSteps
<1>. DEFINE InOrderTo(n, w) ==
              \A b \in DOMAIN w : \E a \in 1..n :
                 /\ s[a] = w[b]
                 /\ \A c \in 1..n : a < c /\ s[c] \notin T => \E d \in DOMAIN w : b < d /\ w[d] = s[c]
            B == {n \in 0..Len(s) : ~ (g[n] \in Seq(S) /\ InOrderTo(n, g[n]))}
<1>3. ASSUME B # {} PROVE FALSE
  <2>1. PICK n \in B : \A k \in B : n <= k
    <3>1. B \in SUBSET (0..Len(s))
      OBVIOUS
    <3>. HIDE DEF B
    <3>. QED
      BY <1>1, <1>3, <3>1, SmallestNumber
  <2>2. n # 0
    <3>1. InOrderTo(0, <<>>) /\ <<>> \in Seq(S)
      BY EmptySeq
    <3>. HIDE DEF InOrderTo
    <3>2. ~ (g[n] \in Seq(S) /\ InOrderTo(n, g[n]))
      BY <2>1
    <3>3. g[0] \in Seq(S) /\ InOrderTo(0, g[0])
      BY <1>2, <3>1
    <3>. HIDE DEF B
    <3>. QED
      BY <3>2, <3>3
  <2>3. n - 1 \in 0..Len(s) /\ n - 1 \notin B /\ n \in 1..Len(s) /\ n \in Nat
    <3>1. n \in 0..Len(s)
      OBVIOUS
    <3>. HIDE DEF B
    <3>. QED
      BY <1>1, <2>1, <2>2, <3>1
  <2>4. g[n - 1] \in Seq(S) /\ InOrderTo(n - 1, g[n - 1])
    BY <2>3
  <2>. PICK q : q = g[n - 1]
    OBVIOUS
  <2>. HIDE DEF B
  <2>5. q \in Seq(S) /\ s[n] \in S /\ \A k \in 1..n : k \in 1..(n - 1) \/ k = n
    BY <1>1, <2>3, <2>4
  <2>6. \A k \in 1..(n - 1) : k \in 1..n /\ k < n
    BY <2>3
  <2>7. CASE s[n] \in T
    <3>1. g[n] = q
      BY <1>2, <2>3, <2>7
    <3>2. InOrderTo(n, q)
      BY <2>4, <2>5, <2>6, <2>7
    <3>. HIDE DEF InOrderTo
    <3>. QED
      BY <2>1, <2>5, <3>1, <3>2 DEF B
  <2>8. CASE s[n] \notin T
    <3>. PICK w : w = Append(q, s[n])
      OBVIOUS
    <3>1. g[n] = w
      BY <1>2, <2>3, <2>8
    <3>2. /\ w \in Seq(S) /\ Len(q) \in Nat /\ DOMAIN q = 1..Len(q) /\ DOMAIN w = 1..(Len(q) + 1)
          /\ w[Len(q) + 1] = s[n] /\ \A k \in 1..Len(q) : w[k] = q[k]
      BY <2>5, AppendProperties, LenProperties
    <3>3. ASSUME NEW b \in DOMAIN w
          PROVE  \E a \in 1..n :
                   /\ s[a] = w[b]
                   /\ \A c \in 1..n : a < c /\ s[c] \notin T => \E d \in DOMAIN w : b < d /\ w[d] = s[c]
      <4>1. CASE b \in DOMAIN q
        <5>1. PICK a \in 1..(n - 1) :
                /\ s[a] = q[b]
                /\ \A c \in 1..(n - 1) : a < c /\ s[c] \notin T => \E d \in DOMAIN q : b < d /\ q[d] = s[c]
          BY <2>4, <4>1
        <5>2. ASSUME NEW c \in 1..n, a < c, s[c] \notin T
              PROVE  \E d \in DOMAIN w : b < d /\ w[d] = s[c]
          <6>1. CASE c \in 1..(n - 1)
            <7>1. PICK d \in DOMAIN q : b < d /\ q[d] = s[c]
              BY <5>1, <5>2, <6>1
            <7>2. d \in DOMAIN w /\ w[d] = q[d]
              BY <3>2
            <7>. QED
              BY <7>1, <7>2
          <6>2. CASE c = n
            <7>1. Len(q) + 1 \in DOMAIN w /\ b < Len(q) + 1
              BY <3>2, <4>1
            <7>. QED
              BY <3>2, <6>2, <7>1
          <6>. QED
            BY <2>5, <6>1, <6>2
        <5>3. a \in 1..n /\ s[a] = w[b]
          BY <2>6, <3>2, <4>1, <5>1
        <5>. QED
          BY <5>2, <5>3
      <4>2. CASE b \notin DOMAIN q
        <5>1. b = Len(q) + 1
          BY <3>2, <4>2
        <5>2. n \in 1..n /\ \A c \in 1..n : ~(n < c)
          BY <2>3
        <5>. QED
          BY <3>2, <5>1, <5>2
      <4>. QED
        BY <4>1, <4>2
    <3>4. InOrderTo(n, w)
      BY <3>3
    <3>. HIDE DEF InOrderTo
    <3>. QED
      BY <2>1, <3>1, <3>2, <3>4 DEF B
  <2>. QED
    BY <2>7, <2>8
<1>4. Len(s) \in 0..Len(s) /\ Len(s) \notin B
  <2>. HIDE DEF B
  <2>. QED
    BY <1>1, <1>3
<1>5. InOrderTo(Len(s), g[Len(s)])
  BY <1>4
<1>. QED
  BY <1>1, <1>2, <1>5
===============================================================================
