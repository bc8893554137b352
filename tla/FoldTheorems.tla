---------------------------- MODULE FoldTheorems ----------------------------
(***************************************************************************)
(* What the proofs need to know of loops and of sums: that a loop over a   *)
(* finite sequence has a result, and what happens to a sum when a holder   *)
(* joins or leaves, and when amounts change.                               *)
(***************************************************************************)
EXTENDS Sums, FiniteSetTheorems, WellFoundedInduction, TLAPS

-----------------------------------------------------------------------------
(* Loops *)

\* Every set of natural numbers that is not empty has a least element.
LEMMA LeastNat ==
    ASSUME NEW S, S \subseteq Nat, S # {}
    PROVE  \E n \in S : \A m \in S : n <= m
  <1> DEFINE R == OpToRel(<, Nat)
  <1>1. IsWellFoundedOn(R, Nat)
    BY NatLessThanWellFounded
  <1>2. \A x, y \in Nat : <<y, x>> \notin R => x <= y
    BY DEF OpToRel
  <1> HIDE DEF R
  <1>3. \E n \in S : \A m \in S : ~(<<m, n>> \in R)
    BY <1>1, WFMin
  <1>4. PICK n \in S : \A m \in S : <<m, n>> \notin R
    BY <1>3
  <1>5. n \in Nat /\ \A m \in S : m \in Nat
    OBVIOUS
  <1>6. \A m \in S : n <= m
    BY <1>2, <1>4, <1>5
  <1> QED
    BY <1>6

\* Induction up to n, over a set.
LEMMA UpTo ==
    ASSUME NEW n \in Nat, NEW S, 0 \in S, \A i \in 1 .. n : i - 1 \in S => i \in S
    PROVE  \A i \in 0 .. n : i \in S
  <1> DEFINE Bad == {i \in 0 .. n : i \notin S}
  <1> SUFFICES ASSUME Bad # {}
               PROVE  FALSE
    OBVIOUS
  <1>1. Bad \subseteq Nat
    OBVIOUS
  <1>2. PICK i \in Bad : \A j \in Bad : i <= j
    BY <1>1, LeastNat
  <1>3. i \in 1 .. n /\ i - 1 \in 0 .. n /\ ~(i <= i - 1)
    BY <1>2
  <1>4. i - 1 \in S
    BY <1>2, <1>3
  <1> QED
    BY <1>2, <1>3, <1>4

\* F gives the next value in D for the number of a step and the value before.
IsBody(F, n, D) == F \in [(1 .. n) \X D -> D]

\* f holds the values after 0, 1, ..., n steps.
IsLoop(f, F, n, start, D) ==
    /\ f \in [0 .. n -> D] /\ f[0] = start
    /\ \A i \in 1 .. n : f[i] = F[<<i, f[i - 1]>>]

\* A loop of n steps has a result.
LEMMA Iteration ==
    ASSUME NEW n \in Nat, NEW D, NEW start \in D, NEW F, IsBody(F, n, D)
    PROVE  \E f : IsLoop(f, F, n, start, D)
  <1> DEFINE Run(m, f) == f[0] = start /\ \A i \in 1 .. m : f[i] = F[<<i, f[i - 1]>>]
             S == {m \in 0 .. n : \E f \in [0 .. m -> D] : Run(m, f)}
  <1> USE DEF IsBody
  <1>1. 0 \in S
    <2> DEFINE f == [i \in 0 .. 0 |-> start]
    <2>1. f \in [0 .. 0 -> D] /\ Run(0, f) /\ 0 \in 0 .. n
      OBVIOUS
    <2> HIDE DEF f
    <2> QED
      BY <2>1
  <1>2. ASSUME NEW m \in 1 .. n, m - 1 \in S
        PROVE  m \in S
    <2>1. PICK f \in [0 .. m - 1 -> D] : Run(m - 1, f)
      BY <1>2
    <2> DEFINE g == [i \in 0 .. m |-> IF i = m THEN F[<<m, f[m - 1]>>] ELSE f[i]]
    <2>2. m - 1 \in 0 .. m - 1 /\ m \in 0 .. n
      OBVIOUS
    <2>3. f[m - 1] \in D /\ F[<<m, f[m - 1]>>] \in D
      BY <2>2
    <2>4. g \in [0 .. m -> D]
      BY <2>3
    <2>5. g[0] = f[0] /\ g[m] = F[<<m, f[m - 1]>>] /\ \A i \in 0 .. m - 1 : g[i] = f[i]
      OBVIOUS
    <2> HIDE DEF g
    <2>6. Run(m, g)
      <3>1. ASSUME NEW i \in 1 .. m
            PROVE  g[i] = F[<<i, g[i - 1]>>]
        <4>1. CASE i = m
          BY <2>2, <2>5, <4>1
        <4>2. CASE i # m
          <5>1. i \in 1 .. m - 1 /\ i \in 0 .. m - 1 /\ i - 1 \in 0 .. m - 1
            BY <4>2
          <5> QED
            BY <2>1, <2>5, <5>1
        <4> QED
          BY <4>1, <4>2
      <3> QED
        BY <2>1, <2>5, <3>1
    <2> QED
      BY <2>2, <2>4, <2>6
  <1> HIDE DEF S
  <1>3. n \in S
    BY <1>1, <1>2, UpTo
  <1> QED
    BY <1>3 DEF S, IsLoop

-----------------------------------------------------------------------------
(* Sums *)

\* Finitely many holders have finitely many units.
LEMMA UnitsFinite ==
    ASSUME NEW S, IsFiniteSet(S), NEW f, \A s \in S : f[s] \in Nat
    PROVE  IsFiniteSet(Units(f, S))
  <1> DEFINE part == [s \in S |-> {s} \X (1 .. f[s])]
             parts == {{s} \X (1 .. f[s]) : s \in S}
  <1>1. part \in Surjection(S, parts)
    BY DEF Surjection
  <1>2. IsFiniteSet(parts)
    BY <1>1, FS_Surjection
  <1>3. \A T \in parts : IsFiniteSet(T)
    <2> SUFFICES ASSUME NEW s \in S PROVE IsFiniteSet({s} \X (1 .. f[s]))
      OBVIOUS
    <2>1. IsFiniteSet({s})
      BY FS_Singleton
    <2>2. IsFiniteSet(1 .. f[s])
      <3>1. 1 \in Int /\ f[s] \in Int
        OBVIOUS
      <3> QED
        BY <3>1, FS_Interval
    <2> QED
      BY <2>1, <2>2, FS_Product
  <1> QED
    BY <1>2, <1>3, FS_UNION DEF Units

\* One holder has as many units as its amount says.
LEMMA UnitsOfOne ==
    ASSUME NEW s, NEW n \in Nat
    PROVE  IsFiniteSet({s} \X (1 .. n)) /\ Cardinality({s} \X (1 .. n)) = n
  <1>1. IsFiniteSet({s}) /\ Cardinality({s}) = 1
    BY FS_Singleton
  <1>2. IsFiniteSet(1 .. n) /\ Cardinality(1 .. n) = n
    BY FS_Interval
  <1>3. /\ IsFiniteSet({s} \X (1 .. n))
        /\ Cardinality({s} \X (1 .. n)) = Cardinality({s}) * Cardinality(1 .. n)
    BY <1>1, <1>2, FS_Product
  <1> QED
    BY <1>1, <1>2, <1>3

\* A sum is a natural number.
LEMMA SumType ==
    ASSUME NEW S, IsFiniteSet(S), NEW f, \A s \in S : f[s] \in Nat
    PROVE  Sum(f, S) \in Nat
  BY UnitsFinite, FS_CardinalityType DEF Sum

\* Amounts that agree have the same sum.
LEMMA SumEqual ==
    ASSUME NEW S, NEW f, NEW g, \A s \in S : f[s] = g[s]
    PROVE  Sum(f, S) = Sum(g, S)
  <1>1. Units(f, S) = Units(g, S)
    BY DEF Units
  <1> QED
    BY <1>1 DEF Sum

\* Nobody has nothing.
LEMMA SumEmpty ==
    ASSUME NEW f
    PROVE  Sum(f, {}) = 0
  BY FS_EmptySet DEF Sum, Units

\* A holder that joins adds its amount.
LEMMA SumAdd ==
    ASSUME NEW S, IsFiniteSet(S), NEW f, NEW s, s \notin S,
           \A t \in S \cup {s} : f[t] \in Nat
    PROVE  Sum(f, S \cup {s}) = Sum(f, S) + f[s]
  <1> DEFINE one == {s} \X (1 .. f[s])
  <1>1. Units(f, S \cup {s}) = Units(f, S) \cup one
    BY DEF Units
  <1>2. Units(f, S) \cap one = {}
    BY DEF Units
  <1>3. IsFiniteSet(one) /\ Cardinality(one) = f[s]
    BY UnitsOfOne
  <1>4. IsFiniteSet(Units(f, S)) /\ Cardinality(Units(f, S)) \in Nat
    BY UnitsFinite, FS_CardinalityType
  <1>5. Cardinality(Units(f, S) \cup one)
          = Cardinality(Units(f, S)) + Cardinality(one) - Cardinality({})
    BY <1>2, <1>3, <1>4, FS_Union
  <1>6. Cardinality({}) = 0 /\ f[s] \in Nat
    BY FS_EmptySet
  <1> HIDE DEF one
  <1>7. Cardinality(Units(f, S) \cup one) = Cardinality(Units(f, S)) + f[s]
    BY <1>3, <1>4, <1>5, <1>6
  <1> QED
    BY <1>1, <1>7 DEF Sum

\* A holder that leaves takes its amount away.
LEMMA SumRemove ==
    ASSUME NEW S, IsFiniteSet(S), NEW f, NEW s \in S,
           \A t \in S : f[t] \in Nat
    PROVE  Sum(f, S \ {s}) = Sum(f, S) - f[s]
  <1>1. IsFiniteSet(S \ {s}) /\ (S \ {s}) \cup {s} = S
    BY FS_RemoveElement
  <1>2. Sum(f, (S \ {s}) \cup {s}) = Sum(f, S \ {s}) + f[s]
    BY <1>1, SumAdd
  <1>3. Sum(f, S) = Sum(f, S \ {s}) + f[s]
    BY <1>1, <1>2, Zenon
  <1>4. Sum(f, S \ {s}) \in Nat
    BY <1>1, SumType
  <1> QED
    BY <1>3, <1>4

\* A change of one amount changes the sum by as much.
LEMMA SumChange ==
    ASSUME NEW S, IsFiniteSet(S), NEW f, NEW g, NEW s \in S,
           \A t \in S : f[t] \in Nat, g[s] \in Nat,
           \A t \in S \ {s} : g[t] = f[t]
    PROVE  Sum(g, S) = Sum(f, S) - f[s] + g[s]
  <1>1. \A t \in S : g[t] \in Nat
    OBVIOUS
  <1>2. Sum(f, S \ {s}) = Sum(f, S) - f[s]
    BY SumRemove
  <1>3. Sum(g, S \ {s}) = Sum(g, S) - g[s]
    BY <1>1, SumRemove
  <1>4. Sum(g, S \ {s}) = Sum(f, S \ {s})
    BY SumEqual
  <1>5. Sum(f, S) \in Nat /\ Sum(g, S) \in Nat
    BY <1>1, SumType
  <1> QED
    BY <1>2, <1>3, <1>4, <1>5

\* One amount is at most the sum.
LEMMA SumBounds ==
    ASSUME NEW S, IsFiniteSet(S), NEW f, NEW s \in S, \A t \in S : f[t] \in Nat
    PROVE  f[s] <= Sum(f, S)
  <1>1. Sum(f, S \ {s}) = Sum(f, S) - f[s]
    BY SumRemove
  <1>2. Sum(f, S \ {s}) \in Nat
    BY SumType, FS_RemoveElement
  <1> QED
    BY <1>1, <1>2, SumType

\* Induction over the subsets of a finite set.
LEMMA Subsets ==
    ASSUME NEW S, IsFiniteSet(S), NEW G, {} \in G,
           \A T \in SUBSET S : \A s \in S \ T : T \in G => T \cup {s} \in G
    PROVE  \A T \in SUBSET S : T \in G
  <1> DEFINE n == Cardinality(S)
             Good == {k \in 0 .. n : \A T \in SUBSET S : Cardinality(T) = k => T \in G}
  <1>1. \A T \in SUBSET S : IsFiniteSet(T) /\ Cardinality(T) \in 0 .. n
    <2> TAKE T \in SUBSET S
    <2>1. IsFiniteSet(T) /\ Cardinality(T) <= n
      BY FS_Subset
    <2> QED
      BY <2>1, FS_CardinalityType
  <1>2. n \in Nat
    BY FS_CardinalityType
  <1>3. 0 \in Good
    <2>1. \A T \in SUBSET S : Cardinality(T) = 0 => T = {}
      BY <1>1, FS_EmptySet
    <2> QED
      BY <1>2, <2>1
  <1>4. ASSUME NEW k \in 1 .. n, k - 1 \in Good
        PROVE  k \in Good
    <2> SUFFICES ASSUME NEW T \in SUBSET S, Cardinality(T) = k
                 PROVE  T \in G
      BY <1>2
    <2>1. T # {}
      <3>1. Cardinality({}) = 0 /\ k # 0
        BY <1>2, FS_EmptySet
      <3> QED
        BY <3>1
    <2>2. PICK s : s \in T
      BY <2>1
    <2>3. Cardinality(T \ {s}) = k - 1
      BY <1>1, <2>2, FS_RemoveElement
    <2>4. T \ {s} \in SUBSET S /\ s \in S \ (T \ {s}) /\ (T \ {s}) \cup {s} = T
      BY <2>2
    <2>5. T \ {s} \in G
      BY <1>4, <2>3, <2>4
    <2>6. (T \ {s}) \cup {s} \in G
      BY <2>4, <2>5
    <2> QED
      BY <2>4, <2>6
  <1> HIDE DEF Good
  <1>5. \A k \in 0 .. n : k \in Good
    BY <1>2, <1>3, <1>4, UpTo
  <1> QED
    BY <1>1, <1>5 DEF Good

\* A sum of sums.
LEMMA SumPlus ==
    ASSUME NEW S, IsFiniteSet(S), NEW f, NEW g, NEW h,
           \A s \in S : f[s] \in Nat /\ g[s] \in Nat /\ h[s] = f[s] + g[s]
    PROVE  Sum(h, S) = Sum(f, S) + Sum(g, S)
  <1> DEFINE G == {T \in SUBSET S : Sum(h, T) = Sum(f, T) + Sum(g, T)}
  <1>1. {} \in G
    BY SumEmpty
  <1>2. ASSUME NEW T \in SUBSET S, NEW s \in S \ T, T \in G
        PROVE  T \cup {s} \in G
    <2>1. IsFiniteSet(T)
      BY FS_Subset
    <2>2. \A t \in T \cup {s} : f[t] \in Nat /\ g[t] \in Nat /\ h[t] \in Nat
      OBVIOUS
    <2>3. /\ Sum(f, T \cup {s}) = Sum(f, T) + f[s]
          /\ Sum(g, T \cup {s}) = Sum(g, T) + g[s]
          /\ Sum(h, T \cup {s}) = Sum(h, T) + h[s]
      BY <2>1, <2>2, SumAdd
    <2>4. Sum(f, T) \in Nat /\ Sum(g, T) \in Nat
      BY <2>1, <2>2, SumType
    <2>5. Sum(h, T) = Sum(f, T) + Sum(g, T) /\ h[s] = f[s] + g[s] /\ f[s] \in Nat /\ g[s] \in Nat
      BY <1>2
    <2>6. Sum(h, T \cup {s}) = Sum(f, T \cup {s}) + Sum(g, T \cup {s})
      BY <2>3, <2>4, <2>5
    <2> QED
      BY <2>6
  <1> HIDE DEF G
  <1>3. S \in G
    BY <1>1, <1>2, Subsets
  <1> QED
    BY <1>3 DEF G

\* Sets without a common element have no more elements together than the set
\* they are taken from.
LEMMA SumDisjoint ==
    ASSUME NEW S, IsFiniteSet(S), NEW U, IsFiniteSet(U), NEW M \in [S -> SUBSET U],
           \A s, t \in S : s # t => M[s] \cap M[t] = {},
           NEW f, \A s \in S : f[s] = Cardinality(M[s])
    PROVE  Sum(f, S) <= Cardinality(U)
  <1> DEFINE All(T) == UNION {M[t] : t \in T}
             G == {T \in SUBSET S : Sum(f, T) = Cardinality(All(T))}
  <1>1. \A T \in SUBSET S : All(T) \subseteq U
    OBVIOUS
  <1>2. \A T \in SUBSET S : IsFiniteSet(All(T)) /\ Cardinality(All(T)) \in Nat
    BY <1>1, FS_Subset, FS_CardinalityType
  <1>3. \A s \in S : IsFiniteSet(M[s]) /\ f[s] \in Nat
    BY FS_Subset, FS_CardinalityType
  <1>4. {} \in G
    <2>1. All({}) = {}
      OBVIOUS
    <2>2. Cardinality(All({})) = 0 /\ Sum(f, {}) = 0
      BY <2>1, SumEmpty, FS_EmptySet
    <2> QED
      BY <2>2
  <1>5. ASSUME NEW T \in SUBSET S, NEW s \in S \ T, T \in G
        PROVE  T \cup {s} \in G
    <2>1. All(T \cup {s}) = All(T) \cup M[s] /\ All(T) \cap M[s] = {}
      OBVIOUS
    <2>2. IsFiniteSet(T) /\ \A t \in T \cup {s} : f[t] \in Nat
      BY <1>3, FS_Subset
    <2>3. Sum(f, T \cup {s}) = Sum(f, T) + f[s]
      BY <2>2, SumAdd
    <2> DEFINE a == All(T)
               m == M[s]
    <2>4. /\ IsFiniteSet(a) /\ IsFiniteSet(m) /\ a \cap m = {} /\ All(T \cup {s}) = a \cup m
          /\ Cardinality(a) \in Nat /\ Cardinality(m) \in Nat
          /\ Sum(f, T) = Cardinality(a) /\ f[s] = Cardinality(m)
      BY <1>2, <1>3, <1>5, <2>1
    <2> HIDE DEF a, m, All
    <2>5. Cardinality(a \cup m) = Cardinality(a) + Cardinality(m) - Cardinality({})
      BY <2>4, FS_Union
    <2>6. Cardinality(a \cup m) = Cardinality(a) + Cardinality(m)
      BY <2>4, <2>5, FS_EmptySet
    <2>7. Sum(f, T \cup {s}) = Cardinality(All(T \cup {s}))
      BY <2>3, <2>4, <2>6
    <2> QED
      BY <2>7
  <1>6. S \in G
    <2> HIDE DEF G
    <2> QED
      BY <1>4, <1>5, Subsets
  <1>7. Cardinality(All(S)) <= Cardinality(U)
    BY <1>1, FS_Subset
  <1> QED
    BY <1>6, <1>7
=============================================================================
