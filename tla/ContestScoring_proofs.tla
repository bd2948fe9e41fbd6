------------------------- MODULE ContestScoring_proofs -------------------------
(***************************************************************************)
(* Proofs about ContestScoring, for any contest, results, configuration of *)
(* the formats, number of threads and of submissions.  The first part is   *)
(* about sums: what adding up in some order gives does not depend on it.   *)
(***************************************************************************)
EXTENDS ContestScoring, FiniteSetTheorems, FunctionTheorems, SequenceTheorems,
        WellFoundedInduction, TLAPS

-----------------------------------------------------------------------------
(* Sums.                                                                   *)

\* A set of numbers has a least one.
LEMMA LeastOf ==
  ASSUME NEW T \in SUBSET Nat, T # {}
  PROVE  \E x \in T : \A y \in T : x <= y
<1>1. PICK x \in T : \A y \in T : <<y, x>> \notin OpToRel(<, Nat)
  BY NatLessThanWellFounded, WFMin
<1>2. \A y \in T : ~(y < x)
  BY <1>1 DEF OpToRel
<1>3. QED
  BY <1>2

\* The element a fold takes out of a set next, and the sets that are left.
Some(s) == CHOOSE x \in s : TRUE
Rest(s) == s \ {Some(s)}
Next1(it, f, s) == IF s = {} THEN 0 ELSE f[Some(s)] + it[Rest(s)]

\* it is what a fold has added up, for the subsets of S: for all of them, and for
\* those with k elements at most.
Adds(it, f, S) == it = [s \in SUBSET S |-> Next1(it, f, s)]
AddsUpTo(it, f, S, k) ==
  \A s \in SUBSET S : Cardinality(s) <= k => it[s] = Next1(it, f, s)

\* One element less.
LEMMA RestOf ==
  ASSUME NEW s, IsFiniteSet(s), s # {}
  PROVE  /\ Some(s) \in s /\ Rest(s) \subseteq s /\ IsFiniteSet(Rest(s))
         /\ Cardinality(s) \in Nat /\ Cardinality(s) > 0
         /\ Cardinality(Rest(s)) = Cardinality(s) - 1
<1>1. Some(s) \in s
  BY DEF Some
<1>2. Cardinality(s) \in Nat /\ Cardinality(s) # 0
  BY FS_CardinalityType, FS_EmptySet
<1>3. IsFiniteSet(Rest(s)) /\ Cardinality(Rest(s)) = Cardinality(s) - 1
  BY <1>1, FS_RemoveElement DEF Rest
<1>4. QED
  BY <1>1, <1>2, <1>3 DEF Rest

\* One more element can be added up.
LEMMA AddsOneMore ==
  ASSUME NEW f, NEW S, IsFiniteSet(S), NEW k \in Nat, NEW it, AddsUpTo(it, f, S, k),
         NEW v, v = [s \in SUBSET S |-> Next1(it, f, s)]
  PROVE  /\ \A s \in SUBSET S : Cardinality(s) <= k => v[s] = it[s]
         /\ AddsUpTo(v, f, S, k + 1)
<1>1. \A s \in SUBSET S : Cardinality(s) <= k => v[s] = it[s]
  BY DEF AddsUpTo
<1>2. ASSUME NEW s \in SUBSET S, Cardinality(s) <= k + 1
      PROVE  v[s] = Next1(v, f, s)
  <2>1. v[s] = Next1(it, f, s)
    OBVIOUS
  <2>2. CASE s = {}
    BY <2>1, <2>2 DEF Next1
  <2>3. CASE s # {}
    <3>1. IsFiniteSet(s)
      BY FS_Subset
    <3>2. Rest(s) \in SUBSET S /\ Cardinality(Rest(s)) <= k
      BY <1>2, <2>3, <3>1, RestOf
    <3>3. v[Rest(s)] = it[Rest(s)]
      BY <1>1, <3>2
    <3>4. QED
      BY <2>1, <3>3 DEF Next1
  <2>4. QED
    BY <2>2, <2>3
<1>3. QED
  BY <1>1, <1>2 DEF AddsUpTo

\* The fold exists.
LEMMA AddsExists ==
  ASSUME NEW f, NEW S, IsFiniteSet(S)
  PROVE  \E it : Adds(it, f, S)
<1> DEFINE Bad == {k \in Nat : ~ \E it : AddsUpTo(it, f, S, k)}
<1>1. Bad = {}
  <2>1. SUFFICES ASSUME Bad # {} PROVE FALSE
    OBVIOUS
  <2>2. PICK k \in Bad : \A j \in Bad : k <= j
    BY <2>1, LeastOf
  <2>3. CASE k = 0
    <3> DEFINE it == [s \in SUBSET S |-> 0]
    <3>1. ASSUME NEW s \in SUBSET S, Cardinality(s) <= 0
          PROVE  it[s] = Next1(it, f, s)
      <4>1. IsFiniteSet(s) /\ Cardinality(s) \in Nat
        BY FS_Subset, FS_CardinalityType
      <4>2. s = {}
        BY <3>1, <4>1, FS_EmptySet
      <4>3. QED
        BY <4>2 DEF Next1
    <3>2. AddsUpTo(it, f, S, k)
      BY <2>3, <3>1 DEF AddsUpTo
    <3>3. QED
      BY <2>2, <3>2
  <2>4. CASE k # 0
    <3> DEFINE j == k - 1
    <3>1. j \in Nat /\ k = j + 1 /\ ~(k <= j)
      BY <2>2, <2>4
    <3> HIDE DEF j
    <3>2. PICK it : AddsUpTo(it, f, S, j)
      BY <2>2, <3>1
    <3>3. PICK v : v = [s \in SUBSET S |-> Next1(it, f, s)]
      OBVIOUS
    <3>4. AddsUpTo(v, f, S, j + 1)
      BY <3>1, <3>2, <3>3, AddsOneMore
    <3>5. QED
      BY <2>2, <3>1, <3>4
  <2>5. QED
    BY <2>3, <2>4
<1>2. Cardinality(S) \in Nat
  BY FS_CardinalityType
<1>3. PICK it : AddsUpTo(it, f, S, Cardinality(S))
  BY <1>1, <1>2
<1>4. PICK v : v = [s \in SUBSET S |-> Next1(it, f, s)]
  OBVIOUS
<1>5. \A s \in SUBSET S : Cardinality(s) <= Cardinality(S)
  BY FS_Subset
<1>6. \A s \in SUBSET S : v[s] = it[s]
  <2>1. \A s \in SUBSET S : Cardinality(s) <= Cardinality(S) => v[s] = it[s]
    <3> DEFINE k == Cardinality(S)
    <3>1. k \in Nat /\ AddsUpTo(it, f, S, k)
      BY <1>2, <1>3
    <3> HIDE DEF k
    <3>2. \A s \in SUBSET S : Cardinality(s) <= k => v[s] = it[s]
      BY <1>4, <3>1 DEF AddsUpTo
    <3>3. QED
      BY <3>2 DEF k
  <2>2. QED
    BY <1>5, <2>1, Zenon
<1>7. ASSUME NEW s \in SUBSET S
      PROVE  Next1(it, f, s) = Next1(v, f, s)
  BY <1>6 DEF Next1, Rest
<1>8. Adds(v, f, S)
  BY <1>4, <1>7, Zenon DEF Adds
<1>9. QED
  BY <1>8

\* What has been added up does not depend on the set a fold is made for.
LEMMA AddsAgree ==
  ASSUME NEW f, NEW S, IsFiniteSet(S), NEW T \in SUBSET S,
         NEW it, Adds(it, f, S), NEW jt, Adds(jt, f, T)
  PROVE  it[T] = jt[T]
<1> DEFINE Bad == {k \in Nat : \E s \in SUBSET T : Cardinality(s) = k /\ it[s] # jt[s]}
<1>1. \A s \in SUBSET T : IsFiniteSet(s) /\ Cardinality(s) \in Nat /\ s \in SUBSET S
  BY FS_Subset, FS_CardinalityType
<1>2. \A s \in SUBSET T : it[s] = Next1(it, f, s) /\ jt[s] = Next1(jt, f, s)
  <2>1. ASSUME NEW s \in SUBSET T
        PROVE  it[s] = Next1(it, f, s)
    BY <1>1, Zenon DEF Adds
  <2>2. ASSUME NEW s \in SUBSET T
        PROVE  jt[s] = Next1(jt, f, s)
    BY Zenon DEF Adds
  <2>3. QED
    BY <2>1, <2>2
<1>3. ASSUME Bad # {} PROVE FALSE
  <2>1. PICK k \in Bad : \A j \in Bad : k <= j
    BY <1>3, LeastOf
  <2>2. PICK s \in SUBSET T : Cardinality(s) = k /\ it[s] # jt[s]
    BY <2>1
  <2>3. CASE s = {}
    BY <1>2, <2>2, <2>3 DEF Next1
  <2>4. CASE s # {}
    <3>1. Rest(s) \in SUBSET T /\ Cardinality(Rest(s)) = k - 1
      BY <1>1, <2>2, <2>4, RestOf
    <3>2. k - 1 \in Nat /\ k - 1 \notin Bad
      BY <1>1, <2>1, <3>1
    <3>3. it[Rest(s)] = jt[Rest(s)]
      BY <3>1, <3>2
    <3>4. QED
      BY <1>2, <2>2, <3>3 DEF Next1
  <2>5. QED
    BY <2>3, <2>4
<1>4. T \in SUBSET T /\ Cardinality(T) \in Nat
  BY <1>1
<1>5. QED
  BY <1>3, <1>4

\* The library's sum is such a fold.
LEMMA SumIs ==
  ASSUME NEW f, NEW S, IsFiniteSet(S)
  PROVE  \E it : Adds(it, f, S) /\ SumFunctionOnSet(f, S) = it[S]
<1>1. SumFunctionOnSet(f, S) = (CHOOSE it : Adds(it, f, S))[S]
  BY DEF SumFunctionOnSet, FoldFunctionOnSet, MapThenFoldSet, Adds, Next1, Some, Rest
<1>2. Adds(CHOOSE it : Adds(it, f, S), f, S)
  BY AddsExists, Zenon
<1>3. QED
  BY <1>1, <1>2

\* The sum of nothing, and of a set from which the fold takes an element.
LEMMA SumStep ==
  ASSUME NEW f, NEW S, IsFiniteSet(S)
  PROVE  SumFunctionOnSet(f, S) =
           IF S = {} THEN 0 ELSE f[Some(S)] + SumFunctionOnSet(f, Rest(S))
<1>1. PICK it : Adds(it, f, S) /\ SumFunctionOnSet(f, S) = it[S]
  BY SumIs
<1>2. it[S] = Next1(it, f, S)
  <2>1. S \in SUBSET S
    OBVIOUS
  <2>2. QED
    BY <1>1, <2>1, Zenon DEF Adds
<1>3. CASE S = {}
  BY <1>1, <1>2, <1>3 DEF Next1
<1>4. CASE S # {}
  <2>1. Rest(S) \in SUBSET S /\ IsFiniteSet(Rest(S))
    BY <1>4, RestOf
  <2>2. PICK jt : Adds(jt, f, Rest(S)) /\ SumFunctionOnSet(f, Rest(S)) = jt[Rest(S)]
    BY <2>1, SumIs
  <2>3. it[Rest(S)] = jt[Rest(S)]
    BY <1>1, <2>1, <2>2, AddsAgree
  <2>4. QED
    BY <1>1, <1>2, <1>4, <2>2, <2>3 DEF Next1
<1>5. QED
  BY <1>3, <1>4

\* A sum of integers is one, and does not depend on the order.
LEMMA SumTakes ==
  ASSUME NEW f, NEW S, IsFiniteSet(S), \A x \in S : f[x] \in Int
  PROVE  /\ SumFunctionOnSet(f, S) \in Int
         /\ \A x \in S : SumFunctionOnSet(f, S) = f[x] + SumFunctionOnSet(f, S \ {x})
<1> DEFINE Sum(s) == SumFunctionOnSet(f, s)
           Good(s) == Sum(s) \in Int /\ \A x \in s : Sum(s) = f[x] + Sum(s \ {x})
           Bad == {k \in Nat : \E s \in SUBSET S : Cardinality(s) = k /\ ~Good(s)}
<1>1. \A s \in SUBSET S : IsFiniteSet(s) /\ Cardinality(s) \in Nat
  BY FS_Subset, FS_CardinalityType
<1>2. \A s \in SUBSET S : Sum(s) = IF s = {} THEN 0 ELSE f[Some(s)] + Sum(Rest(s))
  BY <1>1, SumStep
<1>3. ASSUME Bad # {} PROVE FALSE
  <2>1. PICK k \in Bad : \A j \in Bad : k <= j
    BY <1>3, LeastOf
  <2>2. PICK s \in SUBSET S : Cardinality(s) = k /\ ~Good(s)
    BY <2>1
  <2>3. ASSUME NEW t \in SUBSET S, Cardinality(t) = k - 1, k # 0
        PROVE  Good(t)
    <3>1. k - 1 \in Nat /\ k - 1 \notin Bad
      BY <2>1, <2>3
    <3> HIDE DEF Good
    <3>2. QED
      BY <2>3, <3>1
  <2> HIDE DEF Bad
  <2>4. CASE s = {}
    <3>1. Sum(s) = 0
      BY <1>2, <2>4
    <3>2. QED
      BY <2>2, <2>4, <3>1
  <2>5. CASE s # {}
    <3> DEFINE c == Some(s)
    <3>1. c \in s /\ f[c] \in Int /\ Rest(s) = s \ {c} /\ Rest(s) \in SUBSET S
      BY <1>1, <2>5, RestOf DEF Rest
    <3>2. k # 0 /\ \A x \in s : Cardinality(s \ {x}) = k - 1
      BY <1>1, <2>2, <2>5, FS_RemoveElement, FS_EmptySet
    <3>3. \A x \in s : Good(s \ {x})
      <4> HIDE DEF Good
      <4>1. QED
        BY <2>3, <3>2
    <3>4. Sum(s) = f[c] + Sum(s \ {c})
      BY <1>2, <2>5, <3>1
    <3>5. Sum(s) \in Int
      BY <3>1, <3>3, <3>4
    <3>6. ASSUME NEW x \in s
          PROVE  Sum(s) = f[x] + Sum(s \ {x})
      <4>1. CASE x = c
        BY <3>4, <4>1
      <4>2. CASE x # c
        <5> DEFINE r == (s \ {x}) \ {c}
        <5>1. x \in s \ {c} /\ c \in s \ {x} /\ (s \ {c}) \ {x} = r /\ f[x] \in Int
          BY <3>1, <4>2
        <5>2. Sum(s \ {c}) = f[x] + Sum(r)
          BY <3>1, <3>3, <5>1
        <5>3. Sum(s \ {x}) = f[c] + Sum(r)
          BY <3>3, <5>1
        <5>4. Sum(r) \in Int
          <6>1. c # x /\ s \ {x} \in SUBSET S
            BY <4>2
          <6>2. r \in SUBSET S /\ Cardinality(r) = k - 2 /\ k - 2 \in Nat
            <7>1. IsFiniteSet(s \ {x}) /\ Cardinality(s \ {x}) = k - 1
              BY <1>1, <3>2
            <7>2. Cardinality(r) = k - 1 - 1
              <8> DEFINE q == s \ {x}
              <8>1. IsFiniteSet(q) /\ c \in q /\ r = q \ {c}
                BY <5>1, <7>1
              <8> HIDE DEF q, c, r
              <8>2. Cardinality(r) = Cardinality(q) - 1
                BY <8>1, FS_RemoveElement
              <8>3. QED
                BY <7>1, <8>2 DEF q
            <7>3. r \in SUBSET S /\ Cardinality(r) \in Nat
              BY <1>1
            <7> HIDE DEF r
            <7>4. QED
              BY <2>1, <7>2, <7>3 DEF Bad
          <6>3. k - 2 \notin Bad
            BY <2>1, <6>2 DEF Bad
          <6>4. Good(r)
            <7> HIDE DEF Good, r
            <7>1. QED
              BY <6>2, <6>3 DEF Bad
          <6>5. QED
            BY <6>4
        <5> HIDE DEF r, Sum, c
        <5>5. QED
          BY <3>1, <3>4, <5>1, <5>2, <5>3, <5>4
      <4>3. QED
        BY <4>1, <4>2
    <3>7. QED
      BY <2>2, <3>5, <3>6
  <2>6. QED
    BY <2>4, <2>5
<1>4. Good(S)
  <2>1. S \in SUBSET S /\ Cardinality(S) \in Nat
    BY <1>1
  <2> HIDE DEF Good
  <2>2. QED
    BY <1>3, <2>1
<1>5. QED
  BY <1>4

\* A sum of natural numbers is one.
LEMMA SumNat ==
  ASSUME NEW f, NEW S, IsFiniteSet(S), \A x \in S : f[x] \in Nat
  PROVE  SumFunctionOnSet(f, S) \in Nat
<1> DEFINE Sum(s) == SumFunctionOnSet(f, s)
           Bad == {k \in Nat : \E s \in SUBSET S : Cardinality(s) = k /\ Sum(s) \notin Nat}
<1>1. \A s \in SUBSET S : IsFiniteSet(s) /\ Cardinality(s) \in Nat
  BY FS_Subset, FS_CardinalityType
<1>2. \A s \in SUBSET S : Sum(s) = IF s = {} THEN 0 ELSE f[Some(s)] + Sum(Rest(s))
  BY <1>1, SumStep
<1>3. ASSUME Bad # {} PROVE FALSE
  <2>1. PICK k \in Bad : \A j \in Bad : k <= j
    BY <1>3, LeastOf
  <2>2. PICK s \in SUBSET S : Cardinality(s) = k /\ Sum(s) \notin Nat
    BY <2>1
  <2>3. CASE s = {}
    <3>1. Sum(s) = 0
      BY <1>2, <2>3
    <3>2. QED
      BY <2>2, <3>1
  <2>4. CASE s # {}
    <3>1. Rest(s) \in SUBSET S /\ Some(s) \in S /\ Cardinality(Rest(s)) = k - 1
      BY <1>1, <2>2, <2>4, RestOf
    <3>2. k - 1 \in Nat /\ k - 1 \notin Bad
      BY <1>1, <2>1, <3>1
    <3>3. Sum(Rest(s)) \in Nat
      BY <3>1, <3>2
    <3> HIDE DEF Sum
    <3>4. QED
      BY <1>2, <2>2, <2>4, <3>1, <3>3
  <2>5. QED
    BY <2>3, <2>4
<1>4. S \in SUBSET S /\ Cardinality(S) \in Nat
  BY <1>1
<1>5. QED
  BY <1>3, <1>4

\* A sum is at most another that has for each positive number one at least as large.
LEMMA SumLeq ==
  ASSUME NEW f, NEW g, NEW S, NEW T, IsFiniteSet(S), IsFiniteSet(T),
         \A x \in S : f[x] \in Int, \A x \in T : g[x] \in Nat,
         \A x \in S : f[x] <= 0 \/ (x \in T /\ f[x] <= g[x])
  PROVE  /\ SumFunctionOnSet(f, S) \in Int /\ SumFunctionOnSet(g, T) \in Nat
         /\ SumFunctionOnSet(f, S) <= SumFunctionOnSet(g, T)
<1> DEFINE F(s) == SumFunctionOnSet(f, s)
           G(t) == SumFunctionOnSet(g, t)
           Above(s, t) == \A x \in s : f[x] <= 0 \/ (x \in t /\ f[x] <= g[x])
           Bad == {k \in Nat : \E s \in SUBSET S, t \in SUBSET T :
                                 Cardinality(s) = k /\ Above(s, t) /\ ~(F(s) <= G(t))}
<1>1. /\ \A s \in SUBSET S : IsFiniteSet(s) /\ Cardinality(s) \in Nat
      /\ \A t \in SUBSET T : IsFiniteSet(t)
  BY FS_Subset, FS_CardinalityType
<1>2. ASSUME NEW s \in SUBSET S
      PROVE  F(s) \in Int /\ \A x \in s : F(s) = f[x] + F(s \ {x})
  <2>1. IsFiniteSet(s) /\ \A x \in s : f[x] \in Int
    BY <1>1
  <2>2. QED
    BY <2>1, SumTakes
<1>3. ASSUME NEW t \in SUBSET T
      PROVE  G(t) \in Nat /\ \A x \in t : G(t) = g[x] + G(t \ {x})
  <2>1. IsFiniteSet(t) /\ \A x \in t : g[x] \in Nat
    BY <1>1
  <2>2. \A x \in t : g[x] \in Int
    BY <2>1
  <2>3. QED
    BY <2>1, <2>2, SumTakes, SumNat
<1>4. ASSUME Bad # {} PROVE FALSE
  <2>1. PICK k \in Bad : \A j \in Bad : k <= j
    BY <1>4, LeastOf
  <2>2. PICK s \in SUBSET S, t \in SUBSET T :
          Cardinality(s) = k /\ Above(s, t) /\ ~(F(s) <= G(t))
    BY <2>1
  <2>3. CASE s = {}
    <3>1. F(s) = 0
      BY <2>3, FS_EmptySet, SumStep
    <3> HIDE DEF F, G
    <3>2. QED
      BY <1>3, <2>2, <3>1
  <2>4. CASE s # {}
    <3>1. PICK x \in s : TRUE
      BY <2>4
    <3>2. /\ s \ {x} \in SUBSET S /\ t \ {x} \in SUBSET T /\ f[x] \in Int
          /\ Cardinality(s \ {x}) = k - 1 /\ Above(s \ {x}, t)
      BY <1>1, <2>2, FS_RemoveElement
    <3>3. k - 1 \in Nat /\ k - 1 \notin Bad
      BY <1>1, <2>1, <3>2
    <3>4. F(s) = f[x] + F(s \ {x}) /\ F(s \ {x}) \in Int
      BY <1>2, <3>2
    <3>5. CASE f[x] <= 0
      <4>1. F(s \ {x}) <= G(t)
        BY <3>2, <3>3
      <4> HIDE DEF F, G
      <4>2. QED
        BY <1>3, <2>2, <3>2, <3>4, <3>5, <4>1
    <3>6. CASE ~(f[x] <= 0)
      <4>1. x \in t /\ f[x] <= g[x] /\ g[x] \in Nat
        BY <2>2, <3>6
      <4>2. Above(s \ {x}, t \ {x})
        BY <2>2
      <4>3. F(s \ {x}) <= G(t \ {x})
        <5> HIDE DEF F, G, Above
        <5>1. QED
          BY <3>2, <3>3, <4>2
      <4>4. G(t) = g[x] + G(t \ {x}) /\ G(t \ {x}) \in Nat
        BY <1>3, <3>2, <4>1
      <4> HIDE DEF F, G
      <4>5. QED
        BY <2>2, <3>2, <3>4, <4>1, <4>3, <4>4
    <3>7. QED
      BY <3>5, <3>6
  <2>5. QED
    BY <2>3, <2>4
<1>5. F(S) <= G(T)
  <2>1. S \in SUBSET S /\ T \in SUBSET T /\ Cardinality(S) \in Nat /\ Above(S, T)
    BY <1>1
  <2> HIDE DEF F, G, Above
  <2>2. QED
    BY <1>4, <2>1
<1>6. QED
  BY <1>2, <1>3, <1>5

\* A sum of ones and zeros is at most their number.
LEMMA SumOnes ==
  ASSUME NEW f, NEW S, IsFiniteSet(S), \A x \in S : f[x] \in {0, 1}
  PROVE  SumFunctionOnSet(f, S) \in Nat /\ SumFunctionOnSet(f, S) <= Cardinality(S)
<1> DEFINE Sum(s) == SumFunctionOnSet(f, s)
           Bad == {k \in Nat : \E s \in SUBSET S : Cardinality(s) = k /\ ~(Sum(s) <= k)}
<1>1. \A s \in SUBSET S : IsFiniteSet(s) /\ Cardinality(s) \in Nat
  BY FS_Subset, FS_CardinalityType
<1>2. \A s \in SUBSET S : Sum(s) = IF s = {} THEN 0 ELSE f[Some(s)] + Sum(Rest(s))
  BY <1>1, SumStep
<1>3. \A s \in SUBSET S : Sum(s) \in Nat
  <2>1. ASSUME NEW s \in SUBSET S
        PROVE  Sum(s) \in Nat
    <3>1. IsFiniteSet(s) /\ \A x \in s : f[x] \in Nat
      BY <1>1
    <3>2. QED
      BY <3>1, SumNat
  <2>2. QED
    BY <2>1
<1>4. ASSUME Bad # {} PROVE FALSE
  <2>1. PICK k \in Bad : \A j \in Bad : k <= j
    BY <1>4, LeastOf
  <2>2. PICK s \in SUBSET S : Cardinality(s) = k /\ ~(Sum(s) <= k)
    BY <2>1
  <2>3. CASE s = {}
    BY <1>2, <2>1, <2>2, <2>3
  <2>4. CASE s # {}
    <3>1. Rest(s) \in SUBSET S /\ Some(s) \in S /\ Cardinality(Rest(s)) = k - 1
      BY <1>1, <2>2, <2>4, RestOf
    <3>2. k - 1 \in Nat /\ k - 1 \notin Bad
      BY <1>1, <2>1, <3>1
    <3>3. Sum(Rest(s)) \in Nat /\ Sum(Rest(s)) <= k - 1
      BY <1>3, <3>1, <3>2
    <3> HIDE DEF Sum
    <3>4. QED
      BY <1>2, <2>2, <2>4, <3>1, <3>2, <3>3
  <2>5. QED
    BY <2>3, <2>4
<1>5. S \in SUBSET S /\ Cardinality(S) \in Nat
  BY <1>1
<1>6. QED
  BY <1>3, <1>4, <1>5

\* The least of a set of numbers, and the greatest of a finite one.
LEMMA MinIs ==
  ASSUME NEW S \in SUBSET Nat, S # {}
  PROVE  Min(S) \in S /\ \A x \in S : Min(S) <= x
<1>1. \E x \in S : \A y \in S : x <= y
  BY LeastOf
<1>2. QED
  BY <1>1 DEF Min

\* The greatest number of a finite set.
LEMMA MaxIs ==
  ASSUME NEW S \in SUBSET Nat, IsFiniteSet(S), S # {}
  PROVE  Max(S) \in S /\ \A x \in S : x <= Max(S)
<1> DEFINE Has(s) == \E x \in s : \A y \in s : y <= x
           Bad == {k \in Nat : \E s \in SUBSET S : s # {} /\ Cardinality(s) = k /\ ~Has(s)}
<1>1. \A s \in SUBSET S : IsFiniteSet(s) /\ Cardinality(s) \in Nat
  BY FS_Subset, FS_CardinalityType
<1>2. ASSUME Bad # {} PROVE FALSE
  <2>1. PICK k \in Bad : \A j \in Bad : k <= j
    BY <1>2, LeastOf
  <2>2. PICK s \in SUBSET S : s # {} /\ Cardinality(s) = k /\ ~Has(s)
    BY <2>1
  <2>3. PICK z \in s : TRUE
    BY <2>2
  <2>4. s \ {z} \in SUBSET S /\ Cardinality(s \ {z}) = k - 1 /\ k # 0
    BY <1>1, <2>2, FS_RemoveElement, FS_EmptySet
  <2>5. k - 1 \in Nat /\ k - 1 \notin Bad
    BY <1>1, <2>1, <2>4
  <2>6. CASE s \ {z} = {}
    <3>1. \A y \in s : y <= z
      BY <2>6
    <3>2. QED
      BY <2>2, <3>1
  <2>7. CASE s \ {z} # {}
    <3>1. PICK x \in s \ {z} : \A y \in s \ {z} : y <= x
      BY <2>4, <2>5, <2>7
    <3>2. x \in Nat /\ z \in Nat /\ \A y \in s : y \in Nat
      OBVIOUS
    <3>3. CASE x <= z
      <4>1. \A y \in s : y <= z
        BY <3>1, <3>2, <3>3
      <4>2. QED
        BY <2>2, <4>1
    <3>4. CASE z <= x
      <4>1. \A y \in s : y <= x
        BY <3>1, <3>2, <3>4
      <4>2. QED
        BY <2>2, <4>1
    <3>5. QED
      BY <3>2, <3>3, <3>4
  <2>8. QED
    BY <2>6, <2>7
<1>3. Has(S)
  <2>1. S \in SUBSET S /\ Cardinality(S) \in Nat
    BY <1>1
  <2> HIDE DEF Has
  <2>2. QED
    BY <1>2, <2>1
<1>4. QED
  BY <1>3 DEF Max

\* The values of a function on a finite set.
LEMMA ImageFinite ==
  ASSUME NEW f, NEW S, IsFiniteSet(S)
  PROVE  IsFiniteSet({f[x] : x \in S})
<1> DEFINE T == {f[x] : x \in S}
           h == [x \in S |-> f[x]]
<1>1. h \in Surjection(S, T)
  BY DEF Surjection
<1>2. QED
  BY <1>1, FS_Surjection

-----------------------------------------------------------------------------
(* Points of a submission.                                                 *)

\* The cases, and the batches they are in.
LEMMA CasesAre ==
  /\ IsFiniteSet(Unbatched) /\ IsFiniteSet(Batches) /\ IsFiniteSet(Groups)
  /\ CaseTotal \in Nat /\ CaseTotal > 0
  /\ \A tests \in Outcomes, g \in Groups :
       /\ InBatch(tests, g) # {} /\ InBatch(tests, g) \subseteq {0, 1}
       /\ Min(InBatch(tests, g)) \in {0, 1}
  /\ Batches \subseteq Groups /\ Unbatched \subseteq Cases
<1>1. IsFiniteSet(Cases) /\ Cases # {} /\ Outcomes \subseteq [Cases -> {0, 1}]
  BY ScoringAssumption
<1>2. IsFiniteSet(Groups)
  BY <1>1, ImageFinite DEF Groups
<1>3. Batches = Groups \ {NoBatch} /\ Unbatched \subseteq Cases
  BY DEF Batches, Groups, Unbatched
<1>4. IsFiniteSet(Batches) /\ IsFiniteSet(Unbatched)
  <2>1. Batches \in SUBSET Groups /\ Unbatched \in SUBSET Cases
    BY <1>3
  <2>2. QED
    BY <1>1, <1>2, <2>1, FS_Subset
<1>5. CaseTotal \in Nat /\ CaseTotal > 0
  <2>1. Unbatched # {} \/ Batches # {}
    <3>1. PICK c \in Cases : TRUE
      BY <1>1
    <3>2. c \in Unbatched \/ BatchOf[c] \in Batches
      BY DEF Unbatched, Batches
    <3>3. QED
      BY <3>2
  <2>2. /\ Cardinality(Unbatched) \in Nat /\ (Cardinality(Unbatched) = 0 <=> Unbatched = {})
        /\ Cardinality(Batches) \in Nat /\ (Cardinality(Batches) = 0 <=> Batches = {})
    BY <1>4, FS_CardinalityType, FS_EmptySet
  <2>3. QED
    BY <2>1, <2>2 DEF CaseTotal
<1>6. ASSUME NEW tests \in Outcomes, NEW g \in Groups
      PROVE  /\ InBatch(tests, g) # {} /\ InBatch(tests, g) \subseteq {0, 1}
             /\ Min(InBatch(tests, g)) \in {0, 1}
  <2>1. InBatch(tests, g) # {} /\ InBatch(tests, g) \subseteq {0, 1}
    <3>1. tests \in [Cases -> {0, 1}]
      BY <1>1
    <3>2. PICK c \in Cases : BatchOf[c] = g
      BY DEF Groups
    <3>3. tests[c] \in InBatch(tests, g)
      BY <3>2 DEF InBatch
    <3>4. QED
      BY <3>1, <3>3 DEF InBatch
  <2>2. InBatch(tests, g) \in SUBSET Nat
    BY <2>1
  <2>3. Min(InBatch(tests, g)) \in InBatch(tests, g)
    BY <2>1, <2>2, MinIs
  <2>4. QED
    BY <2>1, <2>3
<1>7. QED
  BY <1>2, <1>3, <1>4, <1>5, <1>6

\* The points of the cases are at most their number.
LEMMA CasePointsIs ==
  ASSUME NEW tests \in Outcomes
  PROVE  CasePoints(tests) \in Nat /\ CasePoints(tests) <= CaseTotal
<1> DEFINE w == [b \in Batches |-> Min(InBatch(tests, b))]
           a == SumFunctionOnSet(tests, Unbatched)
           z == SumFunctionOnSet(w, Batches)
<1>1. CasePoints(tests) = a + z
  BY DEF CasePoints, SumFunction
<1>2. \A c \in Unbatched : tests[c] \in {0, 1}
  BY ScoringAssumption, CasesAre
<1>3. \A b \in Batches : w[b] \in {0, 1}
  BY CasesAre
<1>4. a \in Nat /\ a <= Cardinality(Unbatched)
  BY <1>2, CasesAre, SumOnes
<1> HIDE DEF w
<1>5. z \in Nat /\ z <= Cardinality(Batches)
  BY <1>3, CasesAre, SumOnes
<1>6. Cardinality(Unbatched) \in Nat /\ Cardinality(Batches) \in Nat
  BY CasesAre, FS_CardinalityType
<1> HIDE DEF a, z
<1>7. QED
  BY <1>1, <1>4, <1>5, <1>6 DEF CaseTotal

\* Rounding: to no more than half above, and to no less than half below.
LEMMA RoundIs ==
  ASSUME NEW a \in Nat, NEW b \in Nat, b > 0, NEW i \in Nat
  PROVE  /\ Round(a, b) \in Nat
         /\ i <= Round(a, b) => 2 * (i * b) <= 2 * a + b
         /\ 2 * (i * b) < 2 * a + b => i <= Round(a, b)
<1> DEFINE n == 2 * a + b
           d == 2 * b
           q == n \div d
           r == Round(a, b)
<1>1. n \in Nat /\ d \in Nat /\ d > 0 /\ n > 0
  OBVIOUS
<1>2. r = IF q * d = n /\ <<a, b>> \notin TiesUp THEN q - 1 ELSE q
  BY DEF Round
<1>3. \A k \in Nat : k * d = 2 * (k * b)
  OBVIOUS
<1> HIDE DEF n, d, r
<1>4. q \in Nat /\ q * d <= n /\ n < (q + 1) * d
  BY <1>1
<1>5. ASSUME NEW k \in Nat
      PROVE  (k <= q => k * d <= n) /\ (k * d < n /\ q * d = n => k < q) /\ (k * d < n => k <= q)
  <2>1. ASSUME k <= q
        PROVE  k * d <= q * d
    BY <1>1, <1>4, <2>1
  <2>2. ASSUME ~(k <= q)
        PROVE  (q + 1) * d <= k * d
    <3>1. q + 1 <= k
      BY <1>4, <2>2
    <3>2. QED
      BY <1>1, <1>4, <3>1
  <2>3. ASSUME ~(k < q)
        PROVE  q * d <= k * d
    BY <1>1, <1>4, <2>3
  <2>4. k * d \in Nat /\ q * d \in Nat /\ (q + 1) * d \in Nat
    BY <1>1, <1>4
  <2>5. k <= q => k * d <= n
    BY <1>1, <1>4, <2>1, <2>4
  <2>6. k * d < n /\ q * d = n => k < q
    BY <1>1, <1>4, <2>3, <2>4
  <2>7. k * d < n => k <= q
    BY <1>1, <1>4, <2>2, <2>4
  <2>8. QED
    BY <2>5, <2>6, <2>7
<1>6. q * d = n => q > 0
  <2>1. q = 0 => q * d = 0
    BY <1>1
  <2>2. QED
    BY <1>1, <1>4, <2>1
<1> HIDE DEF q
<1>7. r \in Nat
  BY <1>2, <1>4, <1>6
<1>8. ASSUME NEW k \in Nat
      PROVE  (k <= r => k * d <= n) /\ (k * d < n => k <= r)
  BY <1>2, <1>4, <1>5
<1>9. QED
  BY <1>3, <1>7, <1>8 DEF n, r

\* A submission without cases is not one with a result.
LEMMA NoTestsAre ==
  /\ NoTests \notin Outcomes
  /\ Rescored(NoTests) = 0 /\ ContestPoints(NoTests) = 0
<1>1. PICK c \in Cases : TRUE
  BY ScoringAssumption
<1>2. \A tests \in Outcomes : tests[c] \in {0, 1}
  BY ScoringAssumption
<1>3. NoTests[c] = -1
  BY DEF NoTests
<1>4. NoTests \notin Outcomes
  BY <1>2, <1>3
<1>5. QED
  BY <1>4 DEF Rescored, ContestPoints

\* Points are natural numbers.
LEMMA PointsAre ==
  ASSUME NEW tests \in Outcomes
  PROVE  Points(tests) \in Nat /\ Rescored(tests) \in Nat /\ ContestPoints(tests) \in Nat
<1> DEFINE p == CasePoints(tests)
           t == CaseTotal
           a == Round(p * Worth, t)
           b == Round(p * Worth, t * 100)
           c == Round(p * ContestWorth, t)
<1>1. /\ p \in Nat /\ t \in Nat /\ t > 0 /\ Worth \in Nat /\ ContestWorth \in Nat
  BY CasePointsIs, CasesAre, ScoringAssumption
<1>2. /\ Points(tests) = AllOrNothing(a, Worth)
      /\ ContestPoints(tests) = AllOrNothing(c, ContestWorth)
  BY NoTestsAre DEF Points, ContestPoints
<1>3. Rescored(tests) = 100 * b \/ Rescored(tests) = 0
  BY DEF Rescored
<1> HIDE DEF p, t
<1>4. p * Worth \in Nat /\ p * ContestWorth \in Nat /\ t * 100 \in Nat /\ t * 100 > 0
  BY <1>1
<1>5. a \in Nat /\ b \in Nat /\ c \in Nat
  BY <1>1, <1>4, RoundIs
<1> HIDE DEF a, b, c
<1>6. QED
  BY <1>2, <1>3, <1>5 DEF AllOrNothing

\* What rounding makes of a share of w: all of it for all cases, less for fewer. The
\* share is rounded to u-ths.
LEMMA WholeShare ==
  ASSUME NEW p \in Nat, NEW t \in Nat, t > 0, p <= t, NEW w \in Nat, NEW u \in Nat, u > 0,
         2 * (u * w) > u * t
  PROVE  LET r == Round(p * (u * w), t * u)
         IN  r \in Nat /\ (p = t => r = w) /\ (p # t => r < w)
<1> DEFINE b == t * u
           v == u * w
           x == p * v
           y == t * v
           r == Round(x, b)
<1>1. b \in Nat /\ b > 0 /\ v \in Nat /\ x \in Nat /\ y \in Nat
  BY SMTT(30)
<1>2. /\ w * b = y /\ (w + 1) * b = y + b
  BY SMTT(30)
<1>3. (p = t => x = y) /\ (p # t => x + v <= y)
  <2> HIDE DEF v
  <2>1. ASSUME p # t
        PROVE  x + v <= y
    <3>1. p + 1 <= t
      BY <2>1
    <3>2. (p + 1) * v <= t * v
      BY <1>1, <3>1
    <3>3. QED
      BY <1>1, <3>2
  <2>2. QED
    BY <2>1
<1>4. 2 * v > b
  BY DEF v, b
<1>5. \A k \in Nat : /\ k <= r => 2 * (k * b) <= 2 * x + b
                     /\ 2 * (k * b) < 2 * x + b => k <= r
  <2> HIDE DEF b, x
  <2>1. ASSUME NEW k \in Nat
        PROVE  /\ k <= r => 2 * (k * b) <= 2 * x + b
               /\ 2 * (k * b) < 2 * x + b => k <= r
    BY <1>1, <2>1, RoundIs, Zenon
  <2>2. QED
    BY <2>1
<1>6. r \in Nat
  <2> HIDE DEF b, x
  <2>1. QED
    BY <1>1, RoundIs
<1> HIDE DEF r
<1>7. /\ w <= r => 2 * (w * b) <= 2 * x + b
      /\ 2 * (w * b) < 2 * x + b => w <= r
      /\ w + 1 <= r => 2 * ((w + 1) * b) <= 2 * x + b
  <2> DEFINE w1 == w + 1
  <2>1. w1 \in Nat
    OBVIOUS
  <2> HIDE DEF b, x, w1
  <2>2. w1 <= r => 2 * (w1 * b) <= 2 * x + b
    BY <1>5, <2>1
  <2>3. /\ w <= r => 2 * (w * b) <= 2 * x + b
        /\ 2 * (w * b) < 2 * x + b => w <= r
    BY <1>5
  <2>4. QED
    BY <2>2, <2>3 DEF w1
<1> HIDE DEF b, x, y, v
<1>8. /\ w <= r => 2 * y <= 2 * x + b
      /\ 2 * y < 2 * x + b => w <= r
      /\ w + 1 <= r => 2 * (y + b) <= 2 * x + b
  BY <1>2, <1>7
<1>9. (p = t => r = w) /\ (p # t => r < w)
  BY <1>1, <1>3, <1>4, <1>6, <1>8
<1>10. QED
  BY <1>6, <1>9 DEF r, x, v, b

\* A submission has the problem's points exactly if it passes all cases.
LEMMA WholePoints ==
  ASSUME NEW tests \in Outcomes, Worth % 100 = 0, Worth >= 100 * CaseTotal
  PROVE  /\ Points(tests) >= Worth <=> CasePoints(tests) = CaseTotal
         /\ Rescored(tests) >= Worth <=> CasePoints(tests) = CaseTotal
<1> DEFINE p == CasePoints(tests)
           t == CaseTotal
           w == Worth \div 100
           a == Round(p * Worth, t)
           b == Round(p * Worth, t * 100)
<1>1. /\ p \in Nat /\ t \in Nat /\ t > 0 /\ p <= t /\ Worth \in Nat /\ Worth > 0
  BY CasePointsIs, CasesAre, ScoringAssumption
<1>2. w \in Nat /\ Worth = 100 * w
  BY ScoringAssumption
<1>3. Points(tests) = IF ~Partial /\ a # Worth THEN 0 ELSE a
  BY DEF Points, AllOrNothing
<1>4. Rescored(tests) = IF ~Partial /\ 100 * b < Worth THEN 0 ELSE 100 * b
  BY NoTestsAre DEF Rescored
<1>5. Worth >= 100 * t
  OBVIOUS
<1> HIDE DEF p, t, w
<1>6. a \in Nat /\ (p = t => a = Worth) /\ (p # t => a < Worth)
  <2> DEFINE i == 1
  <2>1. i \in Nat /\ i > 0 /\ i * Worth = Worth /\ t * i = t /\ 2 * (i * Worth) > i * t
    BY <1>1, <1>5
  <2> HIDE DEF i
  <2>2. LET r == Round(p * (i * Worth), t * i)
        IN  r \in Nat /\ (p = t => r = Worth) /\ (p # t => r < Worth)
    BY <1>1, <2>1, WholeShare, Zenon
  <2>3. QED
    BY <2>1, <2>2
<1>7. b \in Nat /\ (p = t => b = w) /\ (p # t => b < w)
  <2> DEFINE i == 100
  <2>1. i \in Nat /\ i > 0 /\ i * w = Worth /\ t * i = t * 100 /\ 2 * (i * w) > i * t
    BY <1>1, <1>2, <1>5
  <2> HIDE DEF i
  <2>2. LET r == Round(p * (i * w), t * i)
        IN  r \in Nat /\ (p = t => r = w) /\ (p # t => r < w)
    BY <1>1, <1>2, <2>1, WholeShare, Zenon
  <2>3. QED
    BY <2>1, <2>2
<1> HIDE DEF a, b
<1>8. Points(tests) >= Worth <=> p = t
  BY <1>1, <1>3, <1>6
<1>9. Rescored(tests) >= Worth <=> p = t
  BY <1>1, <1>2, <1>4, <1>7
<1>10. QED
  BY <1>8, <1>9 DEF p, t

\* In a contest where each case is worth one, a submission has what its cases have, or
\* nothing.
LEMMA PointsOfCases ==
  ASSUME NEW tests \in Outcomes, ContestWorth = 1000 * CaseTotal
  PROVE  ContestPoints(tests) <= 1000 * CasePoints(tests)
<1> DEFINE p == CasePoints(tests)
           t == CaseTotal
           k == 1000 * p + 1
           r == Round(p * ContestWorth, t)
<1>1. p \in Nat /\ t \in Nat /\ t > 0
  BY CasePointsIs, CasesAre
<1>2. ContestPoints(tests) = IF ~Partial /\ r # ContestWorth THEN 0 ELSE r
  BY NoTestsAre DEF ContestPoints, AllOrNothing
<1>3. ContestWorth = 1000 * t
  OBVIOUS
<1> HIDE DEF p, t
<1> DEFINE x == p * ContestWorth
<1>4. x \in Nat /\ x = 1000 * (p * t) /\ k * t = 1000 * (p * t) + t /\ k \in Nat /\ p * t \in Nat
  BY <1>1, <1>3
<1> HIDE DEF x, k
<1>5. r \in Nat /\ (k <= r => 2 * (k * t) <= 2 * x + t)
  <2>1. /\ Round(x, t) \in Nat
        /\ k <= Round(x, t) => 2 * (k * t) <= 2 * x + t
        /\ 2 * (k * t) < 2 * x + t => k <= Round(x, t)
    <3>1. x \in Nat /\ k \in Nat /\ t \in Nat /\ t > 0
      BY <1>1, <1>4
    <3>2. QED
      BY <3>1, RoundIs, Zenon
  <2>2. QED
    BY <2>1 DEF x
<1> HIDE DEF r
<1>6. ~(k <= r)
  BY <1>1, <1>4, <1>5
<1>7. r <= 1000 * p
  BY <1>1, <1>5, <1>6 DEF k
<1>8. QED
  BY <1>1, <1>2, <1>7 DEF p

-----------------------------------------------------------------------------
(* Types.                                                                  *)

Submission ==
  [problem: Problems, date: Nat, status: {"QU", "D", "CE", "IE"},
   tests: Outcomes \cup {NoTests}, full: Int, points: Nat]
TheRow == [score: Int, cumtime: Int, tie: Int, dq: BOOLEAN]
Step ==
  {Idle} \cup [at: {"rescore", "points"}, sub: Nat, tests: Outcomes \cup {NoTests}]
    \cup [at: {"load"}]
    \cup [at: {"save"}, row: TheRow]

SubsOK ==
  /\ subs \in Seq(Submission) /\ Len(subs) <= MaxSubs
  /\ \A i \in DOMAIN subs :
       subs[i].date = i /\ (subs[i].status = "D" => subs[i].tests \in Outcomes)
RowsTyped ==
  /\ part \in TheRow /\ thread \in [Threads -> Step]
  /\ \A t \in Threads : thread[t].at \in {"rescore", "points"} => thread[t].sub \in DOMAIN subs
FlagsTyped ==
  /\ format \in Formats /\ decided \in BOOLEAN /\ raced \in BOOLEAN /\ failed \in BOOLEAN
  /\ rejudges \in Nat /\ edits \in Nat
TypeOK == SubsOK /\ RowsTyped /\ FlagsTyped

-----------------------------------------------------------------------------
(* What the formats are computed from.                                     *)

\* The constants of the formats.
LEMMA ConstantsAre ==
  /\ Penalty \in Nat /\ FirstAcBonus \in Nat /\ TimeBonus \in Nat /\ MaxSubs \in Nat
  /\ MaxRejudges \in Nat /\ MaxEdits \in Nat /\ End \in Nat /\ MaxSubs <= End
BY ScoringAssumption

\* There are finitely many submissions, each of which has a place.
LEMMA AllAre ==
  ASSUME SubsOK
  PROVE  /\ IsFiniteSet(All) /\ IsFiniteSet(Tried)
         /\ \A s \in All : /\ s \in Submission /\ s.date <= MaxSubs
                           /\ s.status = "D" => s.tests \in Outcomes
                           /\ \E i \in DOMAIN subs : s = subs[i]
         /\ \A p : /\ To(p) \subseteq All /\ IsFiniteSet(To(p))
                   /\ p \in Tried <=> To(p) # {}
         /\ \A s \in All : s.problem \in Tried /\ s \in To(s.problem)
<1>1. DOMAIN subs = 1 .. Len(subs) /\ Len(subs) \in Nat /\ IsFiniteSet(1 .. Len(subs))
  BY LenProperties, FS_Interval DEF SubsOK
<1>2. IsFiniteSet(All)
  BY <1>1, ImageFinite DEF All
<1>3. ASSUME NEW s \in All
      PROVE  /\ s \in Submission /\ s.date <= MaxSubs
             /\ s.status = "D" => s.tests \in Outcomes
             /\ \E i \in DOMAIN subs : s = subs[i]
  <2>1. PICK i \in DOMAIN subs : s = subs[i]
    BY DEF All
  <2>2. s \in Submission
    BY <1>1, <2>1, ElementOfSeq DEF SubsOK
  <2>3. QED
    BY <1>1, <2>1, <2>2, ConstantsAre DEF SubsOK
<1>4. IsFiniteSet(Tried)
  <2> DEFINE f == [s \in All |-> s.problem]
  <2>1. Tried = {f[s] : s \in All}
    BY DEF Tried
  <2> HIDE DEF f
  <2>2. QED
    BY <1>2, <2>1, ImageFinite
<1>5. ASSUME NEW p
      PROVE  To(p) \subseteq All /\ IsFiniteSet(To(p)) /\ (p \in Tried <=> To(p) # {})
  <2>1. To(p) \in SUBSET All
    BY DEF To
  <2>2. IsFiniteSet(To(p))
    BY <1>2, <2>1, FS_Subset
  <2>3. p \in Tried <=> To(p) # {}
    BY DEF Tried, To
  <2>4. QED
    BY <2>1, <2>2, <2>3
<1>6. \A s \in All : s.problem \in Tried /\ s \in To(s.problem)
  BY DEF Tried, To
<1>7. QED
  BY <1>2, <1>3, <1>4, <1>5, <1>6

\* The values of a field of finitely many submissions.
LEMMA FieldsAre ==
  ASSUME NEW f, NEW S, IsFiniteSet(S), S # {}, \A s \in S : f[s] \in Nat,
         NEW V, \A s \in S : f[s] \in V, \A v \in V : \E s \in S : f[s] = v
  PROVE  /\ Min(V) \in Nat /\ (\E s \in S : f[s] = Min(V)) /\ \A s \in S : Min(V) <= f[s]
         /\ Max(V) \in Nat /\ (\E s \in S : f[s] = Max(V)) /\ \A s \in S : f[s] <= Max(V)
<1>1. V = {f[s] : s \in S}
  OBVIOUS
<1>2. V \in SUBSET Nat /\ V # {} /\ IsFiniteSet(V)
  BY <1>1, ImageFinite
<1>3. Min(V) \in V /\ \A v \in V : Min(V) <= v
  BY <1>2, MinIs
<1>4. Max(V) \in V /\ \A v \in V : v <= Max(V)
  BY <1>2, MaxIs
<1>5. QED
  BY <1>2, <1>3, <1>4

\* The best submissions to the problems, and their times; the first and the last.
Best(p) == Max({s.points : s \in To(p)})
FirstBest(p) == Min({s.date : s \in {s \in To(p) : s.points = Best(p)}})
LastTry(p) == Max({s.date : s \in To(p)})
Solved == {p \in Tried : Best(p) > 0}
BestSum == SumFunction([p \in Tried |-> Best(p)])
FirstBestSum == SumFunction([p \in Solved |-> FirstBest(p)])
LastTrySum == SumFunction([p \in Solved |-> LastTry(p)])
LatestBest == Max({FirstBest(p) : p \in Solved} \cup {0})
BestPenalties ==
  SumFunction([p \in Solved |-> (Cardinality(Tries(p, FirstBest(p))) - 1) * Penalty])

\* The best submission to a problem, and when it came.
LEMMA BestIs ==
  ASSUME SubsOK, NEW p \in Tried
  PROVE  /\ Best(p) \in Nat /\ \A s \in To(p) : s.points <= Best(p)
         /\ FirstBest(p) \in Nat
         /\ \E s \in To(p) : s.points = Best(p) /\ s.date = FirstBest(p)
         /\ LastTry(p) \in Nat /\ \A s \in To(p) : s.date <= LastTry(p)
<1> DEFINE f == [s \in To(p) |-> s.points]
           d == [s \in To(p) |-> s.date]
           B == {s \in To(p) : s.points = Best(p)}
<1>1. /\ IsFiniteSet(To(p)) /\ To(p) # {}
      /\ \A s \in To(p) : s \in Submission
  BY AllAre
<1>2. \A s \in To(p) : f[s] = s.points /\ d[s] = s.date /\ f[s] \in Nat /\ d[s] \in Nat
  BY <1>1 DEF Submission
<1> DEFINE P == {s.points : s \in To(p)}
           D == {s.date : s \in To(p)}
           E == {s.date : s \in B}
<1>3. /\ \A s \in To(p) : f[s] \in P /\ d[s] \in D
      /\ \A v \in P : \E s \in To(p) : f[s] = v
      /\ \A v \in D : \E s \in To(p) : d[s] = v
  BY <1>2
<1>4. (\A s \in B : d[s] \in E) /\ \A v \in E : \E s \in B : d[s] = v
  BY <1>2
<1>5. Best(p) = Max(P) /\ FirstBest(p) = Min(E) /\ LastTry(p) = Max(D)
  BY DEF Best, FirstBest, LastTry
<1> HIDE DEF f, d, P, D, E
<1>6. /\ Best(p) \in Nat /\ (\E s \in To(p) : f[s] = Best(p)) /\ \A s \in To(p) : f[s] <= Best(p)
  BY <1>1, <1>2, <1>3, <1>5, FieldsAre
<1>7. LastTry(p) \in Nat /\ \A s \in To(p) : d[s] <= LastTry(p)
  BY <1>1, <1>2, <1>3, <1>5, FieldsAre
<1>8. B # {} /\ IsFiniteSet(B) /\ B \subseteq To(p) /\ \A s \in B : d[s] \in Nat
  <2>1. B \in SUBSET To(p) /\ B # {}
    BY <1>2, <1>6
  <2>2. QED
    BY <1>1, <1>2, <2>1, FS_Subset
<1> HIDE DEF B
<1>9. FirstBest(p) \in Nat /\ \E s \in B : d[s] = FirstBest(p)
  BY <1>4, <1>5, <1>8, FieldsAre
<1>10. \E s \in To(p) : s.points = Best(p) /\ s.date = FirstBest(p)
  BY <1>2, <1>9 DEF B
<1>11. QED
  BY <1>2, <1>6, <1>7, <1>9, <1>10

\* The sums over problems: of the best points, of their times, and the latest of these.
LEMMA SumsAre ==
  ASSUME SubsOK
  PROVE  /\ IsFiniteSet(Solved) /\ Solved \subseteq Tried
         /\ BestSum \in Nat /\ FirstBestSum \in Nat
         /\ LatestBest \in Nat
         /\ LastTrySum \in Nat
<1> DEFINE b == [p \in Tried |-> Best(p)]
           f == [p \in Solved |-> FirstBest(p)]
           l == [p \in Solved |-> LastTry(p)]
<1>1. Solved \subseteq Tried /\ IsFiniteSet(Solved) /\ IsFiniteSet(Tried)
  <2>1. Solved \in SUBSET Tried
    BY DEF Solved
  <2>2. QED
    BY <2>1, AllAre, FS_Subset
<1>2. /\ BestSum = SumFunctionOnSet(b, Tried) /\ FirstBestSum = SumFunctionOnSet(f, Solved)
      /\ LastTrySum = SumFunctionOnSet(l, Solved)
  BY DEF BestSum, FirstBestSum, LastTrySum, SumFunction
<1>3. \A p \in Tried : b[p] \in Nat
  BY BestIs
<1>4. \A p \in Solved : f[p] = FirstBest(p) /\ f[p] \in Nat /\ l[p] \in Nat /\ f[p] <= l[p]
  BY <1>1, BestIs
<1>5. LatestBest \in Nat /\ (LatestBest = 0 \/ \E p \in Solved : LatestBest = f[p])
  <2> DEFINE V == {f[p] : p \in Solved}
  <2>1. IsFiniteSet(V \cup {0}) /\ V \cup {0} \in SUBSET Nat /\ V \cup {0} # {}
    <3>1. IsFiniteSet(V)
      BY <1>1, ImageFinite
    <3>2. QED
      BY <1>4, <3>1, FS_AddElement
  <2>2. LatestBest = Max(V \cup {0})
    <3>1. {FirstBest(p) : p \in Solved} = V
      OBVIOUS
    <3>2. QED
      BY <3>1 DEF LatestBest
  <2>3. LatestBest \in V \cup {0}
    BY <2>1, <2>2, MaxIs
  <2>4. QED
    BY <2>1, <2>3
<1> HIDE DEF b, f, l
<1>6. BestSum \in Nat /\ FirstBestSum \in Nat /\ SumFunctionOnSet(l, Solved) \in Nat
  BY <1>1, <1>2, <1>3, <1>4, SumNat
<1>7. QED
  BY <1>1, <1>2, <1>5, <1>6

\* The groups of the ioi format.
LEMMA TopIs ==
  ASSUME SubsOK, NEW p \in Judged
  PROVE  /\ \A g \in Groups : /\ Top(p, g) \in Nat /\ FirstTop(p, g) \in Nat
                              /\ \E s \in Graded(p) : Group(s, g) = Top(p, g)
                              /\ \A s \in Graded(p) : Group(s, g) \in Nat /\ Group(s, g) <= Top(p, g)
         /\ IoiTotal(p) \in Nat /\ IoiTime(p) \in Nat
<1>1. /\ IsFiniteSet(Graded(p)) /\ Graded(p) # {}
      /\ \A s \in Graded(p) : s \in Submission /\ s.tests \in Outcomes /\ s \in To(p)
  <2>1. Graded(p) \in SUBSET To(p) /\ Graded(p) # {}
    BY DEF Graded, Judged
  <2>2. IsFiniteSet(Graded(p)) /\ \A s \in To(p) : s \in All
    BY <2>1, AllAre, FS_Subset
  <2>3. QED
    BY <2>1, <2>2, AllAre DEF Graded
<1>2. ASSUME NEW g \in Groups
      PROVE  /\ Top(p, g) \in Nat /\ FirstTop(p, g) \in Nat
             /\ \E s \in Graded(p) : Group(s, g) = Top(p, g)
             /\ \A s \in Graded(p) : Group(s, g) \in Nat /\ Group(s, g) <= Top(p, g)
  <2> DEFINE f == [s \in Graded(p) |-> Group(s, g)]
             V == {Group(s, g) : s \in Graded(p)}
             B == {s \in Graded(p) : Group(s, g) = Top(p, g)}
             d == [s \in B |-> s.date]
             D == {s.date : s \in B}
  <2>1. \A s \in Graded(p) : Group(s, g) \in Nat
    BY <1>1, CasesAre DEF Group
  <2>2. \A s \in Graded(p) : f[s] = Group(s, g) /\ f[s] \in Nat /\ f[s] \in V
    BY <2>1
  <2>3. \A v \in V : \E s \in Graded(p) : f[s] = v
    OBVIOUS
  <2>4. Top(p, g) = Max(V) /\ FirstTop(p, g) = Min(D)
    BY DEF Top, FirstTop
  <2> HIDE DEF f, V
  <2>5. /\ Top(p, g) \in Nat /\ (\E s \in Graded(p) : f[s] = Top(p, g))
        /\ \A s \in Graded(p) : f[s] <= Top(p, g)
    BY <1>1, <2>2, <2>3, <2>4, FieldsAre
  <2>6. B # {} /\ IsFiniteSet(B)
    <3>1. B \in SUBSET Graded(p) /\ B # {}
      BY <2>2, <2>5
    <3>2. QED
      BY <1>1, <3>1, FS_Subset
  <2>7. \A s \in B : d[s] = s.date /\ d[s] \in Nat /\ d[s] \in D
    BY <1>1 DEF Submission
  <2>8. \A v \in D : \E s \in B : d[s] = v
    OBVIOUS
  <2> HIDE DEF B, d, D
  <2>9. FirstTop(p, g) \in Nat
    BY <2>4, <2>6, <2>7, <2>8, FieldsAre
  <2>10. QED
    BY <2>2, <2>5, <2>9
<1>3. IoiTotal(p) \in Nat
  <2> DEFINE f == [g \in Groups |-> Top(p, g)]
  <2>1. IoiTotal(p) = 1000 * SumFunctionOnSet(f, Groups)
    BY DEF IoiTotal, SumFunction
  <2>2. \A g \in Groups : f[g] \in Nat
    BY <1>2
  <2> HIDE DEF f
  <2>3. SumFunctionOnSet(f, Groups) \in Nat
    BY <2>2, CasesAre, SumNat
  <2>4. QED
    BY <2>1, <2>3
<1>4. IoiTime(p) \in Nat
  <2> DEFINE f == [g \in Groups |-> FirstTop(p, g)]
             V == {FirstTop(p, g) : g \in Groups}
  <2>1. /\ \A g \in Groups : f[g] \in Nat /\ f[g] \in V
        /\ \A v \in V : \E g \in Groups : f[g] = v
    BY <1>2
  <2>2. IoiTime(p) = Max(V)
    BY DEF IoiTime
  <2>3. Groups # {} /\ IsFiniteSet(Groups)
    BY CasesAre, ScoringAssumption DEF Groups
  <2> HIDE DEF f, V
  <2>4. QED
    BY <2>1, <2>2, <2>3, FieldsAre
<1>5. QED
  BY <1>2, <1>3, <1>4

\* The row of the ioi format.
LEMMA IoiIs ==
  ASSUME SubsOK
  PROVE  Ioi.score \in Nat /\ Ioi.cumtime \in Nat /\ Ioi.tie = 0
<1> DEFINE J == {p \in Judged : IoiTotal(p) > 0}
           f == [p \in Judged |-> IoiTotal(p)]
           t == [p \in J |-> IoiTime(p)]
<1>1. Judged \in SUBSET Tried /\ J \in SUBSET Tried /\ J \subseteq Judged
  BY DEF Judged
<1>2. IsFiniteSet(Judged) /\ IsFiniteSet(J)
  BY <1>1, AllAre, FS_Subset
<1>3. /\ Ioi.score = SumFunctionOnSet(f, Judged) /\ Ioi.cumtime = SumFunctionOnSet(t, J)
      /\ Ioi.tie = 0
  BY DEF Ioi, Row, SumFunction
<1>4. \A p \in Judged : f[p] \in Nat
  BY TopIs
<1>5. \A p \in J : t[p] \in Nat
  BY TopIs
<1> HIDE DEF J, f, t
<1>6. QED
  BY <1>2, <1>3, <1>4, <1>5, SumNat

\* The last submission that the ecoo format counts, and its bonus.
LEMMA LastValidIs ==
  ASSUME SubsOK, NEW p \in Counted
  PROVE  /\ LastValid(p) \in Valid(p) /\ LastValid(p) \in Submission
         /\ Bonus(p) \in Nat
<1>1. Valid(p) \in SUBSET To(p) /\ Valid(p) # {}
  BY DEF Valid, Counted
<1>2. /\ IsFiniteSet(Valid(p))
      /\ \A s \in Valid(p) : s \in Submission /\ s.date <= MaxSubs
  BY <1>1, AllAre, FS_Subset
<1>3. \E s \in Valid(p) : \A r \in Valid(p) : r.date <= s.date
  <2> DEFINE f == [s \in Valid(p) |-> s.date]
             V == {f[s] : s \in Valid(p)}
  <2>1. \A s \in Valid(p) : f[s] = s.date /\ f[s] \in Nat /\ f[s] \in V
    BY <1>2 DEF Submission
  <2>2. \A v \in V : \E s \in Valid(p) : f[s] = v
    OBVIOUS
  <2> HIDE DEF f, V
  <2>3. (\E s \in Valid(p) : f[s] = Max(V)) /\ \A s \in Valid(p) : f[s] <= Max(V)
    BY <1>1, <1>2, <2>1, <2>2, FieldsAre
  <2>4. QED
    BY <2>1, <2>3
<1>4. LastValid(p) \in Valid(p)
  BY <1>3 DEF LastValid
<1> DEFINE d == LastValid(p).date
           b == (End - d) \div TimeBonus
<1>5. d \in Nat /\ d <= End
  BY <1>2, <1>4, ConstantsAre DEF Submission
<1> HIDE DEF d
<1>6. TimeBonus > 0 => b \in Nat
  <2>1. End - d \in Nat
    BY <1>5, ConstantsAre
  <2>2. QED
    BY <2>1, ConstantsAre
<1>7. Bonus(p) = IF LastValid(p).points = 0 THEN 0
                 ELSE (IF FirstAc(p) THEN FirstAcBonus ELSE 0)
                      + (IF TimeBonus > 0 THEN 1000 * b ELSE 0)
  BY DEF Bonus, d
<1> HIDE DEF b
<1>8. Bonus(p) \in Nat
  BY <1>6, <1>7, ConstantsAre
<1>9. QED
  BY <1>2, <1>4, <1>8

\* The row of the ecoo format.
LEMMA EcooIs ==
  ASSUME SubsOK
  PROVE  Ecoo.score \in Nat /\ Ecoo.cumtime \in Nat /\ Ecoo.tie = 0
<1> DEFINE f == [p \in Counted |-> LastValid(p).points + Bonus(p)]
           t == [p \in Counted |-> LastValid(p).date]
<1>1. Counted \in SUBSET Tried
  BY DEF Counted
<1>2. IsFiniteSet(Counted)
  BY <1>1, AllAre, FS_Subset
<1>3. /\ Ecoo.score = SumFunctionOnSet(f, Counted) /\ Ecoo.cumtime = SumFunctionOnSet(t, Counted)
      /\ Ecoo.tie = 0
  BY DEF Ecoo, Row, SumFunction
<1>4. ASSUME NEW p \in Counted
      PROVE  f[p] \in Nat /\ t[p] \in Nat
  BY LastValidIs DEF Submission
<1> HIDE DEF f, t
<1>5. QED
  BY <1>2, <1>3, <1>4, SumNat

\* Every submission with points has a result; while there are no rejudges.
Rated == \A s \in All : s.points > 0 => s.status = "D"

\* The penalties.
LEMMA PenaltiesAre ==
  ASSUME SubsOK
  PROVE  BestPenalties \in Int /\ (Rated => BestPenalties \in Nat)
<1> DEFINE f == [p \in Solved |-> (Cardinality(Tries(p, FirstBest(p))) - 1) * Penalty]
<1>1. BestPenalties = SumFunctionOnSet(f, Solved)
  BY DEF BestPenalties, SumFunction
<1>2. ASSUME NEW p \in Solved
      PROVE  f[p] \in Int /\ (Rated => f[p] \in Nat)
  <2> DEFINE n == Cardinality(Tries(p, FirstBest(p)))
  <2>1. p \in Tried /\ Best(p) > 0
    BY DEF Solved
  <2>2. Tries(p, FirstBest(p)) \in SUBSET To(p)
    BY DEF Tries
  <2>3. IsFiniteSet(Tries(p, FirstBest(p))) /\ n \in Nat /\ (n = 0 => Tries(p, FirstBest(p)) = {})
    <3>1. IsFiniteSet(Tries(p, FirstBest(p)))
      BY <2>2, AllAre, FS_Subset
    <3>2. QED
      BY <3>1, FS_CardinalityType, FS_EmptySet
  <2>4. ASSUME Rated
        PROVE  Tries(p, FirstBest(p)) # {}
    <3>1. PICK s \in To(p) : s.points = Best(p) /\ s.date = FirstBest(p)
      BY <2>1, BestIs
    <3>2. s \in All /\ FirstBest(p) \in Nat
      BY <2>1, AllAre, BestIs
    <3>3. s.status = "D"
      BY <2>1, <2>4, <3>1, <3>2 DEF Rated
    <3>4. Result(s) \in {"AC", "WA"}
      BY <3>3 DEF Result
    <3>5. s \in Tries(p, FirstBest(p))
      BY <3>1, <3>2, <3>4 DEF Tries
    <3>6. QED
      BY <3>5
  <2>5. f[p] = (n - 1) * Penalty
    OBVIOUS
  <2> HIDE DEF n, f
  <2>6. (n - 1) * Penalty \in Int
    BY <2>3, ConstantsAre
  <2>7. ASSUME Rated
        PROVE  (n - 1) * Penalty \in Nat
    <3>1. n - 1 \in Nat
      BY <2>3, <2>4, <2>7
    <3>2. QED
      BY <3>1, ConstantsAre
  <2>8. QED
    BY <2>5, <2>6, <2>7
<1> HIDE DEF f
<1>3. BestPenalties \in Int
  BY <1>1, <1>2, SumsAre, SumTakes
<1>4. ASSUME Rated
      PROVE  BestPenalties \in Nat
  BY <1>1, <1>2, <1>4, SumsAre, SumNat
<1>5. QED
  BY <1>3, <1>4

\* What the queries of the formats return of a problem.
LEMMA RowsAre ==
  ASSUME SubsOK, NEW p \in Tried
  PROVE  /\ DefaultRow(p) = [points |-> Best(p), time |-> LastTry(p)]
         /\ LegacyIoiRow(p) = [points |-> Best(p), time |-> FirstBest(p)]
         /\ IcpcRow(p) = [points |-> Best(p), time |-> FirstBest(p)]
         /\ AtCoderRow(p) = [points |-> Best(p), time |-> FirstBest(p)]
<1>1. DefaultRow(p) = [points |-> Best(p), time |-> LastTry(p)]
  BY DEF DefaultRow, Best, LastTry
<1>2. /\ IcpcRow(p) = [points |-> Best(p), time |-> FirstBest(p)]
      /\ AtCoderRow(p) = [points |-> Best(p), time |-> FirstBest(p)]
  BY DEF IcpcRow, AtCoderRow, Best, FirstBest
<1>3. FirstByPoints(p).points = Best(p)
  <2>1. PICK s \in To(p) : s.points = Best(p)
    BY BestIs
  <2>2. \A r \in To(p) : r.points <= s.points
    BY <2>1, BestIs
  <2> DEFINE x == FirstByPoints(p)
  <2>3. x \in To(p) /\ \A r \in To(p) : r.points <= x.points
    BY <2>2 DEF FirstByPoints
  <2>4. x.points <= Best(p) /\ Best(p) <= x.points /\ Best(p) \in Nat /\ x.points \in Nat
    <3>1. x \in Submission
      BY <2>3, AllAre
    <3> HIDE DEF x
    <3>2. QED
      BY <2>1, <2>3, <3>1, BestIs DEF Submission
  <2>5. QED
    BY <2>4
<1>4. LegacyIoiRow(p) = [points |-> Best(p), time |-> FirstBest(p)]
  BY <1>3 DEF LegacyIoiRow, FirstBest
<1>5. QED
  BY <1>1, <1>2, <1>4

\* What the formats make of them.
FormatRows ==
  /\ Default = Row(BestSum, LastTrySum, 0)
  /\ LegacyIoi = Row(BestSum, AtLeast0(FirstBestSum), 0)
  /\ Icpc = Row(BestSum, FirstBestSum + BestPenalties, LatestBest)
  /\ AtCoder = Row(BestSum, LatestBest + BestPenalties, 0)

\* The sums of rows of the best points are those of the best submissions.
LEMMA SumsOfRows ==
  ASSUME NEW rows, NEW time, rows = [p \in Tried |-> [points |-> Best(p), time |-> time[p]]]
  PROVE  /\ Scored(rows) = Solved /\ SumOfPoints(rows) = BestSum
         /\ SumOfTimes(rows) = SumFunction([p \in Solved |-> time[p]])
         /\ LatestTime(rows) = Max({time[p] : p \in Solved} \cup {0})
         /\ Penalties(rows)
              = SumFunction([p \in Solved |-> (Cardinality(Tries(p, time[p])) - 1) * Penalty])
<1>1. \A p \in Tried : rows[p].points = Best(p) /\ rows[p].time = time[p]
  OBVIOUS
<1>2. Scored(rows) = Solved /\ Solved \subseteq Tried
  BY <1>1 DEF Scored, Solved
<1>3. [p \in Tried |-> rows[p].points] = [p \in Tried |-> Best(p)]
  BY <1>1
<1>4. [p \in Solved |-> rows[p].time] = [p \in Solved |-> time[p]]
  BY <1>1, <1>2
<1>5. {rows[p].time : p \in Solved} = {time[p] : p \in Solved}
  BY <1>1, <1>2
<1>6. [p \in Solved |-> (Cardinality(Tries(p, rows[p].time)) - 1) * Penalty]
        = [p \in Solved |-> (Cardinality(Tries(p, time[p])) - 1) * Penalty]
  BY <1>1, <1>2
<1>7. QED
  BY <1>2, <1>3, <1>4, <1>5, <1>6 DEF SumOfPoints, SumOfTimes, LatestTime, Penalties, BestSum

\* They do.
LEMMA FormatRowsHold == SubsOK => FormatRows
<1> SUFFICES ASSUME SubsOK PROVE FormatRows
  OBVIOUS
<1>1. Default = Row(BestSum, LastTrySum, 0)
  <2> DEFINE rows == [p \in Tried |-> DefaultRow(p)]
  <2>1. rows = [p \in Tried |-> [points |-> Best(p), time |-> LastTry(p)]]
    BY RowsAre
  <2> DEFINE time == [p \in Tried |-> LastTry(p)]
  <2>4. rows = [p \in Tried |-> [points |-> Best(p), time |-> time[p]]]
    BY <2>1
  <2>5. [p \in Solved |-> time[p]] = [p \in Solved |-> LastTry(p)]
    BY DEF Solved
  <2> HIDE DEF rows, time
  <2>2. SumOfPoints(rows) = BestSum /\ SumOfTimes(rows) = LastTrySum
    <3>1. /\ SumOfPoints(rows) = BestSum
          /\ SumOfTimes(rows) = SumFunction([p \in Solved |-> time[p]])
      BY <2>4, SumsOfRows, Zenon
    <3>2. QED
      BY <2>5, <3>1, Zenon DEF LastTrySum
  <2>3. QED
    BY <2>2 DEF Default, rows
<1>2. ASSUME NEW rows, rows = [p \in Tried |-> [points |-> Best(p), time |-> FirstBest(p)]]
      PROVE  /\ SumOfPoints(rows) = BestSum /\ SumOfTimes(rows) = FirstBestSum
             /\ LatestTime(rows) = LatestBest /\ Penalties(rows) = BestPenalties
  <2> DEFINE time == [p \in Tried |-> FirstBest(p)]
  <2>1. rows = [p \in Tried |-> [points |-> Best(p), time |-> time[p]]]
    BY <1>2
  <2>2. \A p \in Solved : time[p] = FirstBest(p)
    BY DEF Solved
  <2> HIDE DEF time
  <2> DEFINE n(p, d) == (Cardinality(Tries(p, d)) - 1) * Penalty
  <2>3. /\ [p \in Solved |-> time[p]] = [p \in Solved |-> FirstBest(p)]
        /\ {time[p] : p \in Solved} = {FirstBest(p) : p \in Solved}
    BY <2>2
  <2>4. [p \in Solved |-> n(p, time[p])] = [p \in Solved |-> n(p, FirstBest(p))]
    <3> HIDE DEF n
    <3>1. QED
      BY <2>2
  <2>5. /\ SumOfPoints(rows) = BestSum
        /\ SumOfTimes(rows) = SumFunction([p \in Solved |-> time[p]])
        /\ LatestTime(rows) = Max({time[p] : p \in Solved} \cup {0})
        /\ Penalties(rows) = SumFunction([p \in Solved |-> n(p, time[p])])
    BY <2>1, SumsOfRows, Zenon
  <2>6. QED
    BY <2>3, <2>4, <2>5, Zenon DEF FirstBestSum, LatestBest, BestPenalties
<1>3. LegacyIoi = Row(BestSum, AtLeast0(FirstBestSum), 0)
  <2> DEFINE rows == [p \in Tried |-> LegacyIoiRow(p)]
  <2>1. rows = [p \in Tried |-> [points |-> Best(p), time |-> FirstBest(p)]]
    BY RowsAre
  <2> HIDE DEF rows
  <2>2. QED
    BY <1>2, <2>1 DEF LegacyIoi, rows
<1>4. Icpc = Row(BestSum, FirstBestSum + BestPenalties, LatestBest)
  <2> DEFINE rows == [p \in Tried |-> IcpcRow(p)]
  <2>1. rows = [p \in Tried |-> [points |-> Best(p), time |-> FirstBest(p)]]
    BY RowsAre
  <2> HIDE DEF rows
  <2>2. QED
    BY <1>2, <2>1 DEF Icpc, rows
<1>5. AtCoder = Row(BestSum, LatestBest + BestPenalties, 0)
  <2> DEFINE rows == [p \in Tried |-> AtCoderRow(p)]
  <2>1. rows = [p \in Tried |-> [points |-> Best(p), time |-> FirstBest(p)]]
    BY RowsAre
  <2> HIDE DEF rows
  <2>2. QED
    BY <1>2, <2>1 DEF AtCoder, rows
<1>6. QED
  BY <1>1, <1>3, <1>4, <1>5 DEF FormatRows

\* The same after a step.
LEMMA FormatRowsNext == SubsOK' => FormatRows'
BY FormatRowsHold, PTL

\* The results of any format: points are no less than none, and so is the time as long
\* as what has points has a result.
LEMMA ResultsAre ==
  ASSUME SubsOK, format \in Formats
  PROVE  /\ Results.score \in Nat /\ Results.cumtime \in Int /\ Results.tie \in Int
         /\ Rated => Results.cumtime >= 0
<1>1. Default.score \in Nat /\ Default.cumtime \in Nat /\ Default.tie = 0
  BY SumsAre, FormatRowsHold DEF FormatRows, Row
<1>2. LegacyIoi.score \in Nat /\ LegacyIoi.cumtime \in Nat /\ LegacyIoi.tie = 0
  BY SumsAre, FormatRowsHold DEF FormatRows, Row, AtLeast0
<1>3. /\ Icpc.score \in Nat /\ Icpc.cumtime \in Int /\ Icpc.tie \in Nat
      /\ Rated => Icpc.cumtime >= 0
  <2>1. /\ Icpc.score = BestSum /\ Icpc.cumtime = FirstBestSum + BestPenalties
        /\ Icpc.tie = LatestBest
    BY FormatRowsHold DEF FormatRows, Row
  <2>2. QED
    BY <2>1, SumsAre, PenaltiesAre
<1>4. /\ AtCoder.score \in Nat /\ AtCoder.cumtime \in Int /\ AtCoder.tie = 0
      /\ Rated => AtCoder.cumtime >= 0
  <2>1. /\ AtCoder.score = BestSum /\ AtCoder.cumtime = LatestBest + BestPenalties
        /\ AtCoder.tie = 0
    BY FormatRowsHold DEF FormatRows, Row
  <2>2. QED
    BY <2>1, SumsAre, PenaltiesAre
<1>5. format \in {"default", "legacy_ioi", "ioi", "ecoo", "icpc", "atcoder"}
  BY ScoringAssumption
<1>6. Results \in {Default, LegacyIoi, Ioi, Ecoo, Icpc, AtCoder}
  BY <1>5 DEF Results
<1>7. QED
  BY <1>1, <1>2, <1>3, <1>4, <1>6, IoiIs, EcooIs

\* The results depend on the submissions and the format alone.
LEMMA ResultsStay ==
  ASSUME UNCHANGED subs, UNCHANGED format
  PROVE  Results' = Results /\ \A dq \in BOOLEAN : Recomputed(dq)' = Recomputed(dq)
<1>1. \A p : /\ DefaultRow(p)' = DefaultRow(p) /\ LegacyIoiRow(p)' = LegacyIoiRow(p)
            /\ IcpcRow(p)' = IcpcRow(p) /\ AtCoderRow(p)' = AtCoderRow(p)
  <2>1. \A p : To(p)' = To(p)
    BY DEF To, All
  <2>2. \A p : FirstByPoints(p)' = FirstByPoints(p)
    BY <2>1 DEF FirstByPoints
  <2>3. QED
    BY <2>1, <2>2 DEF DefaultRow, LegacyIoiRow, IcpcRow, AtCoderRow
<1>2. Tried' = Tried
  BY DEF Tried, All
<1>3. \A rows : /\ SumOfPoints(rows)' = SumOfPoints(rows) /\ SumOfTimes(rows)' = SumOfTimes(rows)
               /\ LatestTime(rows)' = LatestTime(rows) /\ Penalties(rows)' = Penalties(rows)
  <2>1. \A rows : Scored(rows)' = Scored(rows)
    BY <1>2 DEF Scored
  <2>2. \A p, time : Tries(p, time)' = Tries(p, time)
    BY DEF Tries, To, All, Result
  <2>3. QED
    BY <1>2, <2>1, <2>2 DEF SumOfPoints, SumOfTimes, LatestTime, Penalties
<1>4. Default' = Default /\ LegacyIoi' = LegacyIoi /\ Icpc' = Icpc /\ AtCoder' = AtCoder
  BY <1>1, <1>2, <1>3 DEF Default, LegacyIoi, Icpc, AtCoder, Row
<1>5. Ioi' = Ioi
  <2>1. \A p, g : Top(p, g)' = Top(p, g) /\ FirstTop(p, g)' = FirstTop(p, g)
    BY DEF Top, FirstTop, Graded, To, All
  <2>2. \A p : IoiTotal(p)' = IoiTotal(p) /\ IoiTime(p)' = IoiTime(p)
    BY <2>1 DEF IoiTotal, IoiTime
  <2>3. Judged' = Judged
    BY DEF Judged, Tried, Graded, To, All
  <2>4. QED
    BY <2>2, <2>3 DEF Ioi, Row
<1>6. Ecoo' = Ecoo
  <2>1. \A p : LastValid(p)' = LastValid(p) /\ Valid(p)' = Valid(p)
    BY DEF LastValid, Valid, Result, To, All
  <2>2. Counted' = Counted
    BY <2>1 DEF Counted, Tried, All
  <2>3. \A p : Bonus(p)' = Bonus(p)
    BY <2>1 DEF Bonus, FirstAc
  <2>4. QED
    BY <2>1, <2>2, <2>3 DEF Ecoo, Row
<1>7. Results' = Results
  BY <1>4, <1>5, <1>6 DEF Results
<1>8. QED
  BY <1>7 DEF Recomputed

-----------------------------------------------------------------------------
(* More submissions or points.                                             *)

\* The facts about the best submissions and the groups, of a state and of the next.
BestFacts ==
  /\ IsFiniteSet(Tried) /\ Judged \subseteq Tried
  /\ \A p \in Tried : /\ Best(p) \in Nat /\ \A s \in To(p) : s.points <= Best(p)
                      /\ \E s \in To(p) : s.points = Best(p)
  /\ \A p \in Judged : IoiTotal(p) \in Nat
  /\ \A p \in Judged, g \in Groups :
       /\ Top(p, g) \in Nat /\ \E s \in Graded(p) : Group(s, g) = Top(p, g)
       /\ \A s \in Graded(p) : Group(s, g) <= Top(p, g)
  /\ BestSum = SumFunctionOnSet([p \in Tried |-> Best(p)], Tried)
  /\ Ioi.score = SumFunctionOnSet([p \in Judged |-> IoiTotal(p)], Judged)
  /\ \A p : IoiTotal(p) = 1000 * SumFunctionOnSet([g \in Groups |-> Top(p, g)], Groups)

\* They hold.
LEMMA BestFactsHold == SubsOK => BestFacts
<1> SUFFICES ASSUME SubsOK PROVE BestFacts
  OBVIOUS
<1>1. IsFiniteSet(Tried) /\ Judged \subseteq Tried
  BY AllAre DEF Judged
<1>2. \A p \in Tried : /\ Best(p) \in Nat /\ \A s \in To(p) : s.points <= Best(p)
                       /\ \E s \in To(p) : s.points = Best(p)
  BY BestIs
<1>3. \A p \in Judged : IoiTotal(p) \in Nat
  BY TopIs
<1>4. ASSUME NEW p \in Judged, NEW g \in Groups
      PROVE  /\ Top(p, g) \in Nat /\ \E s \in Graded(p) : Group(s, g) = Top(p, g)
             /\ \A s \in Graded(p) : Group(s, g) <= Top(p, g)
  BY TopIs
<1>5. /\ BestSum = SumFunctionOnSet([p \in Tried |-> Best(p)], Tried)
      /\ Ioi.score = SumFunctionOnSet([p \in Judged |-> IoiTotal(p)], Judged)
      /\ \A p : IoiTotal(p) = 1000 * SumFunctionOnSet([g \in Groups |-> Top(p, g)], Groups)
  BY DEF BestSum, Ioi, Row, IoiTotal, SumFunction
<1>6. QED
  BY <1>1, <1>2, <1>3, <1>4, <1>5 DEF BestFacts

\* The same after a step.
LEMMA BestFactsNext == SubsOK' => BestFacts'
BY BestFactsHold, PTL

\* No submission is taken back, loses points or its result.
Grows ==
  \A i \in DOMAIN subs :
    /\ i \in DOMAIN subs' /\ subs'[i].problem = subs[i].problem
    /\ subs[i].points <= subs'[i].points
    /\ subs[i].status = "D" => subs'[i].status = "D" /\ subs'[i].tests = subs[i].tests

\* Then no problem loses points either.
LEMMA BestGrows ==
  ASSUME SubsOK, SubsOK', Grows
  PROVE  BestSum <= BestSum'
<1> DEFINE b == [p \in Tried |-> Best(p)]
           c == [p \in Tried' |-> Best(p)']
<1>1. BestFacts /\ BestFacts'
  BY BestFactsHold, BestFactsNext
<1>2. BestSum = SumFunctionOnSet(b, Tried) /\ BestSum' = SumFunctionOnSet(c, Tried')
  BY <1>1 DEF BestFacts
<1>3. ASSUME NEW p \in Tried
      PROVE  p \in Tried' /\ b[p] \in Nat /\ b[p] <= c[p]
  <2>1. PICK s \in To(p) : s.points = Best(p)
    BY <1>1 DEF BestFacts
  <2>2. PICK i \in DOMAIN subs : s = subs[i]
    BY AllAre
  <2>3. s.problem = p
    BY DEF To
  <2>4. /\ i \in DOMAIN subs' /\ subs'[i].problem = p /\ s.points <= subs'[i].points
    BY <2>2, <2>3 DEF Grows
  <2>5. subs'[i] \in To(p)' /\ p \in Tried'
    BY <2>4 DEF To, Tried, All
  <2>6. subs'[i].points <= Best(p)' /\ Best(p)' \in Nat
    BY <1>1, <2>5 DEF BestFacts
  <2>7. s.points \in Nat /\ subs'[i].points \in Nat
    <3>1. s \in Submission
      BY AllAre
    <3>2. subs'[i] \in Submission
      BY <2>4, ElementOfSeq DEF SubsOK
    <3>3. QED
      BY <3>1, <3>2 DEF Submission
  <2>8. QED
    BY <1>1, <2>1, <2>4, <2>5, <2>6, <2>7 DEF BestFacts
<1>4. \A p \in Tried' : c[p] \in Nat
  BY <1>1 DEF BestFacts
<1>5. IsFiniteSet(Tried) /\ IsFiniteSet(Tried')
  BY <1>1 DEF BestFacts
<1> HIDE DEF b, c
<1>6. QED
  BY <1>2, <1>3, <1>4, <1>5, SumLeq

\* Nor in the ioi format.
LEMMA IoiGrows ==
  ASSUME SubsOK, SubsOK', Grows
  PROVE  Ioi.score <= (Ioi.score)'
<1> DEFINE b == [p \in Judged |-> IoiTotal(p)]
           c == [p \in Judged' |-> IoiTotal(p)']
<1>1. BestFacts /\ BestFacts'
  BY BestFactsHold, BestFactsNext
<1>2. Ioi.score = SumFunctionOnSet(b, Judged) /\ (Ioi.score)' = SumFunctionOnSet(c, Judged')
  BY <1>1 DEF BestFacts
<1>3. ASSUME NEW p \in Judged, NEW s \in Graded(p)
      PROVE  \E r \in Graded(p)' : r.tests = s.tests
  <2>1. s \in All /\ s.problem = p /\ s.status = "D"
    BY DEF Graded, To
  <2>2. PICK i \in DOMAIN subs : s = subs[i]
    BY <2>1, AllAre
  <2>3. /\ i \in DOMAIN subs' /\ subs'[i].problem = p /\ subs'[i].status = "D"
        /\ subs'[i].tests = s.tests
    BY <2>1, <2>2 DEF Grows
  <2>4. subs'[i] \in Graded(p)'
    BY <2>3 DEF Graded, To, All
  <2>5. QED
    BY <2>3, <2>4
<1>4. ASSUME NEW p \in Judged
      PROVE  p \in Judged' /\ b[p] \in Nat /\ c[p] \in Nat /\ b[p] <= c[p]
  <2> DEFINE f == [g \in Groups |-> Top(p, g)]
             h == [g \in Groups |-> Top(p, g)']
  <2>1. p \in Judged'
    <3>1. PICK s \in Graded(p) : TRUE
      BY DEF Judged
    <3>2. PICK r \in Graded(p)' : r.tests = s.tests
      BY <1>3
    <3>3. p \in Tried'
      BY <3>2 DEF Graded, To, Tried
    <3>4. QED
      BY <3>2, <3>3 DEF Judged
  <2>2. ASSUME NEW g \in Groups
        PROVE  f[g] \in Nat /\ h[g] \in Nat /\ f[g] <= h[g]
    <3>1. PICK s \in Graded(p) : Group(s, g) = Top(p, g)
      BY <1>1 DEF BestFacts
    <3>2. PICK r \in Graded(p)' : r.tests = s.tests
      BY <1>3
    <3>3. Group(r, g) = Group(s, g)
      BY <3>2 DEF Group
    <3>4. Group(r, g)' = Group(r, g)
      BY DEF Group, InBatch
    <3>5. Group(r, g)' <= Top(p, g)' /\ Top(p, g)' \in Nat
      BY <1>1, <2>1, <3>2 DEF BestFacts
    <3>6. QED
      BY <1>1, <3>1, <3>3, <3>4, <3>5 DEF BestFacts
  <2>3. /\ IoiTotal(p) = 1000 * SumFunctionOnSet(f, Groups)
        /\ IoiTotal(p)' = 1000 * SumFunctionOnSet(h, Groups)
    BY <1>1 DEF BestFacts
  <2>4. b[p] = IoiTotal(p) /\ c[p] = IoiTotal(p)'
    BY <2>1
  <2> HIDE DEF f, h, b, c
  <2>5. /\ SumFunctionOnSet(f, Groups) \in Int /\ SumFunctionOnSet(h, Groups) \in Nat
        /\ SumFunctionOnSet(f, Groups) <= SumFunctionOnSet(h, Groups)
    BY <2>2, CasesAre, SumLeq
  <2>6. IoiTotal(p) \in Nat /\ IoiTotal(p)' \in Nat
    BY <1>1, <2>1 DEF BestFacts
  <2>7. QED
    BY <2>1, <2>3, <2>4, <2>5, <2>6
<1>5. \A p \in Judged' : c[p] \in Nat
  BY <1>1 DEF BestFacts
<1>6. IsFiniteSet(Judged) /\ IsFiniteSet(Judged')
  <2>1. Judged \in SUBSET Tried /\ (Judged \in SUBSET Tried)'
    BY <1>1 DEF BestFacts
  <2>2. IsFiniteSet(Tried) /\ IsFiniteSet(Tried')
    BY <1>1 DEF BestFacts
  <2>3. QED
    BY <2>1, <2>2, FS_Subset
<1> HIDE DEF b, c
<1>7. QED
  BY <1>2, <1>4, <1>5, <1>6, SumLeq

\* The two sums are natural numbers, now and after a step.
ScoresTyped == BestSum \in Nat /\ Ioi.score \in Nat

\* They are.
LEMMA ScoresHold == SubsOK => ScoresTyped
BY SumsAre, IoiIs DEF ScoresTyped

\* The same after a step.
LEMMA ScoresNext == SubsOK' => ScoresTyped'
BY ScoresHold, PTL

\* Another submission or more points never cost any, but in the ecoo format, which
\* counts the last submission.
LEMMA ScoreGrows ==
  ASSUME SubsOK, SubsOK', Grows, format \in Formats, UNCHANGED format, format # "ecoo"
  PROVE  Results.score \in Nat /\ (Results.score)' \in Nat /\ Results.score <= (Results.score)'
<1>1. format \in {"default", "legacy_ioi", "ioi", "icpc", "atcoder"}
  BY ScoringAssumption
<1>2. Results.score = IF format = "ioi" THEN Ioi.score ELSE BestSum
  BY <1>1, FormatRowsHold DEF Results, FormatRows, Row
<1>3. (Results.score)' = IF format = "ioi" THEN (Ioi.score)' ELSE BestSum'
  BY <1>1, FormatRowsNext DEF Results, FormatRows, Row
<1>4. Results.score \in Nat
  BY ResultsAre
<1>5. BestSum' \in Nat /\ (Ioi.score)' \in Nat
  BY ScoresNext DEF ScoresTyped
<1>6. BestSum <= BestSum' /\ Ioi.score <= (Ioi.score)'
  BY BestGrows, IoiGrows
<1>7. QED
  BY <1>2, <1>3, <1>4, <1>5, <1>6

-----------------------------------------------------------------------------
(* The invariant.                                                          *)

At(t, place) == thread[t].at = place
Reads(t) == thread[t].at \in {"rescore", "points"}
NoneSaves == \A t \in Threads : ~At(t, "save")

\* A submission with a result has the points it was graded or rescored to, unless that
\* overtook a rescoring.
FullOK ==
  \A i \in DOMAIN subs : subs[i].status = "D" /\ i \notin overtaken =>
    subs[i].full \in {Points(subs[i].tests), Rescored(subs[i].tests)}

\* What a thread read of a submission with a result is that result, unless overtaken.
ReadOK ==
  \A t \in Threads : Reads(t) /\ thread[t].sub \notin overtaken =>
    (subs[thread[t].sub].status = "D" => thread[t].tests = subs[thread[t].sub].tests)

\* Without rejudges, a submission has no cases or a result, the points in the contest are
\* those of the result, or none, and so is what a thread read.
PointsOK ==
  rejudges = 0 =>
    /\ \A i \in DOMAIN subs :
         /\ subs[i].tests = NoTests \/ subs[i].status = "D"
         /\ \/ subs[i].points = 0
            \/ subs[i].status = "D" /\ subs[i].points = ContestPoints(subs[i].tests)
    /\ \A t \in Threads : Reads(t) =>
         \/ thread[t].tests = NoTests
         \/ /\ subs[thread[t].sub].status = "D"
            /\ subs[thread[t].sub].tests = thread[t].tests

\* A row that is stored or will be.
RowOK(r) ==
  /\ IF r.dq THEN r.score = -9999 ELSE r.score >= 0
  /\ rejudges = 0 => r.cumtime >= 0
RowsOK == RowOK(part) /\ \A t \in Threads : At(t, "save") => RowOK(thread[t].row)

\* Unless two threads recomputed at a time, one at most is about to save, with the
\* last decision about the disqualification; when none is, that decision is stored.
OneSaves ==
  ~raced => /\ \A t, u \in Threads : At(t, "save") /\ At(u, "save") => t = u
            /\ \A t \in Threads : At(t, "save") => thread[t].row.dq = decided
            /\ NoneSaves => part.dq = decided

\* Something is still to be graded, or a thread to recompute the row.
Pending ==
  \/ \E i \in DOMAIN subs : subs[i].status = "QU"
  \/ \E t \in Threads : At(t, "rescore") \/ At(t, "points") \/ At(t, "load")

\* Otherwise the row, or the one about to be saved, is what the submissions make it.
CurrentOK ==
  ~raced /\ ~failed /\ subs # <<>> =>
    \/ Pending
    \/ \E t \in Threads : At(t, "save") /\ thread[t].row = Recomputed(decided)
    \/ NoneSaves /\ part = Recomputed(decided)

\* The rows are behind the submissions, never before them, and the stored one is not
\* before the one to be saved.
ScoresOK ==
  ~raced /\ rejudges = 0 /\ overtaken = {} /\ format # "ecoo" =>
    /\ ~part.dq => part.score <= Results.score
    /\ \A t \in Threads : At(t, "save") /\ ~thread[t].row.dq =>
         /\ thread[t].row.score <= Results.score
         /\ ~part.dq => part.score <= thread[t].row.score

Inv == TypeOK /\ FullOK /\ ReadOK /\ PointsOK /\ RowsOK /\ OneSaves /\ CurrentOK /\ ScoresOK

\* What Recomputed gives.
LEMMA RecomputedIs ==
  ASSUME SubsOK, format \in Formats, NEW dq \in BOOLEAN
  PROVE  /\ Recomputed(dq) \in TheRow /\ (Recomputed(dq).dq <=> dq)
         /\ dq => Recomputed(dq).score = -9999
         /\ ~dq => Recomputed(dq).score = Results.score /\ Results.score >= 0
         /\ Rated => Recomputed(dq).cumtime >= 0
<1>1. /\ Results.score \in Nat /\ Results.cumtime \in Int /\ Results.tie \in Int
      /\ Rated => Results.cumtime >= 0
  BY ResultsAre
<1> DEFINE r == Recomputed(dq)
<1>2. CASE dq
  <2>1. r = [score |-> -9999, cumtime |-> 0, tie |-> 0, dq |-> TRUE]
    BY <1>2 DEF Recomputed
  <2> HIDE DEF r
  <2>2. r.score = -9999 /\ r.cumtime >= 0 /\ r.dq
    BY <2>1
  <2>3. r \in TheRow
    BY <2>1 DEF TheRow
  <2>4. r.dq <=> dq
    BY <1>2, <2>2
  <2>5. dq => r.score = -9999
    BY <2>2
  <2>6. Rated => r.cumtime >= 0
    BY <2>2
  <2>7. ~dq => r.score = Results.score /\ Results.score >= 0
    BY <1>2
  <2>8. QED
    BY <2>3, <2>4, <2>5, <2>6, <2>7 DEF r
<1>3. CASE ~dq
  <2> DEFINE a == Results.score
             b == Results.cumtime
             c == Results.tie
  <2>1. r = [score |-> a, cumtime |-> b, tie |-> c, dq |-> FALSE]
    BY <1>3 DEF Recomputed
  <2>2. a \in Nat /\ b \in Int /\ c \in Int /\ (Rated => b >= 0)
    BY <1>1
  <2> HIDE DEF r, a, b, c
  <2>3. r.score = a /\ r.cumtime = b /\ r.tie = c /\ ~r.dq
    BY <2>1
  <2>4. r \in TheRow
    BY <2>1, <2>2 DEF TheRow
  <2>5. a >= 0
    BY <2>2
  <2>6. QED
    BY <1>3, <2>2, <2>3, <2>4, <2>5 DEF r, a
<1>4. QED
  BY <1>2, <1>3

\* Without rejudges what has points has a result.
LEMMA RatedIs ==
  ASSUME SubsOK, PointsOK, rejudges = 0
  PROVE  Rated
<1>1. \A s \in All : \E i \in DOMAIN subs : s = subs[i]
  BY AllAre
<1>2. \A i \in DOMAIN subs : subs[i].points = 0 \/ subs[i].status = "D"
  BY DEF PointsOK
<1>3. QED
  BY <1>1, <1>2 DEF Rated

-----------------------------------------------------------------------------
(* Steps that change the submissions.                                      *)

\* A submission of the participation.
LEMMA SubIs ==
  ASSUME SubsOK, NEW i \in DOMAIN subs
  PROVE  /\ subs[i] \in Submission /\ subs[i].points \in Nat /\ subs[i].date = i
         /\ subs[i].status = "D" => subs[i].tests \in Outcomes
<1>1. subs \in Seq(Submission) /\ i \in 1 .. Len(subs)
  BY LenProperties DEF SubsOK
<1>2. subs[i] \in Submission
  BY <1>1, ElementOfSeq
<1>3. QED
  BY <1>2 DEF SubsOK, Submission

\* Submission i becomes x.
Becomes(i, x) ==
  /\ i \in DOMAIN subs /\ x \in Submission
  /\ x.date = subs[i].date /\ x.problem = subs[i].problem
  /\ x.status = "D" => x.tests \in Outcomes
  /\ subs' = [subs EXCEPT ![i] = x]

\* Only that one changes.
LEMMA BecomesIs ==
  ASSUME SubsOK, NEW i, NEW x, Becomes(i, x)
  PROVE  /\ SubsOK' /\ DOMAIN subs' = DOMAIN subs /\ subs'[i] = x
         /\ \A j \in DOMAIN subs : j # i => subs'[j] = subs[j]
         /\ subs # <<>> /\ subs' # <<>>
<1>1. /\ subs \in Seq(Submission) /\ Len(subs) <= MaxSubs /\ Len(subs) \in Nat
      /\ i \in 1 .. Len(subs) /\ DOMAIN subs = 1 .. Len(subs)
  BY LenProperties DEF SubsOK, Becomes
<1>2. subs' = [subs EXCEPT ![i] = x] /\ x \in Submission
  BY DEF Becomes
<1>3. /\ subs' \in Seq(Submission) /\ Len(subs') = Len(subs) /\ DOMAIN subs' = 1 .. Len(subs)
      /\ subs'[i] = x /\ \A j \in 1 .. Len(subs) : j # i => subs'[j] = subs[j]
  BY <1>1, <1>2, ExceptSeq
<1>4. ASSUME NEW j \in DOMAIN subs'
      PROVE  subs'[j].date = j /\ (subs'[j].status = "D" => subs'[j].tests \in Outcomes)
  BY <1>1, <1>3 DEF SubsOK, Becomes
<1>5. SubsOK'
  BY <1>1, <1>3, <1>4 DEF SubsOK
<1>6. subs # <<>> /\ subs' # <<>>
  BY <1>1, <1>3
<1>7. QED
  BY <1>1, <1>3, <1>5, <1>6

\* The rows, stored or to be saved, are left alone.
RowsStay ==
  /\ UNCHANGED <<format, part, decided, raced>>
  /\ rejudges' \in {rejudges, rejudges + 1} /\ overtaken \subseteq overtaken'
  /\ thread' \in [Threads -> Step]
  /\ \A t \in Threads : /\ At(t, "save")' <=> At(t, "save")
                        /\ At(t, "save") => thread'[t] = thread[t]

\* A step that changes the submissions keeps what is said about the rows.
LEMMA RowsKept ==
  ASSUME Inv, RowsStay, SubsOK', Pending' \/ failed',
         rejudges' = 0 /\ overtaken' = {} => Grows
  PROVE  RowsOK' /\ OneSaves' /\ CurrentOK' /\ ScoresOK'
<1>1. /\ SubsOK /\ RowsTyped /\ FlagsTyped
  BY DEF Inv, TypeOK
<1>2. (rejudges' = 0 => rejudges = 0) /\ (overtaken' = {} => overtaken = {})
  BY <1>1 DEF RowsStay, FlagsTyped
<1>3. RowsOK'
  <2>1. RowOK(part)'
    BY <1>2 DEF Inv, RowsOK, RowOK, RowsStay
  <2>2. ASSUME NEW t \in Threads, At(t, "save")'
        PROVE  RowOK(thread[t].row)'
    <3>1. At(t, "save") /\ thread'[t] = thread[t]
      BY <2>2 DEF RowsStay
    <3>2. RowOK(thread[t].row)
      BY <3>1 DEF Inv, RowsOK
    <3>3. QED
      BY <1>2, <3>1, <3>2 DEF RowOK
  <2>3. QED
    BY <2>1, <2>2 DEF RowsOK
<1>4. OneSaves'
  <2>1. ASSUME ~raced
        PROVE  /\ \A t, u \in Threads : At(t, "save") /\ At(u, "save") => t = u
               /\ \A t \in Threads : At(t, "save") => thread[t].row.dq = decided
               /\ NoneSaves => part.dq = decided
    BY <2>1 DEF Inv, OneSaves
  <2>2. NoneSaves' <=> NoneSaves
    BY DEF NoneSaves, RowsStay
  <2>3. QED
    BY <2>1, <2>2 DEF OneSaves, RowsStay
<1>5. CurrentOK'
  BY DEF CurrentOK
<1>6. ScoresOK'
  <2>1. SUFFICES ASSUME ~raced, rejudges' = 0, overtaken' = {}, format # "ecoo"
                 PROVE  ScoresOK'
    BY DEF ScoresOK, RowsStay
  <2>2. Results.score \in Nat /\ (Results.score)' \in Nat /\ Results.score <= (Results.score)'
    BY <1>1, <2>1, ScoreGrows DEF RowsStay, FlagsTyped
  <2>3. part' = part /\ part.score \in Int
    BY <1>1 DEF RowsStay, RowsTyped, TheRow
  <2>4. ~part.dq => part.score <= Results.score
    BY <1>2, <2>1 DEF Inv, ScoresOK
  <2>5. ASSUME NEW t \in Threads, At(t, "save")', ~thread'[t].row.dq
        PROVE  /\ thread'[t].row.score <= (Results.score)'
               /\ ~part.dq => part.score <= thread'[t].row.score
    <3>1. At(t, "save") /\ thread'[t] = thread[t]
      BY <2>5 DEF RowsStay
    <3>2. /\ thread[t].row.score <= Results.score
          /\ ~part.dq => part.score <= thread[t].row.score
      BY <1>2, <2>1, <2>5, <3>1 DEF Inv, ScoresOK
    <3>3. thread[t].row.score \in Int
      BY <1>1, <3>1 DEF RowsTyped, At, Step, Idle, TheRow
    <3>4. QED
      BY <2>2, <3>1, <3>2, <3>3
  <2>6. QED
    BY <2>2, <2>3, <2>4, <2>5 DEF ScoresOK
<1>7. QED
  BY <1>3, <1>4, <1>5, <1>6

\* A submission is stored.
LEMMA SubmitStep ==
  ASSUME Inv, NEW p \in Problems, Submit(p)
  PROVE  Inv'
<1> DEFINE n == Len(subs) + 1
           x == [problem |-> p, date |-> n, status |-> "QU", tests |-> NoTests,
                 full |-> 0, points |-> 0]
<1>1. /\ SubsOK /\ RowsTyped /\ FlagsTyped /\ FullOK /\ ReadOK /\ PointsOK
      /\ Len(subs) < MaxSubs /\ subs' = Append(subs, x)
      /\ UNCHANGED <<format, part, decided, thread, raced, failed, overtaken, rejudges, edits>>
  BY DEF Inv, TypeOK, Submit, NotTheRow
<1>2. /\ subs \in Seq(Submission) /\ Len(subs) \in Nat /\ DOMAIN subs = 1 .. Len(subs)
      /\ n \in Nat /\ n \notin DOMAIN subs
  BY <1>1, LenProperties DEF SubsOK
<1>3. x \in Submission /\ x.date = n /\ x.status = "QU" /\ x.points = 0 /\ x.tests = NoTests
  BY <1>2 DEF Submission
<1> HIDE DEF x
<1>4. /\ subs' \in Seq(Submission) /\ Len(subs') = n /\ subs' # <<>>
      /\ \A j \in DOMAIN subs : subs'[j] = subs[j]
      /\ subs'[n] = x /\ DOMAIN subs' = 1 .. n
  <2>1. /\ Append(subs, x) \in Seq(Submission) /\ Append(subs, x) # <<>>
        /\ Len(Append(subs, x)) = Len(subs) + 1
        /\ \A j \in 1 .. Len(subs) : Append(subs, x)[j] = subs[j]
        /\ Append(subs, x)[Len(subs) + 1] = x
    BY <1>2, <1>3, AppendProperties
  <2>2. QED
    BY <1>1, <1>2, <2>1, LenProperties
<1>5. DOMAIN subs' = DOMAIN subs \cup {n}
  BY <1>2, <1>4
<1>6. SubsOK'
  <2>1. Len(subs') <= MaxSubs
    BY <1>1, <1>2, <1>4, ConstantsAre
  <2>2. ASSUME NEW j \in DOMAIN subs'
        PROVE  subs'[j].date = j /\ (subs'[j].status = "D" => subs'[j].tests \in Outcomes)
    <3>1. CASE j \in DOMAIN subs
      BY <1>1, <1>4, <3>1 DEF SubsOK
    <3>2. CASE j = n
      BY <1>3, <1>4, <3>2
    <3>3. QED
      BY <1>5, <3>1, <3>2
  <2>3. QED
    BY <1>4, <2>1, <2>2 DEF SubsOK
<1>7. TypeOK'
  <2>1. RowsTyped'
    BY <1>1, <1>5 DEF RowsTyped
  <2>2. FlagsTyped'
    BY <1>1 DEF FlagsTyped
  <2>3. QED
    BY <1>6, <2>1, <2>2 DEF TypeOK
<1>8. FullOK'
  <2>1. ASSUME NEW j \in DOMAIN subs', subs'[j].status = "D", j \notin overtaken
        PROVE  subs'[j].full \in {Points(subs'[j].tests), Rescored(subs'[j].tests)}
    BY <1>1, <1>3, <1>4, <1>5, <2>1 DEF FullOK
  <2>2. QED
    BY <1>1, <2>1 DEF FullOK, Points, Rescored, AllOrNothing, Partial
<1>9. PointsOK' /\ ReadOK'
  <2>1. ASSUME rejudges = 0, NEW j \in DOMAIN subs'
        PROVE  /\ subs'[j].tests = NoTests \/ subs'[j].status = "D"
               /\ \/ subs'[j].points = 0
                  \/ subs'[j].status = "D" /\ subs'[j].points = ContestPoints(subs'[j].tests)
    BY <1>1, <1>3, <1>4, <1>5, <2>1 DEF PointsOK
  <2>2. ASSUME NEW t \in Threads, Reads(t)
        PROVE  thread[t].sub \in DOMAIN subs /\ subs'[thread[t].sub] = subs[thread[t].sub]
    BY <1>1, <1>4, <2>2 DEF RowsTyped, Reads
  <2>3. ReadOK'
    BY <1>1, <2>2 DEF ReadOK, Reads
  <2>4. QED
    BY <1>1, <2>1, <2>2, <2>3 DEF PointsOK, ContestPoints, AllOrNothing, Partial, Reads
<1>10. RowsStay
  BY <1>1 DEF RowsStay, RowsTyped, At
<1>11. Pending'
  <2>1. n \in DOMAIN subs' /\ subs'[n].status = "QU"
    BY <1>3, <1>4, <1>5
  <2>2. QED
    BY <2>1 DEF Pending
<1>12. Grows
  <2>1. ASSUME NEW j \in DOMAIN subs
        PROVE  subs'[j] = subs[j] /\ subs[j].points \in Nat /\ j \in DOMAIN subs'
    BY <1>1, <1>4, <1>5, SubIs
  <2>2. QED
    BY <2>1 DEF Grows
<1>13. QED
  BY <1>6, <1>7, <1>8, <1>9, <1>10, <1>11, <1>12, RowsKept DEF Inv

\* What is left to show of a step that changes submission i.
LEMMA EditStep ==
  ASSUME Inv, NEW i, NEW x, Becomes(i, x), RowsStay, FlagsTyped',
         x.status = "D" /\ i \notin overtaken'
           => x.full \in {Points(x.tests), Rescored(x.tests)},
         \A t \in Threads : Reads(t)' =>
           \/ thread'[t].sub = i /\ thread'[t].tests = x.tests
           \/ /\ Reads(t) /\ thread'[t].sub = thread[t].sub /\ thread'[t].tests = thread[t].tests
              /\ thread[t].sub = i /\ i \notin overtaken' /\ x.status = "D"
                   => thread[t].tests = x.tests,
         rejudges' = 0 =>
           /\ x.tests = NoTests \/ x.status = "D"
           /\ x.points = 0 \/ (x.status = "D" /\ x.points = ContestPoints(x.tests))
           /\ overtaken' = {} => subs[i].points <= x.points
           /\ subs[i].status = "D" => x.status = "D" /\ x.tests = subs[i].tests,
         Pending' \/ failed'
  PROVE  Inv'
<1>1. /\ SubsOK /\ RowsTyped /\ FlagsTyped /\ FullOK /\ ReadOK /\ PointsOK
      /\ UNCHANGED <<format, part>> /\ overtaken \subseteq overtaken'
  BY DEF Inv, TypeOK, RowsStay
<1>2. /\ SubsOK' /\ DOMAIN subs' = DOMAIN subs /\ subs'[i] = x /\ i \in DOMAIN subs
      /\ \A j \in DOMAIN subs : j # i => subs'[j] = subs[j]
  BY <1>1, BecomesIs DEF Becomes
<1>3. TypeOK'
  <2>1. \A t \in Threads : Reads(t)' => thread'[t].sub \in DOMAIN subs
    BY <1>1, <1>2 DEF RowsTyped, Reads
  <2>2. RowsTyped'
    BY <1>1, <1>2, <2>1 DEF RowsTyped, RowsStay, Reads
  <2>3. QED
    BY <1>2, <2>2 DEF TypeOK
<1>4. FullOK'
  <2>1. ASSUME NEW j \in DOMAIN subs', subs'[j].status = "D", j \notin overtaken'
        PROVE  subs'[j].full \in {Points(subs'[j].tests), Rescored(subs'[j].tests)}
    BY <1>1, <1>2, <2>1 DEF FullOK
  <2>2. QED
    BY <1>1, <2>1 DEF FullOK, Points, Rescored, AllOrNothing, Partial
<1>5. PointsOK' /\ ReadOK'
  <2>0. rejudges' = 0 => rejudges = 0
    BY <1>1 DEF RowsStay, FlagsTyped
  <2>1. ASSUME rejudges' = 0, NEW j \in DOMAIN subs'
        PROVE  /\ subs'[j].tests = NoTests \/ subs'[j].status = "D"
               /\ \/ subs'[j].points = 0
                  \/ subs'[j].status = "D" /\ subs'[j].points = ContestPoints(subs'[j].tests)
    BY <1>1, <1>2, <2>0, <2>1 DEF PointsOK
  <2>2. ASSUME rejudges' = 0, NEW t \in Threads, Reads(t)'
        PROVE  \/ thread'[t].tests = NoTests
               \/ /\ subs'[thread'[t].sub].status = "D"
                  /\ subs'[thread'[t].sub].tests = thread'[t].tests
    <3>1. CASE thread'[t].sub = i /\ thread'[t].tests = x.tests
      BY <1>2, <2>2, <3>1
    <3>2. CASE Reads(t) /\ thread'[t].sub = thread[t].sub /\ thread'[t].tests = thread[t].tests
      <4> DEFINE j == thread[t].sub
      <4>1. /\ j \in DOMAIN subs
            /\ thread[t].tests = NoTests \/ (subs[j].status = "D" /\ subs[j].tests = thread[t].tests)
        BY <1>1, <2>0, <2>2, <3>2 DEF PointsOK, RowsTyped, Reads
      <4>2. subs[j].status = "D" => subs'[j].status = "D" /\ subs'[j].tests = subs[j].tests
        BY <1>2, <2>2, <4>1
      <4>3. QED
        BY <3>2, <4>1, <4>2
    <3>3. QED
      BY <2>2, <3>1, <3>2
  <2>3. ASSUME NEW t \in Threads, Reads(t)', thread'[t].sub \notin overtaken',
               subs'[thread'[t].sub].status = "D"
        PROVE  thread'[t].tests = subs'[thread'[t].sub].tests
    <3>1. CASE thread'[t].sub = i
      BY <1>2, <2>3, <3>1
    <3>2. CASE /\ Reads(t) /\ thread'[t].sub = thread[t].sub /\ thread'[t].tests = thread[t].tests
               /\ thread[t].sub # i
      <4> DEFINE j == thread[t].sub
      <4>1. j \in DOMAIN subs /\ j # i /\ j \notin overtaken
        BY <1>1, <2>3, <3>2 DEF RowsTyped, Reads
      <4>2. subs'[j] = subs[j]
        BY <1>2, <4>1
      <4>3. subs[j].status = "D" => thread[t].tests = subs[j].tests
        BY <1>1, <3>2, <4>1 DEF ReadOK
      <4>4. QED
        BY <2>3, <3>2, <4>2, <4>3
    <3>3. QED
      BY <2>3, <3>1, <3>2
  <2>4. ReadOK'
    BY <2>3 DEF ReadOK
  <2>5. PointsOK'
    BY <1>1, <2>1, <2>2 DEF PointsOK, ContestPoints, AllOrNothing, Partial
  <2>6. QED
    BY <2>4, <2>5
<1>6. ASSUME rejudges' = 0, overtaken' = {}
      PROVE  Grows
  <2>1. ASSUME NEW j \in DOMAIN subs
        PROVE  /\ j \in DOMAIN subs' /\ subs'[j].problem = subs[j].problem
               /\ subs[j].points <= subs'[j].points
               /\ subs[j].status = "D" => subs'[j].status = "D" /\ subs'[j].tests = subs[j].tests
    <3>1. CASE j = i
      BY <1>2, <1>6, <3>1 DEF Becomes
    <3>2. CASE j # i
      <4>1. subs[j].points \in Nat
        BY <1>1, SubIs
      <4>2. QED
        BY <1>2, <3>2, <4>1
    <3>3. QED
      BY <3>1, <3>2
  <2>2. QED
    BY <2>1 DEF Grows
<1>7. QED
  BY <1>2, <1>3, <1>4, <1>5, <1>6, RowsKept DEF Inv

\* A thread that is not about to save goes on to a step that is not one.
LEMMA GotoIs ==
  ASSUME RowsTyped, NEW t \in Threads, ~At(t, "save"),
         NEW step \in Step, step.at # "save", Goto(t, step)
  PROVE  /\ thread' \in [Threads -> Step] /\ thread'[t] = step
         /\ \A u \in Threads : u # t => thread'[u] = thread[u]
         /\ \A u \in Threads : /\ At(u, "save")' <=> At(u, "save")
                               /\ At(u, "save") => thread'[u] = thread[u]
<1>1. thread \in [Threads -> Step] /\ thread' = [thread EXCEPT ![t] = step]
  BY DEF RowsTyped, Goto
<1>2. /\ thread' \in [Threads -> Step] /\ thread'[t] = step
      /\ \A u \in Threads : u # t => thread'[u] = thread[u]
  BY <1>1
<1>3. ASSUME NEW u \in Threads
      PROVE  /\ At(u, "save")' <=> At(u, "save")
             /\ At(u, "save") => thread'[u] = thread[u]
  BY <1>2 DEF At
<1>4. QED
  BY <1>2, <1>3

\* A submission is judged again.
LEMMA RejudgeStep ==
  ASSUME Inv, NEW i \in DOMAIN subs, Rejudge(i)
  PROVE  Inv'
<1> DEFINE s == subs[i]
           x == [s EXCEPT !.status = "QU", !.tests = NoTests, !.full = 0]
<1>1. /\ SubsOK /\ RowsTyped /\ FlagsTyped /\ rejudges' = rejudges + 1
      /\ UNCHANGED <<format, part, decided, thread, raced, failed, overtaken, edits>>
  BY DEF Inv, TypeOK, Rejudge, NotTheRow
<1>2. s \in Submission
  BY <1>1, SubIs
<1>3. subs' = [subs EXCEPT ![i] = x]
  BY DEF Rejudge
<1>4. x \in Submission /\ x.date = s.date /\ x.problem = s.problem /\ x.status = "QU"
  <2> DEFINE none == NoTests
  <2>1. none \in Outcomes \cup {NoTests} /\ x = [s EXCEPT !.status = "QU", !.tests = none, !.full = 0]
    OBVIOUS
  <2> HIDE DEF s, x, none
  <2> DEFINE y == [s EXCEPT !.status = "QU"]
             z == [y EXCEPT !.tests = none]
  <2>2. y \in Submission /\ y.date = s.date /\ y.problem = s.problem /\ y.status = "QU"
    BY <1>2 DEF Submission
  <2>3. x = [z EXCEPT !.full = 0]
    BY <1>2, <2>1 DEF Submission
  <2> HIDE DEF y
  <2>4. z \in Submission /\ z.date = y.date /\ z.problem = y.problem /\ z.status = y.status
    BY <2>1, <2>2 DEF Submission
  <2> HIDE DEF z
  <2>5. x \in Submission /\ x.date = z.date /\ x.problem = z.problem /\ x.status = z.status
    BY <2>3, <2>4 DEF Submission
  <2>6. QED
    BY <2>2, <2>4, <2>5
<1> HIDE DEF x
<1>5. Becomes(i, x)
  BY <1>3, <1>4 DEF Becomes
<1>6. rejudges' # 0 /\ FlagsTyped'
  BY <1>1 DEF FlagsTyped
<1>7. RowsStay /\ \A t \in Threads : Reads(t)' => Reads(t) /\ thread'[t] = thread[t]
  BY <1>1 DEF RowsStay, RowsTyped, At, Reads
<1>8. Pending'
  <2>1. i \in DOMAIN subs' /\ subs'[i].status = "QU"
    BY <1>1, <1>4, <1>5, BecomesIs
  <2>2. QED
    BY <2>1 DEF Pending
<1>9. QED
  BY <1>4, <1>5, <1>6, <1>7, <1>8, EditStep

\* A submission ends in an error.
LEMMA FailStep ==
  ASSUME Inv, NEW i \in DOMAIN subs, NEW status \in {"CE", "IE"}, Fail(i, status)
  PROVE  Inv'
<1> DEFINE s == subs[i]
           x == [s EXCEPT !.status = status]
<1>1. /\ SubsOK /\ RowsTyped /\ FlagsTyped /\ PointsOK /\ failed' = TRUE
      /\ UNCHANGED <<format, part, decided, thread, raced, overtaken, rejudges, edits>>
  BY DEF Inv, TypeOK, Fail, NotTheRow
<1>2. s \in Submission /\ s.status = "QU" /\ s.points \in Nat
  BY <1>1, SubIs DEF Fail
<1>3. subs' = [subs EXCEPT ![i] = x]
  BY DEF Fail
<1>4. /\ x \in Submission /\ x.date = s.date /\ x.problem = s.problem /\ x.status = status
      /\ x.points = s.points /\ x.tests = s.tests
  <2>1. status \in {"QU", "D", "CE", "IE"}
    OBVIOUS
  <2> HIDE DEF s
  <2>2. x \in Submission
    BY <1>2, <2>1 DEF Submission
  <2>3. /\ x.date = s.date /\ x.problem = s.problem /\ x.points = s.points
        /\ x.tests = s.tests
    BY <1>2 DEF Submission
  <2>4. x.status = status
    BY <1>2 DEF Submission
  <2>5. QED
    BY <2>2, <2>3, <2>4
<1> HIDE DEF x
<1>5. Becomes(i, x) /\ x.status # "D"
  BY <1>3, <1>4 DEF Becomes
<1>6. FlagsTyped'
  BY <1>1 DEF FlagsTyped
<1>7. /\ RowsStay
      /\ \A t \in Threads : Reads(t)' => Reads(t) /\ thread'[t] = thread[t]
  BY <1>1 DEF RowsStay, RowsTyped, At, Reads
<1>8. rejudges' = 0 => x.tests = NoTests /\ x.points = 0 /\ s.points <= x.points
  BY <1>1, <1>2, <1>4 DEF PointsOK
<1>9. QED
  BY <1>1, <1>2, <1>5, <1>6, <1>7, <1>8, EditStep

\* A grading ends.
LEMMA GradingEndStep ==
  ASSUME Inv, NEW t \in Threads, NEW i \in DOMAIN subs, NEW tests \in Outcomes,
         GradingEnd(t, i, tests)
  PROVE  Inv'
<1> DEFINE s == subs[i]
           full == Points(tests)
           x == [s EXCEPT !.status = "D", !.tests = tests, !.full = full]
           step == [at |-> "points", sub |-> i, tests |-> tests]
<1>1. /\ SubsOK /\ RowsTyped /\ FlagsTyped /\ PointsOK /\ Goto(t, step) /\ thread[t] = Idle
      /\ overtaken \subseteq overtaken' /\ overtaken' \subseteq overtaken \cup {i}
      /\ (\E u \in Threads : UsesOldRead(u, i)) => i \in overtaken'
      /\ UNCHANGED <<format, part, decided, raced, failed, rejudges, edits>>
  BY DEF Inv, TypeOK, GradingEnd, NotTheRow
<1>2. s \in Submission /\ s.status = "QU" /\ s.points \in Nat /\ full \in Int
  BY <1>1, SubIs, PointsAre DEF GradingEnd
<1>3. subs' = [subs EXCEPT ![i] = x]
  BY DEF GradingEnd
<1>4. /\ x \in Submission /\ x.date = s.date /\ x.problem = s.problem /\ x.status = "D"
      /\ x.points = s.points /\ x.tests = tests /\ x.full = full
  <2> HIDE DEF s, full
  <2>1. QED
    BY <1>2 DEF Submission
<1> HIDE DEF x
<1>5. Becomes(i, x)
  BY <1>3, <1>4 DEF Becomes
<1>6. FlagsTyped'
  BY <1>1 DEF FlagsTyped
<1>7. i \in Nat /\ step \in Step /\ step.at = "points" /\ step.sub = i /\ step.tests = tests
  <2>1. i \in Nat
    BY <1>1, LenProperties DEF SubsOK
  <2>2. QED
    BY <2>1 DEF Step
<1> HIDE DEF step
<1>8. ~At(t, "save")
  BY <1>1 DEF At, Idle
<1>9. /\ thread' \in [Threads -> Step] /\ thread'[t] = step
      /\ \A u \in Threads : u # t => thread'[u] = thread[u]
      /\ \A u \in Threads : /\ At(u, "save")' <=> At(u, "save")
                            /\ At(u, "save") => thread'[u] = thread[u]
  BY <1>1, <1>7, <1>8, GotoIs
<1>10. RowsStay
  BY <1>1, <1>9 DEF RowsStay, FlagsTyped
<1>11. ASSUME NEW u \in Threads, Reads(u)'
       PROVE  \/ thread'[u].sub = i /\ thread'[u].tests = x.tests
              \/ /\ Reads(u) /\ thread'[u].sub = thread[u].sub
                 /\ thread'[u].tests = thread[u].tests
                 /\ thread[u].sub = i => i \in overtaken'
  <2>1. CASE u = t
    BY <1>4, <1>7, <1>9, <2>1
  <2>2. CASE u # t
    <3>1. Reads(u) /\ thread'[u] = thread[u]
      BY <1>9, <1>11, <2>2 DEF Reads
    <3>2. thread[u].sub = i => UsesOldRead(u, i)
      BY <3>1 DEF Reads, UsesOldRead
    <3>3. QED
      BY <1>1, <3>1, <3>2
  <2>3. QED
    BY <2>1, <2>2
<1>12. Pending'
  BY <1>7, <1>9 DEF Pending, At
<1>13. rejudges' = 0 => x.points = 0 /\ s.points <= x.points
  BY <1>1, <1>2, <1>4 DEF PointsOK
<1>14. QED
  BY <1>1, <1>2, <1>4, <1>5, <1>6, <1>10, <1>11, <1>12, <1>13, EditStep

\* A submission is read, to be rescored.
LEMMA RescoreStep ==
  ASSUME Inv, NEW t \in Threads, NEW i \in DOMAIN subs, Rescore(t, i)
  PROVE  Inv'
<1> DEFINE x == subs[i]
           tests == x.tests
           step == [at |-> "rescore", sub |-> i, tests |-> tests]
<1>1. /\ SubsOK /\ RowsTyped /\ FlagsTyped /\ FullOK /\ ReadOK /\ PointsOK
      /\ Goto(t, step) /\ thread[t] = Idle /\ edits' = edits + 1
      /\ UNCHANGED <<format, part, subs, decided, raced, failed, overtaken, rejudges>>
  BY DEF Inv, TypeOK, Rescore, NotTheRow
<1>2. /\ x \in Submission /\ x.points \in Nat /\ (x.status = "D" => tests \in Outcomes)
      /\ tests \in Outcomes \cup {NoTests}
  BY <1>1, SubIs DEF Submission
<1>3. Becomes(i, x)
  <2>1. subs' = [subs EXCEPT ![i] = x]
    BY <1>1 DEF SubsOK
  <2>2. QED
    BY <1>2, <2>1 DEF Becomes
<1>4. FlagsTyped'
  BY <1>1 DEF FlagsTyped
<1>5. i \in Nat /\ step \in Step /\ step.at = "rescore" /\ step.sub = i /\ step.tests = tests
  <2>1. i \in Nat
    BY <1>1, LenProperties DEF SubsOK
  <2> HIDE DEF tests
  <2>2. QED
    BY <1>2, <2>1 DEF Step
<1> HIDE DEF step
<1>6. ~At(t, "save")
  BY <1>1 DEF At, Idle
<1>7. /\ thread' \in [Threads -> Step] /\ thread'[t] = step
      /\ \A u \in Threads : u # t => thread'[u] = thread[u]
      /\ \A u \in Threads : /\ At(u, "save")' <=> At(u, "save")
                            /\ At(u, "save") => thread'[u] = thread[u]
  BY <1>1, <1>5, <1>6, GotoIs
<1>8. RowsStay
  BY <1>1, <1>7 DEF RowsStay, FlagsTyped
<1>9. ASSUME NEW u \in Threads, Reads(u)'
      PROVE  \/ thread'[u].sub = i /\ thread'[u].tests = x.tests
             \/ /\ Reads(u) /\ thread'[u].sub = thread[u].sub
                /\ thread'[u].tests = thread[u].tests
                /\ thread[u].sub = i /\ i \notin overtaken' /\ x.status = "D"
                     => thread[u].tests = x.tests
  <2>1. CASE u = t
    BY <1>5, <1>7, <2>1
  <2>2. CASE u # t
    <3>1. Reads(u) /\ thread'[u] = thread[u]
      BY <1>7, <1>9, <2>2 DEF Reads
    <3>2. thread[u].sub = i /\ i \notin overtaken /\ x.status = "D" => thread[u].tests = x.tests
      BY <1>1, <3>1 DEF ReadOK
    <3>3. QED
      BY <1>1, <3>1, <3>2
  <2>3. QED
    BY <2>1, <2>2
<1>10. Pending'
  BY <1>5, <1>7 DEF Pending, At
<1>11. x.status = "D" /\ i \notin overtaken' => x.full \in {Points(x.tests), Rescored(x.tests)}
  BY <1>1 DEF FullOK
<1>12. rejudges' = 0 =>
         /\ x.tests = NoTests \/ x.status = "D"
         /\ x.points = 0 \/ (x.status = "D" /\ x.points = ContestPoints(x.tests))
  BY <1>1 DEF PointsOK
<1>13. x.points <= x.points
  BY <1>2
<1> HIDE DEF x
<1>14. subs[i] = x
  BY DEF x
<1>15. QED
  BY <1>3, <1>4, <1>8, <1>9, <1>10, <1>11, <1>12, <1>13, <1>14, EditStep

\* The submission that was read is rescored.
LEMMA SaveRescoredStep ==
  ASSUME Inv, NEW t \in Threads, SaveRescored(t)
  PROVE  Inv'
<1> DEFINE i == thread[t].sub
           s == subs[i]
           tests == thread[t].tests
           full == Rescored(tests)
           x == [s EXCEPT !.full = full]
           step == [at |-> "points", sub |-> i, tests |-> tests]
<1>1. /\ SubsOK /\ RowsTyped /\ FlagsTyped /\ ReadOK /\ PointsOK
      /\ Goto(t, step) /\ At(t, "rescore") /\ Reads(t)
      /\ UNCHANGED <<format, part, decided, raced, failed, overtaken, rejudges, edits>>
  BY DEF Inv, TypeOK, SaveRescored, NotTheRow, At, Reads
<1>2. i \in DOMAIN subs /\ tests \in Outcomes \cup {NoTests}
  <2>1. thread[t] \in Step
    BY <1>1 DEF RowsTyped
  <2>2. thread[t].tests \in Outcomes \cup {NoTests}
    BY <1>1, <2>1 DEF Step, At, Idle
  <2>3. QED
    BY <1>1, <2>2 DEF RowsTyped, At
<1>3. /\ s \in Submission /\ s.points \in Nat /\ full \in Int
      /\ s.status = "D" => s.tests \in Outcomes
  BY <1>1, <1>2, SubIs, PointsAre, NoTestsAre
<1>4. subs' = [subs EXCEPT ![i] = x]
  BY DEF SaveRescored
<1>5. /\ x \in Submission /\ x.date = s.date /\ x.problem = s.problem /\ x.status = s.status
      /\ x.points = s.points /\ x.tests = s.tests /\ x.full = full
  <2> HIDE DEF s, full
  <2>1. QED
    BY <1>3 DEF Submission
<1> HIDE DEF x
<1>6. Becomes(i, x)
  BY <1>2, <1>3, <1>4, <1>5 DEF Becomes
<1>7. FlagsTyped'
  BY <1>1 DEF FlagsTyped
<1>8. i \in Nat /\ step \in Step /\ step.at = "points" /\ step.sub = i /\ step.tests = tests
  <2>1. i \in Nat
    BY <1>1, <1>2, LenProperties DEF SubsOK
  <2> HIDE DEF tests, i
  <2>2. QED
    BY <1>2, <2>1 DEF Step
<1> HIDE DEF step
<1>9. ~At(t, "save")
  BY <1>1 DEF At
<1>10. /\ thread' \in [Threads -> Step] /\ thread'[t] = step
       /\ \A u \in Threads : u # t => thread'[u] = thread[u]
       /\ \A u \in Threads : /\ At(u, "save")' <=> At(u, "save")
                             /\ At(u, "save") => thread'[u] = thread[u]
  BY <1>1, <1>8, <1>9, GotoIs
<1>11. RowsStay
  BY <1>1, <1>10 DEF RowsStay, FlagsTyped
<1>12. ASSUME NEW u \in Threads, Reads(u)'
       PROVE  /\ Reads(u) /\ thread'[u].sub = thread[u].sub
              /\ thread'[u].tests = thread[u].tests
              /\ thread[u].sub = i /\ i \notin overtaken' /\ x.status = "D"
                   => thread[u].tests = x.tests
  <2>1. Reads(u) /\ thread'[u].sub = thread[u].sub /\ thread'[u].tests = thread[u].tests
    BY <1>1, <1>8, <1>10, <1>12 DEF Reads
  <2>2. thread[u].sub = i /\ i \notin overtaken /\ s.status = "D" => thread[u].tests = s.tests
    BY <1>1, <2>1 DEF ReadOK
  <2>3. QED
    BY <1>1, <1>5, <2>1, <2>2
<1>13. Pending'
  BY <1>8, <1>10 DEF Pending, At
<1>14. x.status = "D" /\ i \notin overtaken' => x.full \in {Points(x.tests), Rescored(x.tests)}
  <2>1. s.status = "D" /\ i \notin overtaken => tests = s.tests
    BY <1>1 DEF ReadOK
  <2>2. QED
    BY <1>1, <1>5, <2>1
<1>15. rejudges' = 0 =>
         /\ x.tests = NoTests \/ x.status = "D"
         /\ x.points = 0 \/ (x.status = "D" /\ x.points = ContestPoints(x.tests))
         /\ s.points <= x.points
  BY <1>1, <1>2, <1>3, <1>5 DEF PointsOK
<1>16. QED
  BY <1>5, <1>6, <1>7, <1>11, <1>12, <1>13, <1>14, <1>15, EditStep

\* The contest is told the points.
LEMMA SetPointsStep ==
  ASSUME Inv, NEW t \in Threads, SetPoints(t)
  PROVE  Inv'
<1> DEFINE i == thread[t].sub
           s == subs[i]
           tests == thread[t].tests
           points == ContestPoints(tests)
           x == [s EXCEPT !.points = points]
           step == [at |-> "load"]
<1>1. /\ SubsOK /\ RowsTyped /\ FlagsTyped /\ ReadOK /\ PointsOK /\ FullOK /\ Goto(t, step)
      /\ At(t, "points") /\ Reads(t)
      /\ UNCHANGED <<format, part, decided, raced, failed, overtaken, rejudges, edits>>
  BY DEF Inv, TypeOK, SetPoints, NotTheRow, At, Reads
<1>2. i \in DOMAIN subs /\ tests \in Outcomes \cup {NoTests}
  <2>1. thread[t] \in Step
    BY <1>1 DEF RowsTyped
  <2>2. thread[t].tests \in Outcomes \cup {NoTests}
    BY <1>1, <2>1 DEF Step, At, Idle
  <2>3. QED
    BY <1>1, <2>2 DEF RowsTyped, At
<1>3. /\ s \in Submission /\ s.points \in Nat /\ points \in Nat
      /\ s.status = "D" => s.tests \in Outcomes
  BY <1>1, <1>2, SubIs, PointsAre, NoTestsAre
<1>4. subs' = [subs EXCEPT ![i] = x]
  BY DEF SetPoints
<1>5. /\ x \in Submission /\ x.date = s.date /\ x.problem = s.problem /\ x.status = s.status
      /\ x.points = points /\ x.tests = s.tests /\ x.full = s.full
  <2> HIDE DEF s, points
  <2>1. QED
    BY <1>3 DEF Submission
<1> HIDE DEF x
<1>6. Becomes(i, x)
  BY <1>2, <1>3, <1>4, <1>5 DEF Becomes
<1>7. FlagsTyped'
  BY <1>1 DEF FlagsTyped
<1>8. step \in Step /\ step.at = "load"
  BY DEF Step
<1> HIDE DEF step
<1>9. ~At(t, "save")
  BY <1>1 DEF At
<1>10. /\ thread' \in [Threads -> Step] /\ thread'[t] = step
       /\ \A u \in Threads : u # t => thread'[u] = thread[u]
       /\ \A u \in Threads : /\ At(u, "save")' <=> At(u, "save")
                             /\ At(u, "save") => thread'[u] = thread[u]
  BY <1>1, <1>8, <1>9, GotoIs
<1>11. RowsStay
  BY <1>1, <1>10 DEF RowsStay, FlagsTyped
<1>12. ASSUME NEW u \in Threads, Reads(u)'
       PROVE  /\ Reads(u) /\ thread'[u].sub = thread[u].sub
              /\ thread'[u].tests = thread[u].tests
              /\ thread[u].sub = i /\ i \notin overtaken' /\ x.status = "D"
                   => thread[u].tests = x.tests
  <2>1. u # t
    BY <1>8, <1>10, <1>12 DEF Reads
  <2>2. Reads(u) /\ thread'[u] = thread[u]
    BY <1>10, <1>12, <2>1 DEF Reads
  <2>3. thread[u].sub = i /\ i \notin overtaken /\ s.status = "D" => thread[u].tests = s.tests
    BY <1>1, <2>2 DEF ReadOK
  <2>4. QED
    BY <1>1, <1>5, <2>2, <2>3
<1>13. Pending'
  BY <1>8, <1>10 DEF Pending, At
<1>14. ASSUME rejudges' = 0
       PROVE  /\ x.tests = NoTests \/ x.status = "D"
              /\ x.points = 0 \/ (x.status = "D" /\ x.points = ContestPoints(x.tests))
              /\ overtaken' = {} => s.points <= x.points
  <2>1. /\ s.tests = NoTests \/ s.status = "D"
        /\ s.points = 0 \/ (s.status = "D" /\ s.points = ContestPoints(s.tests))
        /\ tests = NoTests \/ (s.status = "D" /\ s.tests = tests)
    BY <1>1, <1>2, <1>14 DEF PointsOK
  <2>2. points = 0 \/ (s.status = "D" /\ points = ContestPoints(s.tests))
    BY <2>1, NoTestsAre
  <2>3. ASSUME overtaken' = {}
        PROVE  s.points <= points
    <3>1. s.status = "D" => tests = s.tests
      BY <1>1, <2>3 DEF ReadOK
    <3>2. CASE s.points = 0
      BY <1>3, <3>2
    <3>3. CASE s.status = "D" /\ s.points = ContestPoints(s.tests)
      BY <1>3, <3>1, <3>3
    <3>4. QED
      BY <2>1, <3>2, <3>3
  <2>4. QED
    BY <1>5, <2>1, <2>2, <2>3
<1>15. x.status = "D" /\ i \notin overtaken' => x.full \in {Points(x.tests), Rescored(x.tests)}
  BY <1>1, <1>2, <1>5 DEF FullOK
<1>16. QED
  BY <1>1, <1>5, <1>6, <1>7, <1>11, <1>12, <1>13, <1>14, <1>15, EditStep

-----------------------------------------------------------------------------
(* Steps of the row.                                                       *)

\* A step that leaves the submissions alone and lets no thread on to set points.
LEMMA SubsKept ==
  ASSUME Inv, UNCHANGED <<format, subs, overtaken, rejudges>>,
         \A t \in Threads : Reads(t)' => Reads(t) /\ thread'[t] = thread[t]
  PROVE  SubsOK' /\ FullOK' /\ ReadOK' /\ PointsOK'
<1>1. SubsOK /\ FullOK /\ ReadOK /\ PointsOK
  BY DEF Inv, TypeOK
<1>2. SubsOK'
  BY <1>1 DEF SubsOK
<1>3. FullOK'
  BY <1>1 DEF FullOK, Points, Rescored, AllOrNothing, Partial
<1>4. ReadOK'
  BY <1>1 DEF ReadOK
<1>5. PointsOK'
  <2>1. ASSUME rejudges = 0, NEW t \in Threads, Reads(t)'
        PROVE  \/ thread'[t].tests = NoTests
               \/ /\ subs[thread'[t].sub].status = "D"
                  /\ subs[thread'[t].sub].tests = thread'[t].tests
    BY <1>1, <2>1 DEF PointsOK
  <2>2. QED
    BY <1>1, <2>1 DEF PointsOK, ContestPoints, AllOrNothing, Partial
<1>6. QED
  BY <1>2, <1>3, <1>4, <1>5

\* The row is recomputed: from its own flag, or to change it.
LEMMA ComputeStep ==
  ASSUME Inv, NEW t \in Threads, NEW dq \in BOOLEAN, Compute(t, dq), ~At(t, "save"),
         edits' \in Nat, decided' \in BOOLEAN,
         ~raced' => (decided' <=> dq)
  PROVE  Inv'
<1> DEFINE row == Recomputed(dq)
           step == [at |-> "save", row |-> row]
<1>1. /\ SubsOK /\ RowsTyped /\ FlagsTyped /\ PointsOK /\ RowsOK /\ OneSaves /\ ScoresOK
      /\ Goto(t, step) /\ raced' = (raced \/ \E u \in Threads : At(u, "save"))
      /\ UNCHANGED <<format, part, subs, failed, overtaken, rejudges>>
  BY DEF Inv, TypeOK, Compute, At
<1>2. /\ row \in TheRow /\ (row.dq <=> dq)
      /\ dq => row.score = -9999
      /\ ~dq => row.score = Results.score /\ Results.score >= 0
      /\ Rated => row.cumtime >= 0
  BY <1>1, RecomputedIs DEF FlagsTyped
<1>3. Results' = Results /\ \A b \in BOOLEAN : Recomputed(b)' = Recomputed(b)
  BY <1>1, ResultsStay
<1> HIDE DEF row
<1>4. step \in Step /\ step.at = "save" /\ step.row = row
  BY <1>2 DEF Step
<1> HIDE DEF step
<1>5. /\ thread' \in [Threads -> Step] /\ thread'[t] = step
      /\ \A u \in Threads : u # t => thread'[u] = thread[u]
  BY <1>1, <1>4 DEF RowsTyped, Goto
<1>6. /\ At(t, "save")'
      /\ \A u \in Threads : u # t => (At(u, "save")' <=> At(u, "save"))
      /\ \A u \in Threads : Reads(u)' => Reads(u) /\ thread'[u] = thread[u]
  BY <1>4, <1>5 DEF At, Reads
<1>7. SubsOK' /\ FullOK' /\ ReadOK' /\ PointsOK'
  BY <1>1, <1>6, SubsKept
<1>8. TypeOK'
  <2>1. RowsTyped'
    BY <1>1, <1>5, <1>6 DEF RowsTyped, Reads
  <2>2. FlagsTyped'
    BY <1>1 DEF FlagsTyped
  <2>3. QED
    BY <1>7, <2>1, <2>2 DEF TypeOK
<1>9. RowsOK'
  <2>1. RowOK(row)'
    <3>1. IF row.dq THEN row.score = -9999 ELSE row.score >= 0
      BY <1>2
    <3>2. rejudges = 0 => row.cumtime >= 0
      BY <1>1, <1>2, RatedIs
    <3>3. row' = row
      BY <1>3 DEF row
    <3>4. QED
      BY <1>1, <3>1, <3>2, <3>3 DEF RowOK
  <2>2. RowOK(part)'
    BY <1>1 DEF RowsOK, RowOK
  <2>3. ASSUME NEW u \in Threads, At(u, "save")'
        PROVE  RowOK(thread[u].row)'
    <3>1. CASE u = t
      <4>1. thread'[u].row = row /\ row' = row
        BY <1>3, <1>4, <1>5, <3>1 DEF row
      <4>2. QED
        BY <2>1, <4>1 DEF RowOK
    <3>2. CASE u # t
      <4>1. At(u, "save") /\ thread'[u] = thread[u]
        BY <1>5, <1>6, <2>3, <3>2
      <4>2. RowOK(thread[u].row)
        BY <1>1, <4>1 DEF RowsOK
      <4>3. QED
        BY <1>1, <4>1, <4>2 DEF RowOK
    <3>3. QED
      BY <3>1, <3>2
  <2>4. QED
    BY <2>2, <2>3 DEF RowsOK
<1>10. ASSUME ~raced', NEW u \in Threads, At(u, "save")'
       PROVE  u = t
  BY <1>1, <1>6, <1>10
<1>11. OneSaves'
  <2>1. ASSUME ~raced'
        PROVE  thread'[t].row.dq = decided'
    <3>1. thread'[t].row = row /\ row.dq \in BOOLEAN
      BY <1>2, <1>4, <1>5 DEF TheRow
    <3>2. row.dq <=> decided'
      BY <1>2, <2>1
    <3>3. QED
      BY <3>1, <3>2
  <2>2. ~NoneSaves'
    BY <1>6 DEF NoneSaves
  <2>3. ASSUME ~raced'
        PROVE  /\ \A v, u \in Threads : At(v, "save")' /\ At(u, "save")' => v = u
               /\ \A u \in Threads : At(u, "save")' => thread'[u].row.dq = decided'
    BY <1>10, <2>1, <2>3
  <2>4. QED
    BY <2>2, <2>3 DEF OneSaves
<1>12. CurrentOK'
  <2>1. ASSUME ~raced'
        PROVE  At(t, "save")' /\ thread'[t].row = Recomputed(decided)'
    <3>1. decided' = dq
      BY <2>1
    <3>2. Recomputed(decided)' = Recomputed(dq)'
      BY <3>1 DEF Recomputed
    <3>3. thread'[t].row = row /\ Recomputed(dq)' = Recomputed(dq)
      BY <1>3, <1>4, <1>5
    <3>4. QED
      BY <1>6, <3>2, <3>3 DEF row
  <2>2. QED
    BY <2>1 DEF CurrentOK
<1>13. ScoresOK'
  <2>1. SUFFICES ASSUME ~raced', rejudges = 0, overtaken = {}, format # "ecoo"
                 PROVE  ScoresOK'
    BY <1>1 DEF ScoresOK
  <2>2. ~part.dq => part.score <= Results.score
    BY <1>1, <2>1 DEF ScoresOK
  <2>3. thread'[t].row = row /\ \A u \in Threads : At(u, "save")' => u = t
    BY <1>4, <1>5, <1>10, <2>1
  <2>4. ~row.dq => row.score = Results.score /\ row.score \in Int
    BY <1>2 DEF TheRow
  <2>5. ASSUME NEW u \in Threads, At(u, "save")', ~thread'[u].row.dq
        PROVE  /\ thread'[u].row.score <= (Results.score)'
               /\ ~part'.dq => part'.score <= thread'[u].row.score
    <3>1. thread'[u].row = row /\ ~row.dq
      BY <2>3, <2>5
    <3>2. (Results.score)' = Results.score
      BY <1>3
    <3>3. QED
      BY <1>1, <2>2, <2>4, <3>1, <3>2
  <2>6. ~part'.dq => part'.score <= (Results.score)'
    BY <1>1, <1>3, <2>2
  <2>7. QED
    BY <2>5, <2>6 DEF ScoresOK
<1>14. QED
  BY <1>7, <1>8, <1>9, <1>11, <1>12, <1>13 DEF Inv

\* The row is loaded and recomputed.
LEMMA LoadStep ==
  ASSUME Inv, NEW t \in Threads, Load(t)
  PROVE  Inv'
<1>1. /\ OneSaves /\ RowsTyped /\ FlagsTyped /\ At(t, "load") /\ Compute(t, part.dq)
      /\ UNCHANGED <<decided, edits>>
  BY DEF Inv, TypeOK, Load, At
<1>2. part.dq \in BOOLEAN /\ ~At(t, "save") /\ edits' \in Nat /\ decided' \in BOOLEAN
  BY <1>1 DEF RowsTyped, FlagsTyped, TheRow, At
<1>3. ASSUME ~raced'
      PROVE  decided' <=> part.dq
  <2>1. ~raced /\ NoneSaves
    BY <1>1, <1>3 DEF Compute, NoneSaves, At
  <2>2. QED
    BY <1>1, <2>1 DEF OneSaves
<1> DEFINE dq == part.dq
<1>4. dq \in BOOLEAN /\ Compute(t, dq) /\ (~raced' => (decided' <=> dq))
  BY <1>1, <1>2, <1>3
<1> HIDE DEF dq
<1>5. QED
  BY <1>2, <1>4, ComputeStep

\* The participation is disqualified, or no longer.
LEMMA SetDisqualifiedStep ==
  ASSUME Inv, NEW t \in Threads, SetDisqualified(t)
  PROVE  Inv'
<1> DEFINE dq == ~part.dq
<1>1. /\ RowsTyped /\ FlagsTyped /\ thread[t] = Idle /\ Compute(t, dq)
      /\ decided' = dq /\ edits' = edits + 1
  BY DEF Inv, TypeOK, SetDisqualified
<1>2. dq \in BOOLEAN /\ ~At(t, "save") /\ edits' \in Nat
  BY <1>1 DEF RowsTyped, FlagsTyped, TheRow, At, Idle
<1> HIDE DEF dq
<1>3. QED
  BY <1>1, <1>2, ComputeStep

\* The row is written.
LEMMA SaveStep ==
  ASSUME Inv, NEW t \in Threads, Save(t)
  PROVE  /\ Inv'
         /\ part'.score < part.score =>
              \/ format = "ecoo" \/ rejudges > 0 \/ raced \/ overtaken # {}
              \/ part'.dq # part.dq
<1> DEFINE row == thread[t].row
<1>1. /\ SubsOK /\ RowsTyped /\ FlagsTyped /\ PointsOK /\ RowsOK /\ OneSaves /\ ScoresOK
      /\ CurrentOK /\ At(t, "save") /\ part' = row /\ Goto(t, Idle)
      /\ UNCHANGED <<format, subs, decided, raced, failed, overtaken, rejudges, edits>>
  BY DEF Inv, TypeOK, Save, At
<1>2. row \in TheRow
  <2>1. thread[t] \in Step
    BY <1>1 DEF RowsTyped
  <2>2. QED
    BY <1>1, <2>1 DEF Step, At, Idle
<1>3. Results' = Results /\ \A b \in BOOLEAN : Recomputed(b)' = Recomputed(b)
  BY <1>1, ResultsStay
<1>4. Idle \in Step /\ Idle.at = "idle"
  BY DEF Step, Idle
<1>5. /\ thread' \in [Threads -> Step] /\ thread'[t] = Idle
      /\ \A u \in Threads : u # t => thread'[u] = thread[u]
  BY <1>1, <1>4 DEF RowsTyped, Goto
<1>6. /\ ~At(t, "save")'
      /\ \A u \in Threads : u # t => /\ At(u, "save")' <=> At(u, "save")
                                     /\ At(u, "load")' <=> At(u, "load")
                                     /\ At(u, "rescore")' <=> At(u, "rescore")
                                     /\ At(u, "points")' <=> At(u, "points")
      /\ \A u \in Threads : Reads(u)' => Reads(u) /\ thread'[u] = thread[u]
  BY <1>4, <1>5 DEF At, Reads
<1>7. SubsOK' /\ FullOK' /\ ReadOK' /\ PointsOK'
  BY <1>1, <1>6, SubsKept
<1>8. TypeOK'
  <2>1. RowsTyped'
    BY <1>1, <1>2, <1>5, <1>6 DEF RowsTyped, Reads
  <2>2. FlagsTyped'
    BY <1>1 DEF FlagsTyped
  <2>3. QED
    BY <1>7, <2>1, <2>2 DEF TypeOK
<1>9. RowsOK'
  <2>1. RowOK(part)'
    <3>1. RowOK(row)
      BY <1>1 DEF RowsOK
    <3>2. QED
      BY <1>1, <3>1 DEF RowOK
  <2>2. ASSUME NEW u \in Threads, At(u, "save")'
        PROVE  RowOK(thread[u].row)'
    <3>1. u # t /\ At(u, "save") /\ thread'[u] = thread[u]
      BY <1>5, <1>6, <2>2
    <3>2. RowOK(thread[u].row)
      BY <1>1, <3>1 DEF RowsOK
    <3>3. QED
      BY <1>1, <3>1, <3>2 DEF RowOK
  <2>3. QED
    BY <2>1, <2>2 DEF RowsOK
<1>10. ASSUME ~raced
       PROVE  NoneSaves' /\ row.dq = decided
  <2>1. \A u \in Threads : At(u, "save") => u = t
    BY <1>1, <1>10 DEF OneSaves
  <2>2. QED
    BY <1>1, <1>6, <1>10, <2>1 DEF NoneSaves, OneSaves
<1>11. OneSaves'
  <2>1. ASSUME ~raced
        PROVE  part'.dq = decided' /\ \A u \in Threads : ~At(u, "save")'
    BY <1>1, <1>10, <2>1 DEF NoneSaves
  <2>2. QED
    BY <1>1, <2>1 DEF OneSaves
<1>12. CurrentOK'
  <2>1. SUFFICES ASSUME ~raced, ~failed, subs # <<>>, ~Pending'
                 PROVE  NoneSaves' /\ part' = Recomputed(decided)'
    BY <1>1 DEF CurrentOK
  <2>2. Pending => Pending'
    <3>1. ASSUME NEW u \in Threads, At(u, "rescore") \/ At(u, "points") \/ At(u, "load")
          PROVE  At(u, "rescore")' \/ At(u, "points")' \/ At(u, "load")'
      <4>1. u # t
        BY <1>1, <3>1 DEF At
      <4>2. QED
        BY <1>6, <3>1, <4>1
    <3>2. QED
      BY <1>1, <3>1 DEF Pending
  <2>3. ~NoneSaves
    BY <1>1 DEF NoneSaves
  <2>4. PICK u \in Threads : At(u, "save") /\ thread[u].row = Recomputed(decided)
    BY <1>1, <2>1, <2>2, <2>3 DEF CurrentOK
  <2>5. u = t
    BY <1>1, <2>1, <2>4 DEF OneSaves
  <2>6. Recomputed(decided)' = Recomputed(decided)
    BY <1>1, <1>3 DEF Recomputed
  <2>7. QED
    BY <1>1, <1>10, <2>1, <2>4, <2>5, <2>6
<1>13. ASSUME ~raced, rejudges = 0, overtaken = {}, format # "ecoo", ~row.dq
       PROVE  /\ row.score <= Results.score
              /\ ~part.dq => part.score <= row.score
  BY <1>1, <1>13 DEF ScoresOK
<1>14. ScoresOK'
  <2>1. SUFFICES ASSUME ~raced, rejudges = 0, overtaken = {}, format # "ecoo"
                 PROVE  ScoresOK'
    BY <1>1 DEF ScoresOK
  <2>2. ~row.dq => row.score <= (Results.score)'
    BY <1>3, <1>13, <2>1
  <2>3. \A u \in Threads : ~At(u, "save")'
    BY <1>10, <2>1 DEF NoneSaves
  <2>4. QED
    BY <1>1, <2>2, <2>3 DEF ScoresOK
<1>15. Inv'
  BY <1>7, <1>8, <1>9, <1>11, <1>12, <1>14 DEF Inv
<1>16. ASSUME row.score < part.score, format # "ecoo", ~(rejudges > 0), ~raced, overtaken = {},
              row.dq = part.dq
       PROVE  FALSE
  <2>1. rejudges = 0
    BY <1>1, <1>16 DEF FlagsTyped
  <2>2. row.score \in Int /\ part.score \in Int
    BY <1>1, <1>2 DEF RowsTyped, TheRow
  <2>3. CASE row.dq
    <3>1. row.score = -9999 /\ part.score = -9999
      BY <1>1, <1>16, <2>3 DEF RowsOK, RowOK
    <3>2. QED
      BY <1>16, <3>1
  <2>4. CASE ~row.dq
    BY <1>13, <1>16, <2>1, <2>2, <2>4
  <2>5. QED
    BY <2>3, <2>4
<1>17. QED
  BY <1>1, <1>15, <1>16

-----------------------------------------------------------------------------
(* The theorems.                                                           *)

\* A stuttering step keeps the invariant.
LEMMA StutterStep ==
  ASSUME Inv, UNCHANGED scoringVars
  PROVE  Inv'
<1>1. UNCHANGED <<format, subs, part, thread, decided, raced, failed, overtaken, rejudges, edits>>
  BY DEF scoringVars
<1>2. TypeOK'
  BY <1>1 DEF Inv, TypeOK, SubsOK, RowsTyped, FlagsTyped
<1>3. FullOK' /\ ReadOK' /\ PointsOK'
  <2>1. \A t \in Threads : Reads(t)' => Reads(t) /\ thread'[t] = thread[t]
    BY <1>1 DEF Reads
  <2>2. QED
    BY <1>1, <2>1, SubsKept
<1>4. Results' = Results /\ \A b \in BOOLEAN : Recomputed(b)' = Recomputed(b)
  BY <1>1, ResultsStay
<1>5. NoneSaves' = NoneSaves /\ Pending' = Pending
  BY <1>1 DEF NoneSaves, Pending, At
<1>6. RowsOK' /\ OneSaves'
  BY <1>1, <1>5 DEF Inv, RowsOK, RowOK, OneSaves, At
<1>7. CurrentOK'
  <2>1. Recomputed(decided)' = Recomputed(decided)
    BY <1>1, <1>4 DEF Recomputed
  <2>2. QED
    BY <1>1, <1>5, <2>1 DEF Inv, CurrentOK, At
<1>8. ScoresOK'
  BY <1>1, <1>4 DEF Inv, ScoresOK, At
<1>9. QED
  BY <1>2, <1>3, <1>6, <1>7, <1>8 DEF Inv

\* The invariant is inductive.
LEMMA StepOK ==
  ASSUME Inv, [Next]_scoringVars
  PROVE  Inv'
<1>1. CASE UNCHANGED scoringVars
  BY <1>1, StutterStep
<1>2. CASE Next
  <2>1. CASE \E p \in Problems : Submit(p)
    BY <2>1, SubmitStep
  <2>2. CASE \E i \in DOMAIN subs : Rejudge(i)
    BY <2>2, RejudgeStep
  <2>3. CASE \E i \in DOMAIN subs : \E status \in {"CE", "IE"} : Fail(i, status)
    BY <2>3, FailStep
  <2>4. CASE \E i \in DOMAIN subs, t \in Threads : Rescore(t, i)
    BY <2>4, RescoreStep
  <2>11. CASE \E t \in Threads : SaveRescored(t)
    BY <2>11, SaveRescoredStep
  <2>5. CASE \E i \in DOMAIN subs, t \in Threads, tests \in Outcomes : GradingEnd(t, i, tests)
    BY <2>5, GradingEndStep
  <2>6. CASE \E t \in Threads : SetPoints(t)
    BY <2>6, SetPointsStep
  <2>7. CASE \E t \in Threads : Load(t)
    BY <2>7, LoadStep
  <2>8. CASE \E t \in Threads : SetDisqualified(t)
    BY <2>8, SetDisqualifiedStep
  <2>9. CASE \E t \in Threads : Save(t)
    BY <2>9, SaveStep
  <2>10. QED
    BY <1>2, <2>1, <2>2, <2>3, <2>4, <2>5, <2>6, <2>7, <2>8, <2>9,
       <2>11 DEF Next
<1>3. QED
  BY <1>1, <1>2

\* It holds in the beginning.
LEMMA InitOK == Init => Inv
<1> SUFFICES ASSUME Init PROVE Inv
  OBVIOUS
<1>1. /\ format \in Formats /\ subs = <<>> /\ DOMAIN subs = {} /\ rejudges = 0 /\ edits = 0
      /\ part = [score |-> 0, cumtime |-> 0, tie |-> 0, dq |-> FALSE]
      /\ thread = [t \in Threads |-> Idle]
      /\ decided = FALSE /\ raced = FALSE /\ failed = FALSE /\ overtaken = {}
  BY DEF Init
<1>2. subs \in Seq(Submission) /\ Len(subs) <= MaxSubs
  BY <1>1, ConstantsAre
<1>3. SubsOK
  BY <1>1, <1>2 DEF SubsOK
<1>4. \A t \in Threads : thread[t] = Idle /\ ~At(t, "save") /\ ~Reads(t)
  BY <1>1 DEF At, Idle, Reads
<1>5. part \in TheRow /\ part.score = 0 /\ part.cumtime = 0 /\ ~part.dq /\ part.dq = FALSE
  BY <1>1 DEF TheRow
<1>6. TypeOK
  <2>1. RowsTyped
    BY <1>1, <1>4, <1>5 DEF RowsTyped, Step, Reads
  <2>2. FlagsTyped
    BY <1>1 DEF FlagsTyped
  <2>3. QED
    BY <1>3, <2>1, <2>2 DEF TypeOK
<1>7. FullOK /\ ReadOK /\ PointsOK /\ CurrentOK
  BY <1>1, <1>4 DEF FullOK, ReadOK, PointsOK, CurrentOK
<1>8. RowsOK
  BY <1>4, <1>5 DEF RowsOK, RowOK
<1>9. OneSaves
  BY <1>1, <1>4, <1>5 DEF OneSaves
<1>10. ScoresOK
  <2>1. Results.score \in Nat
    BY <1>1, <1>3, ResultsAre
  <2>2. QED
    BY <1>4, <1>5, <2>1 DEF ScoresOK
<1>11. QED
  BY <1>6, <1>7, <1>8, <1>9, <1>10 DEF Inv

\* It holds in every state.
LEMMA Invariant == Spec => []Inv
BY InitOK, StepOK, PTL DEF Spec

\* When everything is graded and no thread is at work, the row of a participation is what
\* its format makes of its submissions and of the last decision to disqualify it
\* (recompute_results), for any number of threads of the bridge and the site, unless two
\* of them recomputed at a time or a submission ended in an error.
THEOREM RowsAreCurrent == Spec => []RowIsCurrent
<1>1. Inv => RowIsCurrent
  <2>1. SUFFICES ASSUME Inv, AtRest, \A s \in All : s.status # "QU", ~raced, ~failed, subs # <<>>
                 PROVE  part = Recomputed(decided)
    BY DEF RowIsCurrent, Quiet
  <2>2. \A t \in Threads :
          ~At(t, "save") /\ ~At(t, "rescore") /\ ~At(t, "points") /\ ~At(t, "load")
    BY <2>1 DEF AtRest, At, Idle
  <2>3. \A i \in DOMAIN subs : subs[i].status # "QU"
    BY <2>1 DEF All
  <2>4. ~Pending
    BY <2>2, <2>3 DEF Pending
  <2>5. QED
    BY <2>1, <2>2, <2>4 DEF Inv, CurrentOK
<1>2. QED
  BY <1>1, Invariant, PTL

\* A disqualified participation has the score of one and another has not, whichever
\* threads save the row.
THEOREM DisqualifiedIsLowest == Spec => []DisqualifiedIsLast
<1>1. Inv => DisqualifiedIsLast
  BY DEF Inv, RowsOK, RowOK, DisqualifiedIsLast
<1>2. QED
  BY <1>1, Invariant, PTL

\* Without rejudges the time of a participation is never negative: the best submission
\* with points is among the tries the penalty counts.
THEOREM TimeStaysPositive == Spec => []TimeNotNegative
<1>1. Inv => TimeNotNegative
  BY DEF Inv, RowsOK, RowOK, TimeNotNegative
<1>2. QED
  BY <1>1, Invariant, PTL

\* Another submission never costs points, in the formats that count the best one, and the
\* rescoring of the problem (rescore_problem) does not unless a grading overtakes it.
THEOREM ScoresNeverDrop == Spec => ScoreNeverDrops
<1> DEFINE A == part'.score < part.score =>
                  \/ format = "ecoo" \/ rejudges > 0 \/ raced \/ overtaken # {}
                  \/ part'.dq # part.dq
<1>1. ASSUME Inv, [Next]_scoringVars
      PROVE  [A]_scoringVars
  <2>1. CASE \E t \in Threads : Save(t)
    BY <1>1, <2>1, SaveStep
  <2>2. CASE part' = part
    <3>1. part.score \in Int
      BY <1>1 DEF Inv, TypeOK, RowsTyped, TheRow
    <3>2. QED
      BY <2>2, <3>1
  <2>3. CASE Next /\ ~(\E t \in Threads : Save(t))
    <3>1. part' = part
      BY <2>3 DEF Next, Submit, Rejudge, Fail, Rescore, GradingEnd, SaveRescored,
                  SetPoints, Load, SetDisqualified, Compute, NotTheRow
    <3>2. QED
      BY <2>2, <3>1
  <2>4. QED
    BY <1>1, <2>1, <2>3
<1>2. QED
  BY <1>1, Invariant, PTL DEF Spec, ScoreNeverDrops

\* Whether graded (on_grading_end) or rescored (rescore_problem), a submission has all of
\* the points of its problem exactly if it passes all cases, although the two round
\* differently, unless its grading overtook a rescoring.
THEOREM FullOnlyIfComplete == Spec => []FullIffComplete
<1>1. Inv => FullIffComplete
  <2>1. SUFFICES ASSUME Inv, Worth % 100 = 0, Worth >= 100 * CaseTotal,
                         NEW i \in DOMAIN subs, subs[i].status = "D", i \notin overtaken
                 PROVE  subs[i].full >= Worth <=> CasePoints(subs[i].tests) = CaseTotal
    BY DEF FullIffComplete
  <2>2. subs[i].tests \in Outcomes
    BY <2>1 DEF Inv, TypeOK, SubsOK
  <2>3. subs[i].full \in {Points(subs[i].tests), Rescored(subs[i].tests)}
    BY <2>1 DEF Inv, FullOK
  <2>4. QED
    BY <2>1, <2>2, <2>3, WholePoints
<1>2. QED
  BY <1>1, Invariant, PTL

\* With one case outside of batches at most, the groups of the ioi format hold all points
\* of the cases.
LEMMA GroupsCover ==
  ASSUME NEW tests \in Outcomes, Cardinality(Unbatched) <= 1,
         NEW f, f = [g \in Groups |-> Min(InBatch(tests, g))]
  PROVE  CasePoints(tests) <= SumFunctionOnSet(f, Groups)
<1> DEFINE w == [b \in Batches |-> Min(InBatch(tests, b))]
           a == SumFunctionOnSet(tests, Unbatched)
           z == SumFunctionOnSet(w, Batches)
<1>1. CasePoints(tests) = a + z
  BY DEF CasePoints, SumFunction
<1>2. /\ \A g \in Groups : f[g] \in Nat
      /\ \A b \in Batches : b \in Groups /\ w[b] = f[b] /\ w[b] \in Nat
      /\ IsFiniteSet(Groups) /\ IsFiniteSet(Batches) /\ IsFiniteSet(Unbatched)
  BY CasesAre
<1>3. Batches = Groups \ {NoBatch}
  BY DEF Batches, Groups
<1>4. \A c \in Unbatched : tests[c] \in {0, 1} /\ c \in Cases /\ BatchOf[c] = NoBatch
  BY ScoringAssumption DEF Unbatched
<1> HIDE DEF w
<1>5. z \in Nat /\ z <= SumFunctionOnSet(f, Batches) /\ SumFunctionOnSet(f, Batches) \in Nat
  <2>1. \A b \in Batches : /\ w[b] \in Int /\ f[b] \in Nat
                           /\ w[b] <= 0 \/ (b \in Batches /\ w[b] <= f[b])
    BY <1>2
  <2>2. z <= SumFunctionOnSet(f, Batches) /\ SumFunctionOnSet(f, Batches) \in Nat
    BY <1>2, <2>1, SumLeq
  <2>3. z \in Nat
    BY <1>2, SumNat
  <2>4. QED
    BY <2>2, <2>3
<1>6. CASE Unbatched = {}
  <2>1. a = 0
    BY <1>6, FS_EmptySet, SumStep
  <2>2. NoBatch \notin Groups
    BY <1>6 DEF Groups, Unbatched
  <2>3. Batches = Groups
    BY <1>3, <2>2
  <2> HIDE DEF a, z
  <2>4. QED
    BY <1>1, <1>5, <2>1, <2>3
<1>7. CASE Unbatched # {}
  <2>1. Cardinality(Unbatched) = 1
    BY <1>2, <1>7, FS_CardinalityType, FS_EmptySet
  <2>2. PICK c : Unbatched = {c}
    BY <1>2, <2>1, FS_Singleton
  <2>3. a = tests[c] /\ tests[c] \in {0, 1}
    <3>1. \A x \in {c} : tests[x] \in Int
      BY <1>4, <2>2
    <3>2. SumFunctionOnSet(tests, {c}) = tests[c] + SumFunctionOnSet(tests, {c} \ {c})
      BY <3>1, FS_Singleton, SumTakes
    <3>3. {c} \ {c} = {} /\ SumFunctionOnSet(tests, {}) = 0
      BY FS_EmptySet, SumStep
    <3>4. QED
      BY <1>4, <2>2, <3>2, <3>3
  <2>4. NoBatch \in Groups /\ f[NoBatch] = tests[c]
    <3>1. NoBatch \in Groups
      BY <1>4, <2>2 DEF Groups
    <3>2. InBatch(tests, NoBatch) = {tests[c]}
      BY <1>4, <2>2 DEF InBatch, Unbatched
    <3>3. {tests[c]} \in SUBSET Nat /\ {tests[c]} # {}
      BY <2>3
    <3>4. Min({tests[c]}) \in {tests[c]}
      BY <3>3, MinIs
    <3>5. QED
      BY <3>1, <3>2, <3>4
  <2>5. SumFunctionOnSet(f, Groups) = f[NoBatch] + SumFunctionOnSet(f, Batches)
    <3>1. \A g \in Groups : f[g] \in Int
      BY <1>2
    <3>2. QED
      BY <1>2, <1>3, <2>4, <3>1, SumTakes
  <2> HIDE DEF a, z
  <2>6. QED
    BY <1>1, <1>5, <2>3, <2>4, <2>5
<1>8. QED
  BY <1>6, <1>7

\* Then a problem is worth as much to the ioi format as its best submission.
LEMMA IoiCovers ==
  ASSUME Inv, Cardinality(Unbatched) <= 1, ContestWorth = 1000 * CaseTotal, rejudges = 0
  PROVE  Ioi.score >= BestSum
<1> DEFINE b == [p \in Tried |-> Best(p)]
           c == [p \in Judged |-> IoiTotal(p)]
<1>1. SubsOK /\ PointsOK /\ BestFacts
  BY BestFactsHold DEF Inv, TypeOK
<1>2. /\ BestSum = SumFunctionOnSet(b, Tried) /\ Ioi.score = SumFunctionOnSet(c, Judged)
      /\ IsFiniteSet(Tried) /\ Judged \subseteq Tried
  BY <1>1 DEF BestFacts
<1>3. ASSUME NEW p \in Tried, Best(p) > 0
      PROVE  p \in Judged /\ Best(p) <= IoiTotal(p)
  <2>1. PICK s \in To(p) : s.points = Best(p)
    BY <1>1 DEF BestFacts
  <2>2. PICK i \in DOMAIN subs : s = subs[i]
    BY <1>1, AllAre
  <2>3. s.status = "D" /\ s.points = ContestPoints(s.tests) /\ s.tests \in Outcomes
    BY <1>1, <1>3, <2>1, <2>2, SubIs DEF PointsOK
  <2>4. s \in Graded(p) /\ p \in Judged
    BY <2>3 DEF Graded, Judged
  <2> DEFINE tests == s.tests
             f == [g \in Groups |-> Min(InBatch(tests, g))]
             h == [g \in Groups |-> Top(p, g)]
  <2>5. /\ ContestPoints(tests) <= 1000 * CasePoints(tests)
        /\ ContestPoints(tests) \in Nat /\ CasePoints(tests) \in Nat
    BY <2>3, PointsOfCases, PointsAre, CasePointsIs
  <2>6. CasePoints(tests) <= SumFunctionOnSet(f, Groups)
    BY <2>3, GroupsCover
  <2>7. ASSUME NEW g \in Groups
        PROVE  f[g] \in Nat /\ h[g] \in Nat /\ f[g] <= h[g]
    <3>1. f[g] = Group(s, g) /\ f[g] \in Nat
      BY <2>3, CasesAre DEF Group
    <3>2. QED
      BY <1>1, <2>4, <3>1 DEF BestFacts
  <2>8. IoiTotal(p) = 1000 * SumFunctionOnSet(h, Groups)
    BY <1>1 DEF BestFacts
  <2> HIDE DEF f, h, tests
  <2>9. /\ SumFunctionOnSet(f, Groups) \in Int /\ SumFunctionOnSet(h, Groups) \in Nat
        /\ SumFunctionOnSet(f, Groups) <= SumFunctionOnSet(h, Groups)
    BY <2>7, CasesAre, SumLeq
  <2>10. Best(p) = ContestPoints(tests)
    BY <2>1, <2>3 DEF tests
  <2>11. QED
    BY <2>4, <2>5, <2>6, <2>8, <2>9, <2>10
<1>4. \A p \in Tried : /\ b[p] \in Int
                       /\ b[p] <= 0 \/ (p \in Judged /\ b[p] <= c[p])
  <2>1. \A p \in Tried : b[p] = Best(p) /\ Best(p) \in Nat
    BY <1>1 DEF BestFacts
  <2>2. \A p \in Judged : c[p] = IoiTotal(p)
    OBVIOUS
  <2> HIDE DEF b, c
  <2>3. QED
    BY <1>3, <2>1, <2>2
<1>5. \A p \in Judged : c[p] \in Nat
  BY <1>1 DEF BestFacts
<1>6. IsFiniteSet(Judged)
  BY <1>2, FS_Subset
<1> HIDE DEF b, c
<1>7. BestSum <= Ioi.score /\ BestSum \in Int /\ Ioi.score \in Int
  BY <1>2, <1>4, <1>5, <1>6, SumLeq
<1>8. QED
  BY <1>7

\* The four queries for the best submissions to a problem (default.py, legacy_ioi.py,
\* icpc.py, atcoder.py) agree on the points, and three of them on the first that has them;
\* the ioi format, which takes all cases outside of batches for one batch, gives no fewer
\* points with one such case than the others.
THEOREM FormatsAreConsistent == Spec => []FormatsAgree
<1>1. ASSUME Inv
      PROVE  FormatsAgree
  <2>1. SubsOK
    BY <1>1 DEF Inv, TypeOK
  <2>2. ASSUME NEW p \in Tried
        PROVE  /\ LegacyIoiRow(p) = IcpcRow(p) /\ LegacyIoiRow(p) = AtCoderRow(p)
               /\ LegacyIoiRow(p).points = DefaultRow(p).points
    BY <2>1, RowsAre
  <2>3. ASSUME Cardinality(Unbatched) <= 1, ContestWorth = 1000 * CaseTotal, rejudges = 0
        PROVE  Ioi.score >= Default.score
    <3>1. Ioi.score >= BestSum
      BY <1>1, <2>3, IoiCovers
    <3>2. Default.score = BestSum
      BY <2>1, FormatRowsHold DEF FormatRows, Row
    <3>3. QED
      BY <3>1, <3>2
  <2>4. QED
    BY <2>2, <2>3 DEF FormatsAgree
<1>2. QED
  BY <1>1, Invariant, PTL

=============================================================================
