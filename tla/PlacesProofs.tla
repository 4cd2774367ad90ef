---------------------------- MODULE PlacesProofs ----------------------------
(***************************************************************************)
(* Lemmas about the definitions of Places, for any sequence and any finite  *)
(* set of numbers.  The references that the scanner and the readers are      *)
(* compared with stand on them, and the headers of a reply.                  *)
(*                                                                         *)
(* An induction is a choice of the least number for which a statement       *)
(* fails (LeastOf).                                                         *)
(***************************************************************************)
EXTENDS Places, FiniteSetTheorems, SequenceTheorems, WellFoundedInduction, TLAPS

\* Every set of natural numbers that is not empty has a least one.
LEMMA LeastOf ==
  ASSUME NEW T \in SUBSET Nat, T # {}
  PROVE  \E x \in T : \A y \in T : x <= y
<1>1. PICK x \in T : \A y \in T : ~(<<y, x>> \in OpToRel(<, Nat))
  BY NatLessThanWellFounded, WFMin
<1>2. \A y \in T : ~(y < x)
  BY <1>1 DEF OpToRel
<1> QED
  BY <1>2

-----------------------------------------------------------------------------
Rank(S, x) == Cardinality({y \in S : y <= x})

LEMMA RankType ==
  ASSUME NEW S \in SUBSET Int, IsFiniteSet(S), NEW x \in S
  PROVE  Rank(S, x) \in 1..Cardinality(S)
<1> DEFINE T == {y \in S : y <= x}
<1>1. T \in SUBSET S /\ x \in T
  OBVIOUS
<1>2. IsFiniteSet(T) /\ Cardinality(T) <= Cardinality(S) /\ Cardinality(T) \in Nat
      /\ Cardinality(S) \in Nat
  BY <1>1, FS_Subset, FS_CardinalityType
<1>3. Cardinality(T) # 0
  BY <1>1, <1>2, FS_EmptySet
<1> QED
  BY <1>2, <1>3 DEF Rank

LEMMA RankOrders ==
  ASSUME NEW S \in SUBSET Int, IsFiniteSet(S), NEW x \in S, NEW y \in S, x < y
  PROVE  Rank(S, x) < Rank(S, y)
<1> DEFINE T == {z \in S : z <= x}
           U == {z \in S : z <= y}
<1>0. \A z \in S : z \in Int
  OBVIOUS
<1>1. T \in SUBSET U /\ T # U /\ U \in SUBSET S
  <2>1. y \in U /\ y \notin T
    BY <1>0
  <2>2. \A z \in T : z \in U
    BY <1>0
  <2> QED
    BY <2>1, <2>2
<1>2. IsFiniteSet(U) /\ IsFiniteSet(T)
  BY <1>1, FS_Subset
<1>3. Cardinality(T) <= Cardinality(U) /\ Cardinality(T) # Cardinality(U)
  BY <1>1, <1>2, FS_Subset
<1>4. Cardinality(T) \in Nat /\ Cardinality(U) \in Nat
  BY <1>2, FS_CardinalityType
<1> QED
  BY <1>3, <1>4 DEF Rank

\* Ranks are given without a gap.
LEMMA RankOnto ==
  ASSUME NEW S \in SUBSET Int, IsFiniteSet(S), NEW k \in 1..Cardinality(S)
  PROVE  \E x \in S : Rank(S, x) = k
<1> DEFINE n == Cardinality(S)
           f == [x \in S |-> Rank(S, x)]
<1>1. n \in Nat
  BY FS_CardinalityType
<1>2. f \in [S -> 1..n]
  BY RankType
<1>3. \A x, y \in S : f[x] = f[y] => x = y
  <2> SUFFICES ASSUME NEW x \in S, NEW y \in S, f[x] = f[y], x # y PROVE FALSE
    OBVIOUS
  <2>1. x \in Int /\ y \in Int /\ (x < y \/ y < x)
    OBVIOUS
  <2>2. Rank(S, x) \in Int /\ Rank(S, y) \in Int /\ Rank(S, x) = Rank(S, y)
    BY RankType
  <2> QED
    BY <2>1, <2>2, RankOrders
<1>4. f \in Injection(S, 1..n)
  BY <1>2, <1>3 DEF Injection, IsInjective
<1>5. IsFiniteSet(1..n) /\ Cardinality(1..n) = n
  BY <1>1, FS_Interval
<1>6. f \in Surjection(S, 1..n)
  BY <1>4, <1>5, FS_Injection
<1>7. \E x \in S : f[x] = k
  BY <1>6 DEF Surjection
<1> QED
  BY <1>7

\* The elements in increasing order: each of them once, at the place of its rank.
LEMMA IncreasingFacts ==
  ASSUME NEW S \in SUBSET Int, IsFiniteSet(S)
  PROVE  /\ Cardinality(S) \in Nat
         /\ Increasing(S) \in Seq(S)
         /\ Len(Increasing(S)) = Cardinality(S)
         /\ DOMAIN Increasing(S) = 1..Cardinality(S)
         /\ \A k \in 1..Cardinality(S) :
               Increasing(S)[k] \in S /\ Rank(S, Increasing(S)[k]) = k
         /\ \A x \in S : Rank(S, x) \in 1..Cardinality(S) /\ Increasing(S)[Rank(S, x)] = x
         /\ \A i, j \in 1..Cardinality(S) : i < j => Increasing(S)[i] < Increasing(S)[j]
<1> DEFINE n == Cardinality(S)
<1>1. n \in Nat
  BY FS_CardinalityType
<1>2. \A k \in 1..n : Increasing(S)[k] = CHOOSE x \in S : Rank(S, x) = k
  BY DEF Increasing, Rank
<1>3. \A k \in 1..n : Increasing(S)[k] \in S /\ Rank(S, Increasing(S)[k]) = k
  BY <1>2, RankOnto
<1>4. Increasing(S) = [k \in 1..n |-> Increasing(S)[k]]
  BY SMTT(30) DEF Increasing
<1>5. Increasing(S) \in [1..n -> S]
  BY <1>3, <1>4
<1>6. Increasing(S) \in Seq(S) /\ Len(Increasing(S)) = n
  BY <1>1, <1>5
<1>7. \A x \in S : Rank(S, x) \in 1..n /\ Increasing(S)[Rank(S, x)] = x
  <2> SUFFICES ASSUME NEW x \in S
               PROVE  Rank(S, x) \in 1..n /\ Increasing(S)[Rank(S, x)] = x
    OBVIOUS
  <2>1. Rank(S, x) \in 1..n
    BY RankType
  <2> DEFINE y == Increasing(S)[Rank(S, x)]
  <2>2. y \in S /\ Rank(S, y) = Rank(S, x)
    BY <1>3, <2>1
  <2> HIDE DEF y
  <2>3. x < y \/ y < x \/ x = y
    <3>1. x \in Int /\ y \in Int
      BY <2>2
    <3> QED
      BY <3>1
  <2>4. Rank(S, y) \in Int /\ Rank(S, x) \in Int
    BY <2>1, <2>2
  <2>5. x = y
    BY <2>2, <2>3, <2>4, RankOrders
  <2> QED
    BY <2>1, <2>5 DEF y
<1>8. \A i, j \in 1..n : i < j => Increasing(S)[i] < Increasing(S)[j]
  <2> SUFFICES ASSUME NEW i \in 1..n, NEW j \in 1..n, i < j, ~(Increasing(S)[i] < Increasing(S)[j])
               PROVE  FALSE
    OBVIOUS
  <2> DEFINE x == Increasing(S)[i]
             y == Increasing(S)[j]
  <2>1. x \in S /\ y \in S /\ Rank(S, x) = i /\ Rank(S, y) = j
    BY <1>3
  <2> HIDE DEF x, y
  <2>2. x \in Int /\ y \in Int /\ ~(x < y)
    BY <2>1 DEF x, y
  <2>3. y < x \/ y = x
    BY <2>2
  <2> QED
    BY <2>1, <2>3, RankOrders
<1> QED
  BY <1>1, <1>3, <1>5, <1>6, <1>7, <1>8

\* A number that is larger than all others comes last.
LEMMA IncreasingAppend ==
  ASSUME NEW S \in SUBSET Int, IsFiniteSet(S), NEW m \in Int, \A x \in S : x < m
  PROVE  /\ IsFiniteSet(S \union {m})
         /\ Cardinality(S \union {m}) = Cardinality(S) + 1
         /\ Increasing(S \union {m}) = Append(Increasing(S), m)
<1> DEFINE T == S \union {m}
           n == Cardinality(S)
<1>1. m \notin S
  OBVIOUS
<1>2. IsFiniteSet(T) /\ Cardinality(T) = n + 1 /\ n \in Nat /\ T \in SUBSET Int
  BY <1>1, FS_AddElement, FS_CardinalityType
<1>3. \A x \in S : Rank(T, x) = Rank(S, x)
  <2> SUFFICES ASSUME NEW x \in S PROVE Rank(T, x) = Rank(S, x)
    OBVIOUS
  <2>1. {y \in T : y <= x} = {y \in S : y <= x}
    OBVIOUS
  <2> QED
    BY <2>1 DEF Rank
<1>4. Rank(T, m) = n + 1
  <2>1. \A y \in T : y <= m
    <3>1. \A y \in S : y \in Int
      OBVIOUS
    <3> QED
      BY <3>1
  <2>2. {y \in T : y <= m} = T
    BY <2>1
  <2> QED
    BY <1>2, <2>2 DEF Rank
<1> HIDE DEF T, n
<1>5. \A k \in 1..n : Increasing(T)[k] = Increasing(S)[k]
  <2> SUFFICES ASSUME NEW k \in 1..n PROVE Increasing(T)[k] = Increasing(S)[k]
    OBVIOUS
  <2> DEFINE x == Increasing(S)[k]
  <2>1. x \in S /\ Rank(S, x) = k
    BY IncreasingFacts DEF n
  <2>2. x \in T /\ Rank(T, x) = k
    BY <1>3, <2>1 DEF T
  <2> QED
    BY <1>2, <2>2, IncreasingFacts
<1>6. Increasing(T)[n + 1] = m
  <2>1. m \in T
    BY DEF T
  <2> QED
    BY <1>2, <1>4, <2>1, IncreasingFacts
<1>7. Increasing(T) \in Seq(T) /\ Len(Increasing(T)) = n + 1
  BY <1>2, IncreasingFacts
<1>8. Increasing(S) \in Seq(T) /\ Len(Increasing(S)) = n
  <2>1. Increasing(S) \in Seq(S) /\ Len(Increasing(S)) = n
    BY IncreasingFacts DEF n
  <2> QED
    BY <2>1 DEF T
<1>9. Append(Increasing(S), m) \in Seq(T) /\ Len(Append(Increasing(S), m)) = n + 1
      /\ \A k \in 1..n : Append(Increasing(S), m)[k] = Increasing(S)[k]
      /\ Append(Increasing(S), m)[n + 1] = m
  BY <1>2, <1>8 DEF T
<1>10. \A k \in 1..(n + 1) : Increasing(T)[k] = Append(Increasing(S), m)[k]
  BY <1>2, <1>5, <1>6, <1>9
<1>11. Increasing(T) = Append(Increasing(S), m)
  BY <1>2, <1>7, <1>9, <1>10
<1> QED
  BY <1>2, <1>11 DEF T, n

LEMMA NothingIncreasing ==
  Increasing({}) = <<>> /\ DOMAIN Increasing({}) = {} /\ Len(Increasing({})) = 0
<1>1. Cardinality({}) = 0
  BY FS_EmptySet
<1>2. Increasing({}) = [k \in {} |-> CHOOSE x \in {} : Cardinality({y \in {} : y <= x}) = k]
  BY <1>1 DEF Increasing
<1>3. Increasing({}) = <<>>
  BY <1>2
<1> QED
  BY <1>3

\* A function over the elements of a sequence, when the sequence grows by one.
LEMMA MapOfAppend ==
  ASSUME NEW S, NEW t \in Seq(S), NEW m \in S, NEW F, DOMAIN F = S
  PROVE  [r \in DOMAIN Append(t, m) |-> F[Append(t, m)[r]]]
            = Append([r \in DOMAIN t |-> F[t[r]]], F[m])
<1> DEFINE n == Len(t)
           V == {F[x] : x \in S}
           u == [r \in DOMAIN t |-> F[t[r]]]
           v == [r \in DOMAIN Append(t, m) |-> F[Append(t, m)[r]]]
<1>1. n \in Nat /\ DOMAIN t = 1..n /\ DOMAIN Append(t, m) = 1..(n + 1)
      /\ Append(t, m)[n + 1] = m
      /\ \A r \in 1..n : Append(t, m)[r] = t[r] /\ t[r] \in S
  OBVIOUS
<1>2. u \in [1..n -> V] /\ u \in Seq(V) /\ Len(u) = n /\ F[m] \in V
  <2>1. u \in [1..n -> V] /\ F[m] \in V
    BY <1>1
  <2> HIDE DEF u, V
  <2> QED
    BY <1>1, <2>1
<1>3. v \in [1..(n + 1) -> V]
  BY <1>1
<1>4. \A r \in 1..n : v[r] = u[r]
  BY <1>1
<1>5. v[n + 1] = F[m]
  BY <1>1
<1>6. /\ Append(u, F[m]) \in [1..(n + 1) -> V]
      /\ \A r \in 1..n : Append(u, F[m])[r] = u[r]
      /\ Append(u, F[m])[n + 1] = F[m]
  <2> DEFINE e == F[m]
  <2>1. u \in Seq(V) /\ Len(u) = n /\ e \in V /\ n \in Nat
    BY <1>1, <1>2
  <2> HIDE DEF u, V, n, e
  <2>2. Append(u, e) \in Seq(V) /\ Len(Append(u, e)) = n + 1
        /\ Append(u, e)[n + 1] = e /\ \A r \in 1..n : Append(u, e)[r] = u[r]
    BY <2>1
  <2>3. Append(u, e) \in [1..(n + 1) -> V]
    BY <2>2, LenProperties
  <2> QED
    BY <2>2, <2>3 DEF e
<1>7. \A r \in 1..(n + 1) : v[r] = Append(u, F[m])[r]
  <2> SUFFICES ASSUME NEW r \in 1..(n + 1) PROVE v[r] = Append(u, F[m])[r]
    OBVIOUS
  <2> HIDE DEF u, v
  <2>1. r \in 1..n \/ r = n + 1
    BY <1>1
  <2> QED
    BY <1>4, <1>5, <1>6, <2>1
<1> HIDE DEF u, v
<1> QED
  BY <1>3, <1>6, <1>7 DEF u, v

-----------------------------------------------------------------------------
(* What is kept of a sequence.                                              *)

LEMMA AtPlacesFacts ==
  ASSUME NEW E, NEW s \in Seq(E), NEW S \in SUBSET (1..Len(s))
  PROVE  /\ AtPlaces(s, S) \in Seq(E)
         /\ \A i \in S : Rank(S, i) \in 1..Len(AtPlaces(s, S))
                         /\ AtPlaces(s, S)[Rank(S, i)] = s[i]
         /\ \A k \in 1..Len(AtPlaces(s, S)) :
               \E i \in S : Rank(S, i) = k /\ AtPlaces(s, S)[k] = s[i]
<1> DEFINE n == Cardinality(S)
<1>1. Len(s) \in Nat /\ S \in SUBSET Int /\ \A i \in S : s[i] \in E
  BY LenProperties, ElementOfSeq
<1>2. IsFiniteSet(S)
  <2>1. IsFiniteSet(1..Len(s))
    BY <1>1, FS_Interval
  <2> QED
    BY <2>1, FS_Subset
<1>3. /\ n \in Nat
      /\ \A k \in 1..n : Increasing(S)[k] \in S /\ Rank(S, Increasing(S)[k]) = k
      /\ \A x \in S : Rank(S, x) \in 1..n /\ Increasing(S)[Rank(S, x)] = x
  BY <1>1, <1>2, IncreasingFacts
<1>4. AtPlaces(s, S) = [k \in 1..n |-> s[Increasing(S)[k]]]
  BY DEF AtPlaces
<1> HIDE DEF n
<1>5. AtPlaces(s, S) \in [1..n -> E]
  BY <1>1, <1>3, <1>4
<1>6. AtPlaces(s, S) \in Seq(E) /\ Len(AtPlaces(s, S)) = n
  BY <1>3, <1>5
<1>7. ASSUME NEW i \in S
      PROVE  Rank(S, i) \in 1..n /\ AtPlaces(s, S)[Rank(S, i)] = s[i]
  BY <1>3, <1>4
<1>8. ASSUME NEW k \in 1..n
      PROVE  \E i \in S : Rank(S, i) = k /\ AtPlaces(s, S)[k] = s[i]
  BY <1>3, <1>4
<1> QED
  BY <1>6, <1>7, <1>8

\* What stands at the positions from a to b.
LEMMA AtPlacesInterval ==
  ASSUME NEW E, NEW s \in Seq(E), NEW a \in 1..Len(s), NEW b \in a..Len(s)
  PROVE  AtPlaces(s, a..b) = SubSeq(s, a, b)
<1> DEFINE S == a..b
           n == b - a + 1
<1>1. Len(s) \in Nat /\ a \in Nat /\ b \in Nat /\ a <= b /\ n \in Nat
  BY LenProperties
<1>2. IsFiniteSet(S) /\ Cardinality(S) = n /\ S \in SUBSET Int
  BY <1>1, FS_Interval
<1>3. ASSUME NEW k \in 1..n PROVE Increasing(S)[k] = a + k - 1
  <2> DEFINE x == a + k - 1
  <2>1. x \in S /\ x \in Int
    BY <1>1
  <2>2. {y \in S : y <= x} = a..x
    BY <1>1
  <2>3. Rank(S, x) = k
    <3>1. a <= x /\ x - a + 1 = k
      BY <1>1
    <3>2. Cardinality(a..x) = k
      BY <1>1, <2>1, <3>1, FS_Interval
    <3> QED
      BY <2>2, <3>2 DEF Rank
  <2> HIDE DEF x, S
  <2>4. Increasing(S)[k] = x
    BY <1>2, <2>1, <2>3, IncreasingFacts
  <2> QED
    BY <2>4 DEF x
<1>4. \A k \in 1..n : s[Increasing(S)[k]] = s[a + k - 1]
  BY <1>3
<1>5. AtPlaces(s, S) = [k \in 1..n |-> s[a + k - 1]]
  BY <1>2, <1>4 DEF AtPlaces
<1>6. SubSeq(s, a, b) = [k \in 1..n |-> s[a + k - 1]]
  BY <1>1, SubSeqProperties
<1> QED
  BY <1>5, <1>6
=============================================================================
