--------------------------- MODULE SortingLemmas ---------------------------
(***************************************************************************)
(* What SortedBy returns, and the smallest number of a set, from which the *)
(* other modules argue by induction.                                       *)
(***************************************************************************)
EXTENDS Sorting, FiniteSetTheorems, TLAPS

\* A set of naturals has a smallest one.  An induction is a proof that the
\* numbers without the property have none.
LEMMA Smallest ==
  ASSUME NEW T, T \subseteq Nat, T # {}
  PROVE  \E m \in T : \A k \in T : m <= k
<1> DEFINE R == {ss \in Nat \X Nat : ss[1] < ss[2]}
<1>1. IsWellFoundedOn(R, Nat)
  BY NatLessThanWellFounded DEF OpToRel
<1> HIDE DEF R
<1>2. PICK m \in T : \A k \in T : <<k, m>> \notin R
  BY <1>1, WFMin
<1>3. \A k \in T : ~(k < m)
  BY <1>2 DEF R
<1> QED
  BY <1>3

\* The rank of an element is one of the places there are.
LEMMA RankRange ==
  ASSUME NEW S, IsFiniteSet(S), NEW key, \A x \in S : key[x] \in Int, NEW x \in S
  PROVE  Rank(S, key, x) \in 1 .. Cardinality(S)
<1> DEFINE below == {y \in S : key[y] <= key[x]}
<1>1. below \in SUBSET S /\ x \in below
  OBVIOUS
<1>2. Cardinality(below) <= Cardinality(S) /\ IsFiniteSet(below)
  BY <1>1, FS_Subset
<1>3. Cardinality(below) \in Nat /\ Cardinality(below) # 0
  BY <1>1, <1>2, FS_CardinalityType, FS_EmptySet
<1>4. Cardinality(S) \in Nat
  BY FS_CardinalityType
<1> HIDE DEF below
<1>5. Cardinality(below) \in 1 .. Cardinality(S)
  BY <1>2, <1>3, <1>4
<1> QED
  BY <1>5 DEF Rank, below

\* A smaller key is a smaller rank.
LEMMA RankMonotone ==
  ASSUME NEW S, IsFiniteSet(S), NEW key, \A x \in S : key[x] \in Int,
         NEW x \in S, NEW y \in S, key[x] < key[y]
  PROVE  Rank(S, key, x) < Rank(S, key, y)
<1> DEFINE below(z) == {v \in S : key[v] <= key[z]}
<1>1. below(x) \subseteq below(y) /\ y \in below(y) /\ y \notin below(x)
  OBVIOUS
<1>2. IsFiniteSet(below(y))
  BY FS_Subset
<1>3. below(x) \in SUBSET below(y) /\ below(x) # below(y)
  BY <1>1
<1> HIDE DEF below
<1>4. /\ IsFiniteSet(below(x))
      /\ Cardinality(below(x)) <= Cardinality(below(y))
      /\ Cardinality(below(x)) # Cardinality(below(y))
  BY <1>2, <1>3, FS_Subset
<1>5. Cardinality(below(x)) \in Nat /\ Cardinality(below(y)) \in Nat
  BY <1>2, <1>4, FS_CardinalityType
<1>6. Cardinality(below(x)) < Cardinality(below(y))
  BY <1>4, <1>5
<1> QED
  BY <1>6 DEF Rank, below

\* SortedBy lists S, each element at its rank.
LEMMA Sorted ==
  ASSUME NEW S, IsFiniteSet(S), NEW key, \A x \in S : key[x] \in Int,
         \A x, y \in S : key[x] = key[y] => x = y
  PROVE  /\ Cardinality(S) \in Nat
         /\ SortedBy(S, key) \in [1 .. Cardinality(S) -> S]
         /\ \A i \in 1 .. Cardinality(S) : Rank(S, key, SortedBy(S, key)[i]) = i
         /\ \A x \in S : SortedBy(S, key)[Rank(S, key, x)] = x
         /\ \A i, j \in 1 .. Cardinality(S) :
              i < j => key[SortedBy(S, key)[i]] < key[SortedBy(S, key)[j]]
<1> DEFINE n == Cardinality(S)
           rank == [x \in S |-> Rank(S, key, x)]
           q == SortedBy(S, key)
<1>1. n \in Nat /\ IsFiniteSet(1 .. n) /\ Cardinality(1 .. n) = n
  BY FS_CardinalityType, FS_Interval
<1>2. \A x \in S : Rank(S, key, x) \in 1 .. n
  BY RankRange
<1>3. \A x, y \in S : Rank(S, key, x) = Rank(S, key, y) => x = y
  <2> SUFFICES ASSUME NEW x \in S, NEW y \in S, Rank(S, key, x) = Rank(S, key, y), x # y
               PROVE  FALSE
    OBVIOUS
  <2>1. key[x] < key[y] \/ key[y] < key[x]
    OBVIOUS
  <2>2. Rank(S, key, x) < Rank(S, key, y) \/ Rank(S, key, y) < Rank(S, key, x)
    BY <2>1, RankMonotone
  <2>3. Rank(S, key, x) \in Int /\ Rank(S, key, y) \in Int
    BY <1>1, <1>2
  <2> QED
    BY <2>2, <2>3
<1>4. rank \in Injection(S, 1 .. n)
  BY <1>2, <1>3 DEF Injection, IsInjective
<1>5. rank \in Surjection(S, 1 .. n)
  BY <1>1, <1>4, FS_Injection
<1>6. \A i \in 1 .. n : \E x \in S : Rank(S, key, x) = i
  BY <1>5 DEF Surjection
<1>7. /\ DOMAIN q = 1 .. n
      /\ \A i \in 1 .. n : q[i] = CHOOSE x \in S : Rank(S, key, x) = i
      /\ q = [i \in 1 .. n |-> CHOOSE x \in S : Rank(S, key, x) = i]
  BY DEF SortedBy
<1>8. \A i \in 1 .. n : q[i] \in S /\ Rank(S, key, q[i]) = i
  BY <1>6, <1>7
<1>9. q \in [1 .. n -> S]
  BY <1>6, <1>7
<1> HIDE DEF q
<1>10. \A x \in S : q[Rank(S, key, x)] = x
  BY <1>2, <1>3, <1>8
<1>11. ASSUME NEW i \in 1 .. n, NEW j \in 1 .. n, i < j
       PROVE  key[q[i]] < key[q[j]]
  <2> SUFFICES ASSUME ~(key[q[i]] < key[q[j]]) PROVE FALSE
    OBVIOUS
  <2>1. q[i] # q[j]
    BY <1>1, <1>8, <1>11
  <2>2. key[q[j]] < key[q[i]]
    BY <1>8, <2>1
  <2>3. Rank(S, key, q[j]) < Rank(S, key, q[i])
    BY <1>8, <2>2, RankMonotone
  <2> QED
    BY <1>1, <1>8, <1>11, <2>3
<1> QED
  BY <1>1, <1>8, <1>9, <1>10, <1>11 DEF q

\* There is only one way to list S by its keys.
LEMMA IncreasingIsSorted ==
  ASSUME NEW S, IsFiniteSet(S), NEW key, \A x \in S : key[x] \in Int,
         NEW q \in [1 .. Cardinality(S) -> S],
         \A i, j \in 1 .. Cardinality(S) : i < j => key[q[i]] < key[q[j]]
  PROVE  /\ q = SortedBy(S, key)
         /\ \A x, y \in S : key[x] = key[y] => x = y
         /\ \A x \in S : \E i \in 1 .. Cardinality(S) : q[i] = x
<1> DEFINE n == Cardinality(S)
<1>1. n \in Nat /\ IsFiniteSet(1 .. n) /\ Cardinality(1 .. n) = n
  BY FS_CardinalityType, FS_Interval
<1>2. \A i, j \in 1 .. n : q[i] = q[j] => i = j
  <2> SUFFICES ASSUME NEW i \in 1 .. n, NEW j \in 1 .. n, q[i] = q[j], i # j PROVE FALSE
    OBVIOUS
  <2>1. i < j \/ j < i
    BY <1>1
  <2>2. key[q[i]] < key[q[j]] \/ key[q[j]] < key[q[i]]
    BY <2>1
  <2>3. q[i] \in S /\ key[q[i]] \in Int
    OBVIOUS
  <2> QED
    BY <2>2, <2>3
<1>3. q \in Injection(1 .. n, S)
  BY <1>2 DEF Injection, IsInjective
<1>4. q \in Surjection(1 .. n, S)
  BY <1>1, <1>3, FS_Injection
<1>5. \A x \in S : \E i \in 1 .. n : q[i] = x
  BY <1>4 DEF Surjection
<1>6. ASSUME NEW i \in 1 .. n, NEW j \in 1 .. n
      PROVE  key[q[j]] <= key[q[i]] <=> j <= i
  <2>1. q[i] \in S /\ q[j] \in S /\ key[q[i]] \in Int /\ key[q[j]] \in Int
    OBVIOUS
  <2>2. CASE j < i
    BY <1>1, <2>1, <2>2
  <2>3. CASE j = i
    BY <1>1, <2>1, <2>3
  <2>4. CASE i < j
    BY <1>1, <2>1, <2>4
  <2> QED
    BY <1>1, <2>2, <2>3, <2>4
<1>7. ASSUME NEW i \in 1 .. n PROVE Rank(S, key, q[i]) = i
  <2> DEFINE below == {y \in S : key[y] <= key[q[i]]}
             p == [j \in 1 .. i |-> q[j]]
  <2>1. \A j \in 1 .. i : j \in 1 .. n /\ q[j] \in below
    BY <1>1, <1>6
  <2>2. \A y \in below : \E j \in 1 .. i : q[j] = y
    BY <1>1, <1>5, <1>6
  <2> HIDE DEF below
  <2>3. p \in Bijection(1 .. i, below)
    BY <1>2, <2>1, <2>2 DEF Bijection, Injection, Surjection, IsInjective
  <2>4. Cardinality(below) = i
    BY <1>1, <2>3, FS_CountingElements DEF ExistsBijection
  <2> QED
    BY <2>4 DEF Rank, below
<1>8. \A x, y \in S : key[x] = key[y] => x = y
  <2> SUFFICES ASSUME NEW x \in S, NEW y \in S, key[x] = key[y] PROVE x = y
    OBVIOUS
  <2>1. PICK i \in 1 .. n : q[i] = x
    BY <1>5
  <2>2. PICK j \in 1 .. n : q[j] = y
    BY <1>5
  <2>3. key[x] \in Int
    OBVIOUS
  <2>4. i <= j /\ j <= i
    BY <1>6, <2>1, <2>2, <2>3
  <2> QED
    BY <1>1, <2>1, <2>2, <2>4
<1>9. ASSUME NEW i \in 1 .. n PROVE SortedBy(S, key)[i] = q[i]
  <2>1. \A x \in S : SortedBy(S, key)[Rank(S, key, x)] = x
    BY <1>8, Sorted
  <2> QED
    BY <1>7, <2>1
<1>10. SortedBy(S, key) \in [1 .. n -> S]
  BY <1>8, Sorted
<1>11. q = SortedBy(S, key)
  <2>1. SortedBy(S, key) = [i \in 1 .. n |-> SortedBy(S, key)[i]]
    BY <1>10
  <2>2. q = [i \in 1 .. n |-> q[i]]
    OBVIOUS
  <2> QED
    BY <1>9, <2>1, <2>2, Zenon
<1> QED
  BY <1>5, <1>8, <1>11

=============================================================================
