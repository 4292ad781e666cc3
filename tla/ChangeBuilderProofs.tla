------------------------- MODULE ChangeBuilderProofs ------------------------
(***************************************************************************)
(* The index arithmetic of change sets, and what follows from it: what is  *)
(* recorded of a list stays exact whatever is done to the list, and the    *)
(* merge of two exact change sets is exact, for lists of every length.     *)
(* Indices are taken from after deletions and insertions to before by a    *)
(* map that keeps their order, of which there is only one.                 *)
(*                                                                         *)
(* And the search of the deep change checker: cut short at a depth and at  *)
(* columns that are followed already, remembering rows where nothing was   *)
(* found, it finds what a search of all ways of that length would find.    *)
(***************************************************************************)
EXTENDS ChangeBuilder, Difference, DeepChangeChecker, FiniteSetTheorems,
        WellFoundedInduction, NaturalsInduction, TLAPS

(* A set of numbers has a least one. *)
LEMMA LeastNumber ==
  ASSUME NEW T \in SUBSET Nat, T # {}
  PROVE  \E m \in T : \A x \in T : m <= x
<1> DEFINE R == OpToRel(<, Nat)
<1>1. \E m \in T : \A y \in T : ~ (<<y, m>> \in R)
  BY NatLessThanWellFounded, WFMin
<1>2. \A x, y \in Nat : x < y => <<x, y>> \in R
  BY DEF OpToRel
<1>3. \E m \in T : \A y \in T : ~ (y < m)
  BY ONLY <1>1, <1>2, T \subseteq Nat, Zenon
<1> HIDE DEF R
<1> QED BY ONLY <1>3, T \subseteq Nat

(* Induction, for a set of numbers. *)
LEMMA Induction ==
  ASSUME NEW T, 0 \in T, \A n \in Nat : n \in T => n + 1 \in T
  PROVE  Nat \subseteq T
<1> SUFFICES ASSUME Nat \ T # {} PROVE FALSE
  OBVIOUS
<1> PICK m \in Nat \ T : \A x \in Nat \ T : m <= x
  BY LeastNumber
<1> m - 1 \in Nat /\ m - 1 \in T /\ m = (m - 1) + 1
  OBVIOUS
<1> QED OBVIOUS

(* Sets of indices, as an IndexSet keeps them. *)
IndexSets == {S \in SUBSET Nat : IsFiniteSet(S)}

(* count, one index after another: all that is said below of indices rests *)
(* on these steps.                                                         *)
LEMMA CountSteps ==
  ASSUME NEW S \in IndexSets, NEW i \in Nat
  PROVE  /\ count(S, i) \in Nat
         /\ count(S, 0) = 0
         /\ count(S, i + 1) = IF i \in S THEN count(S, i) + 1 ELSE count(S, i)
         /\ count(S, i) <= Cardinality(S)
<1> DEFINE C(n) == {k \in S : k < n}
<1>1. \A n \in Nat : IsFiniteSet(C(n)) /\ Cardinality(C(n)) \in Nat /\ Cardinality(C(n)) <= Cardinality(S)
  BY FS_Subset, FS_CardinalityType DEF IndexSets
<1>0. \A k \in S : k \in Nat
  BY DEF IndexSets
<1>2. C(0) = {} /\ Cardinality({}) = 0
  BY <1>0, FS_EmptySet
<1>3. C(i + 1) = IF i \in S THEN C(i) \cup {i} ELSE C(i)
  <2>1. \A k \in S : k < i + 1 <=> k < i \/ k = i
    BY <1>0
  <2> QED BY <2>1
<1>4. i \notin C(i)
  OBVIOUS
<1>5. Cardinality(C(i) \cup {i}) = Cardinality(C(i)) + 1
  BY <1>1, <1>4, FS_AddElement
<1> HIDE DEF C
<1>6. Cardinality(C(i + 1)) = IF i \in S THEN Cardinality(C(i)) + 1 ELSE Cardinality(C(i))
  BY <1>3, <1>5
<1> QED BY <1>1, <1>2, <1>6 DEF C, count

(* So does unshift: it goes on by one at each index that is not in the     *)
(* set, and stays at one that is.                                          *)
LEMMA UnshiftSteps ==
  ASSUME NEW S \in IndexSets
  PROVE  /\ \A i \in Nat : unshift(S, i) \in Nat
         /\ unshift(S, 0) = 0
         /\ \A i \in Nat : unshift(S, i + 1) = IF i \in S THEN unshift(S, i) ELSE unshift(S, i) + 1
         /\ \A i \in Nat : unshift(S, i) <= i /\ i <= unshift(S, i) + Cardinality(S)
<1>0. Cardinality(S) \in Nat
  BY FS_CardinalityType DEF IndexSets
<1>1. \A i \in Nat : /\ count(S, i) \in Nat /\ count(S, 0) = 0
                     /\ count(S, i + 1) = IF i \in S THEN count(S, i) + 1 ELSE count(S, i)
                     /\ count(S, i) <= Cardinality(S)
  BY CountSteps
<1> DEFINE T == {i \in Nat : count(S, i) <= i}
<1>2. Nat \subseteq T
  <2>1. 0 \in T
    BY <1>1
  <2>2. \A n \in Nat : n \in T => n + 1 \in T
    BY <1>1
  <2> HIDE DEF T
  <2> QED BY <2>1, <2>2, Induction
<1> QED BY <1>0, <1>1, <1>2 DEF unshift

(* unshift keeps the order of indices. *)
LEMMA UnshiftMonotone ==
  ASSUME NEW S \in IndexSets, NEW i \in Nat, NEW j \in Nat, i <= j
  PROVE  /\ unshift(S, i) <= unshift(S, j)
         /\ i < j /\ i \notin S => unshift(S, i) < unshift(S, j)
<1>1. \A a \in Nat : /\ unshift(S, a) \in Nat
                     /\ unshift(S, a + 1) = IF a \in S THEN unshift(S, a) ELSE unshift(S, a) + 1
  BY UnshiftSteps
<1> DEFINE T == {d \in Nat : \A a \in Nat : unshift(S, a) <= unshift(S, a + d)}
<1>2. Nat \subseteq T
  <2>1. 0 \in T
    BY <1>1
  <2>2. ASSUME NEW d \in Nat, d \in T PROVE d + 1 \in T
    <3> SUFFICES ASSUME NEW a \in Nat PROVE unshift(S, a) <= unshift(S, a + (d + 1))
      OBVIOUS
    <3>1. a + d \in Nat /\ a + (d + 1) = (a + d) + 1
      OBVIOUS
    <3>2. unshift(S, a) <= unshift(S, a + d)
      BY <2>2
    <3>3. unshift(S, a + d) <= unshift(S, (a + d) + 1)
      BY <1>1, <3>1
    <3>4. unshift(S, a) \in Nat /\ unshift(S, a + d) \in Nat /\ unshift(S, (a + d) + 1) \in Nat
      BY <1>1, <3>1
    <3> QED BY <3>1, <3>2, <3>3, <3>4
  <2> HIDE DEF T
  <2> QED BY <2>1, <2>2, Induction
<1>3. \A a \in Nat, d \in Nat : unshift(S, a) <= unshift(S, a + d)
  BY <1>2
<1>4. unshift(S, i) <= unshift(S, j)
  <2>1. j - i \in Nat /\ i + (j - i) = j
    OBVIOUS
  <2> QED BY <1>3, <2>1
<1>5. ASSUME i < j, i \notin S PROVE unshift(S, i) < unshift(S, j)
  <2>1. j - (i + 1) \in Nat /\ (i + 1) + (j - (i + 1)) = j /\ i + 1 \in Nat
    BY <1>5
  <2>2. unshift(S, i + 1) <= unshift(S, j)
    BY <1>3, <2>1
  <2> QED BY <1>1, <1>5, <2>1, <2>2
<1> QED BY <1>4, <1>5

(* An index not in the set is below another where its place is. *)
LEMMA UnshiftBelow ==
  ASSUME NEW S \in IndexSets, NEW i \in Nat \ S, NEW n \in Nat
  PROVE  i < n <=> unshift(S, i) < unshift(S, n)
<1>1. unshift(S, i) \in Nat /\ unshift(S, n) \in Nat
  BY UnshiftSteps
<1>2. i < n => unshift(S, i) < unshift(S, n)
  BY UnshiftMonotone
<1>3. n <= i => unshift(S, n) <= unshift(S, i)
  BY UnshiftMonotone
<1> QED BY <1>1, <1>2, <1>3

(* Indices not in the set are told apart by their places. *)
LEMMA UnshiftInjective ==
  ASSUME NEW S \in IndexSets, NEW i \in Nat \ S, NEW j \in Nat \ S
  PROVE  /\ unshift(S, i) = unshift(S, j) => i = j
         /\ unshift(S, i) < unshift(S, j) <=> i < j
<1>1. unshift(S, i) \in Nat /\ unshift(S, j) \in Nat
  BY UnshiftSteps
<1>2. i < j => unshift(S, i) < unshift(S, j)
  BY UnshiftMonotone
<1>3. j < i => unshift(S, j) < unshift(S, i)
  BY UnshiftMonotone
<1> QED BY <1>1, <1>2, <1>3

(* shift finds, for each place, the index that unshift takes to it. *)
LEMMA ShiftFinds ==
  ASSUME NEW S \in IndexSets, NEW r \in Nat
  PROVE  shift(S, r) \in Nat \ S /\ unshift(S, shift(S, r)) = r
<1>0. Cardinality(S) \in Nat
  BY FS_CardinalityType DEF IndexSets
<1>1. \A a \in Nat : /\ unshift(S, a) \in Nat
                     /\ unshift(S, a + 1) = IF a \in S THEN unshift(S, a) ELSE unshift(S, a) + 1
                     /\ unshift(S, a) <= a /\ a <= unshift(S, a) + Cardinality(S)
                     /\ unshift(S, 0) = 0
  BY UnshiftSteps
<1> DEFINE T == {a \in Nat : unshift(S, a) > r}
<1>2. r + Cardinality(S) + 1 \in T
  BY <1>0, <1>1
<1>3. PICK m \in T : \A x \in T : m <= x
  <2> HIDE DEF T
  <2>1. T \in SUBSET Nat
    BY DEF T
  <2> QED BY <1>2, <2>1, LeastNumber
<1>4. m # 0 /\ m \in Nat
  BY <1>1, <1>3
<1> DEFINE i == m - 1
<1>5. i \in Nat /\ i + 1 = m /\ i \notin T
  BY <1>3, <1>4
<1>6. unshift(S, i) <= r /\ unshift(S, i + 1) > r
  BY <1>1, <1>3, <1>5
<1>7. i \notin S /\ unshift(S, i) = r
  <2>1. i \in Nat
    BY <1>5
  <2> HIDE DEF i
  <2> QED BY ONLY <1>1, <1>6, <2>1
<1>8. i \in r .. r + Cardinality(S)
  BY <1>0, <1>1, <1>5, <1>7
<1>9. \E n \in r .. r + Cardinality(S) : n \notin S /\ n - count(S, n) = r
  BY <1>7, <1>8 DEF unshift
<1>10. shift(S, r) \in r .. r + Cardinality(S) /\ shift(S, r) \notin S
         /\ shift(S, r) - count(S, shift(S, r)) = r
  BY <1>9 DEF shift
<1> QED BY <1>0, <1>10 DEF unshift

(* The index that keeps its place among those left. *)
LEMMA ShiftIsUnique ==
  ASSUME NEW S \in IndexSets, NEW i \in Nat \ S
  PROVE  shift(S, unshift(S, i)) = i
<1>1. unshift(S, i) \in Nat
  BY UnshiftSteps
<1> QED BY <1>1, ShiftFinds, UnshiftInjective

-----------------------------------------------------------------------------
(* The index before deletions and insertions of an index after them. *)
Before(deletions, insertions, index) == shift(deletions, unshift(insertions, index))

(* Indices are taken to indices before in their order, and back again. *)
LEMMA BeforeIsIncreasing ==
  ASSUME NEW D \in IndexSets, NEW I \in IndexSets, NEW i \in Nat \ I
  PROVE  /\ Before(D, I, i) \in Nat \ D
         /\ unshift(D, Before(D, I, i)) = unshift(I, i)
         /\ Before(I, D, Before(D, I, i)) = i
         /\ \A j \in Nat \ I : i < j => Before(D, I, i) < Before(D, I, j)
<1>1. \A j \in Nat : unshift(I, j) \in Nat
  BY UnshiftSteps
<1>2. \A j \in Nat : /\ Before(D, I, j) \in Nat \ D
                     /\ unshift(D, Before(D, I, j)) = unshift(I, j)
  BY <1>1, ShiftFinds DEF Before
<1>3. Before(I, D, Before(D, I, i)) = i
  <2>1. Before(I, D, Before(D, I, i)) = shift(I, unshift(I, i))
    BY <1>2 DEF Before
  <2> QED BY <2>1, ShiftIsUnique
<1>4. ASSUME NEW j \in Nat \ I, i < j PROVE Before(D, I, i) < Before(D, I, j)
  <2>1. unshift(I, i) < unshift(I, j)
    BY <1>4, UnshiftInjective
  <2> QED BY <1>2, <2>1, UnshiftInjective
<1> QED BY <1>2, <1>3, <1>4

(* The place that Difference counts is the one unshift makes. *)
LEMMA PlaceIsUnshift ==
  ASSUME NEW S \in IndexSets, NEW i \in Nat
  PROVE  /\ Place(S, i) = unshift(S, i)
         /\ IsFiniteSet({k \in 0 .. i - 1 : k \notin S})
<1> DEFINE P(n) == {k \in 0 .. n - 1 : k \notin S}
           T == {n \in Nat : Cardinality(P(n)) = unshift(S, n)}
<1>1. \A n \in Nat : IsFiniteSet(P(n))
  <2> TAKE n \in Nat
  <2>1. IsFiniteSet(0 .. n - 1)
    BY FS_Interval
  <2> QED BY <2>1, FS_Subset
<1>2. 0 \in T
  <2>1. P(0) = {} /\ Cardinality({}) = 0
    BY FS_EmptySet
  <2> QED BY <2>1, UnshiftSteps
<1>3. ASSUME NEW n \in Nat, n \in T PROVE n + 1 \in T
  <2>1. P(n + 1) = IF n \in S THEN P(n) ELSE P(n) \cup {n}
    <3>1. \A k : k \in 0 .. (n + 1) - 1 <=> k \in 0 .. n - 1 \/ k = n
      OBVIOUS
    <3> QED BY <3>1
  <2>2. n \notin P(n)
    OBVIOUS
  <2>3. Cardinality(P(n) \cup {n}) = Cardinality(P(n)) + 1
    BY <1>1, <2>2, FS_AddElement
  <2>4. unshift(S, n + 1) = IF n \in S THEN unshift(S, n) ELSE unshift(S, n) + 1
    BY UnshiftSteps
  <2>5. Cardinality(P(n)) = unshift(S, n)
    BY <1>3
  <2> HIDE DEF P
  <2> QED BY <2>1, <2>3, <2>4, <2>5
<1>4. Nat \subseteq T
  <2> HIDE DEF T
  <2> QED BY <1>2, <1>3, Induction
<1> QED BY <1>1, <1>4 DEF Place

(* A map of all indices but I onto all but D, in order. *)
InOrder(f, D, I) ==
  /\ f \in [Nat \ I -> Nat \ D]
  /\ \A j \in Nat \ D : \E i \in Nat \ I : f[i] = j
  /\ \A i, j \in Nat \ I : i < j => f[i] < f[j]

(* There is only one. *)
LEMMA InOrderKeepsPlaces ==
  ASSUME NEW D \in IndexSets, NEW I \in IndexSets, NEW f, InOrder(f, D, I),
         NEW i \in Nat \ I
  PROVE  unshift(D, f[i]) = unshift(I, i)
<1> DEFINE P == {k \in 0 .. i - 1 : k \notin I}
           Q == {k \in 0 .. f[i] - 1 : k \notin D}
           g == [k \in P |-> f[k]]
<1>f. /\ f \in [Nat \ I -> Nat \ D]
      /\ \A j \in Nat \ D : \E k \in Nat \ I : f[k] = j
      /\ \A k, l \in Nat \ I : k < l => f[k] < f[l]
  BY DEF InOrder
<1>0. f[i] \in Nat
  BY <1>f
<1>1. \A k \in P : k \in Nat \ I /\ k < i
  OBVIOUS
<1>2. \A k \in Nat \ I : f[k] < f[i] => k < i
  <2> SUFFICES ASSUME NEW k \in Nat \ I, ~ (k < i) PROVE ~ (f[k] < f[i])
    OBVIOUS
  <2>1. k = i \/ i < k
    OBVIOUS
  <2>2. f[k] = f[i] \/ f[i] < f[k]
    BY <1>f, <2>1
  <2>3. f[k] \in Nat
    BY <1>f
  <2> QED BY <1>0, <2>2, <2>3
<1>3. g \in [P -> Q]
  <2>1. \A k \in P : f[k] \in Nat \ D /\ f[k] < f[i]
    BY <1>f, <1>1
  <2>2. \A k \in P : f[k] \in Q
    BY <1>0, <2>1
  <2> HIDE DEF P, Q
  <2> QED BY <2>2
<1>4. \A k, l \in P : g[k] = g[l] => k = l
  <2> SUFFICES ASSUME NEW k \in P, NEW l \in P, k # l PROVE f[k] # f[l]
    OBVIOUS
  <2>1. k < l \/ l < k
    BY <1>1
  <2>2. f[k] < f[l] \/ f[l] < f[k]
    BY <1>f, <1>1, <2>1
  <2>3. f[k] \in Nat /\ f[l] \in Nat
    BY <1>f, <1>1
  <2> QED BY <2>2, <2>3
<1>5. \A q \in Q : \E k \in P : g[k] = q
  <2> SUFFICES ASSUME NEW q \in Q PROVE \E k \in P : g[k] = q
    OBVIOUS
  <2>1. q \in Nat \ D /\ q < f[i]
    BY <1>0
  <2>2. PICK k \in Nat \ I : f[k] = q
    BY <1>f, <2>1
  <2>3. k \in P
    BY <1>2, <2>1, <2>2
  <2> QED BY <2>2, <2>3
<1>6. IsFiniteSet(P) /\ Cardinality(P) = unshift(I, i) /\ Cardinality(Q) = unshift(D, f[i])
  BY <1>0, PlaceIsUnshift DEF Place
<1>7. ExistsBijection(P, Q)
  <2> HIDE DEF P, Q, g
  <2> QED BY <1>3, <1>4, <1>5 DEF ExistsBijection, Bijection, Injection, Surjection, IsInjective
<1>8. Cardinality(Q) = Cardinality(P)
  <2> HIDE DEF P, Q
  <2> QED BY <1>6, <1>7, FS_Bijection
<1> QED BY <1>6, <1>8

(* So any map of indices that keeps their order is Before. *)
LEMMA InOrderIsBefore ==
  ASSUME NEW D \in IndexSets, NEW I \in IndexSets, NEW f, InOrder(f, D, I),
         NEW i \in Nat \ I
  PROVE  Before(D, I, i) = f[i]
<1>1. unshift(D, f[i]) = unshift(I, i)
  BY InOrderKeepsPlaces
<1>2. f[i] \in Nat \ D
  BY DEF InOrder
<1>3. shift(D, unshift(D, f[i])) = f[i]
  BY <1>2, ShiftIsUnique
<1> QED BY <1>1, <1>3 DEF Before

(* The image of a finite set is finite. *)
LEMMA ImageIsFinite ==
  ASSUME NEW S, IsFiniteSet(S), NEW f \in [S -> Nat]
  PROVE  {f[x] : x \in S} \in IndexSets
<1> DEFINE T == {f[x] : x \in S}
<1>1. f \in [S -> T] /\ \A t \in T : \E x \in S : f[x] = t
  OBVIOUS
<1>2. f \in Surjection(S, T)
  BY <1>1 DEF Surjection
<1>3. IsFiniteSet(T)
  BY <1>2, FS_Surjection
<1> QED BY <1>3 DEF IndexSets

-----------------------------------------------------------------------------
(* The deletions and the insertions of two change sets, one after another. *)
LEMMA ElementOfSeq ==
  ASSUME NEW S, NEW s \in Seq(S), NEW k \in DOMAIN s
  PROVE  s[k] \in S
OBVIOUS

(* Sets of indices together, and without one another. *)
LEMMA UnionIsFinite ==
  ASSUME NEW S \in IndexSets, NEW T \in IndexSets
  PROVE  S \cup T \in IndexSets /\ S \ T \in IndexSets
BY FS_Union, FS_Subset DEF IndexSets

(* IndexSet::erase_at, then insert_at, as merge does with the insertions:  *)
(* an index of the new collection is inserted by the new changes, or comes *)
(* from one that was.                                                      *)
LEMMA ErasedAndInserted ==
  ASSUME NEW I1 \in IndexSets, NEW D2 \in IndexSets, NEW I2 \in IndexSets
  PROVE  /\ insert_at(erase_at(I1, D2), I2) \in IndexSets
         /\ \A i \in Nat : i \in insert_at(erase_at(I1, D2), I2) <=>
                             i \in I2 \/ Before(D2, I2, i) \in I1
<1> DEFINE f == [v \in I1 \ D2 |-> Before(I2, D2, v)]
           J == {f[v] : v \in I1 \ D2}
<1>1. insert_at(erase_at(I1, D2), I2) = J \cup I2
  BY DEF insert_at, erase_at, shift_for_insert_at, Before
<1>2. \A v \in I1 \ D2 : v \in Nat \ D2
  BY DEF IndexSets
<1>3. f \in [I1 \ D2 -> Nat]
  BY <1>2, BeforeIsIncreasing
<1>4. J \in IndexSets
  <2>1. IsFiniteSet(I1 \ D2)
    BY UnionIsFinite DEF IndexSets
  <2> HIDE DEF f
  <2> QED BY <1>3, <2>1, ImageIsFinite
<1>5. ASSUME NEW i \in Nat \ I2 PROVE i \in J <=> Before(D2, I2, i) \in I1
  <2>1. Before(D2, I2, i) \in Nat \ D2 /\ Before(I2, D2, Before(D2, I2, i)) = i
    BY BeforeIsIncreasing
  <2>2. ASSUME NEW v \in I1 \ D2, i = Before(I2, D2, v) PROVE Before(D2, I2, i) \in I1
    BY <1>2, <2>2, BeforeIsIncreasing
  <2> QED BY <2>1, <2>2
<1> QED BY <1>1, <1>4, <1>5, UnionIsFinite

(* IndexSet::add_shifted_by, as merge does with the deletions: an index of *)
(* the old collection was deleted, or leads to one that is now.            *)
LEMMA DeletedBefore ==
  ASSUME NEW D1 \in IndexSets, NEW I1 \in IndexSets, NEW D2 \in IndexSets
  PROVE  /\ add_shifted_by(D1, I1, D2) \in IndexSets
         /\ \A j \in Nat : j \in add_shifted_by(D1, I1, D2) <=>
                             j \in D1 \/ Before(I1, D1, j) \in D2
<1> DEFINE f == [v \in D2 \ I1 |-> Before(D1, I1, v)]
           J == {f[v] : v \in D2 \ I1}
<1>1. add_shifted_by(D1, I1, D2) = D1 \cup J
  BY DEF add_shifted_by, Before
<1>2. \A v \in D2 \ I1 : v \in Nat \ I1
  BY DEF IndexSets
<1>3. f \in [D2 \ I1 -> Nat]
  BY <1>2, BeforeIsIncreasing
<1>4. J \in IndexSets
  <2>1. IsFiniteSet(D2 \ I1)
    BY UnionIsFinite DEF IndexSets
  <2> HIDE DEF f
  <2> QED BY <1>3, <2>1, ImageIsFinite
<1>5. ASSUME NEW i \in Nat \ D1 PROVE i \in J <=> Before(I1, D1, i) \in D2
  <2>1. Before(I1, D1, i) \in Nat \ I1 /\ Before(D1, I1, Before(I1, D1, i)) = i
    BY BeforeIsIncreasing
  <2>2. ASSUME NEW v \in D2 \ I1, i = Before(D1, I1, v) PROVE Before(I1, D1, i) \in D2
    BY <1>2, <2>2, BeforeIsIncreasing
  <2> QED BY <2>1, <2>2
<1> QED BY <1>1, <1>4, <1>5, UnionIsFinite

(* What is left, step by step, is what is left of both. *)
LEMMA BeforeBoth ==
  ASSUME NEW D1 \in IndexSets, NEW I1 \in IndexSets,
         NEW D2 \in IndexSets, NEW I2 \in IndexSets,
         NEW i \in Nat \ insert_at(erase_at(I1, D2), I2)
  PROVE  /\ i \in Nat \ I2
         /\ Before(D2, I2, i) \in Nat \ I1
         /\ Before(add_shifted_by(D1, I1, D2), insert_at(erase_at(I1, D2), I2), i)
              = Before(D1, I1, Before(D2, I2, i))
<1> DEFINE D == add_shifted_by(D1, I1, D2)
           I == insert_at(erase_at(I1, D2), I2)
           f == [k \in Nat \ I |-> Before(D1, I1, Before(D2, I2, k))]
<1>1. D \in IndexSets /\ I \in IndexSets
  BY ErasedAndInserted, DeletedBefore
<1>2. \A k \in Nat : k \in I <=> k \in I2 \/ Before(D2, I2, k) \in I1
  BY ErasedAndInserted
<1>3. \A j \in Nat : j \in D <=> j \in D1 \/ Before(I1, D1, j) \in D2
  BY DeletedBefore
<1> HIDE DEF D, I
<1>4. ASSUME NEW k \in Nat \ I
      PROVE  /\ k \in Nat \ I2
             /\ Before(D2, I2, k) \in (Nat \ D2) \ I1
             /\ Before(D1, I1, Before(D2, I2, k)) \in Nat \ D1
             /\ Before(I1, D1, Before(D1, I1, Before(D2, I2, k))) = Before(D2, I2, k)
  <2>1. k \in Nat \ I2 /\ Before(D2, I2, k) \notin I1
    BY <1>2
  <2>2. Before(D2, I2, k) \in Nat \ D2
    BY <2>1, BeforeIsIncreasing
  <2> QED BY <2>1, <2>2, BeforeIsIncreasing
<1>5. f \in [Nat \ I -> Nat \ D]
  BY <1>3, <1>4
<1>6. ASSUME NEW j \in Nat \ D PROVE \E k \in Nat \ I : f[k] = j
  <2>1. j \in Nat \ D1 /\ Before(I1, D1, j) \notin D2
    BY <1>3
  <2>2. Before(I1, D1, j) \in Nat \ I1 /\ Before(D1, I1, Before(I1, D1, j)) = j
    BY <2>1, BeforeIsIncreasing
  <2> DEFINE m == Before(I1, D1, j)
             k == Before(I2, D2, m)
  <2>3. k \in Nat \ I2 /\ Before(D2, I2, k) = m
    BY <2>1, <2>2, BeforeIsIncreasing
  <2>4. k \in Nat \ I
    BY <1>2, <2>2, <2>3
  <2>5. f[k] = j
    BY <2>2, <2>3, <2>4
  <2> QED BY <2>4, <2>5
<1>7. ASSUME NEW k \in Nat \ I, NEW l \in Nat \ I, k < l PROVE f[k] < f[l]
  <2>1. Before(D2, I2, k) < Before(D2, I2, l)
    BY <1>4, <1>7, BeforeIsIncreasing
  <2>2. Before(D1, I1, Before(D2, I2, k)) < Before(D1, I1, Before(D2, I2, l))
    BY <1>4, <2>1, BeforeIsIncreasing
  <2> QED BY <2>2
<1>8. i \in Nat \ I
  BY DEF I
<1>9. Before(D, I, i) = f[i]
  <2> HIDE DEF f
  <2>1. InOrder(f, D, I)
    BY <1>5, <1>6, <1>7 DEF InOrder
  <2> QED BY <1>1, <1>8, <2>1, InOrderIsBefore
<1> QED BY <1>4, <1>8, <1>9 DEF D, I

Mappings == UNION {[S -> Nat] : S \in IndexSets}

Moves == [from : Nat, to : Nat]

ChangeSets ==
  [ deletions     : IndexSets,
    insertions    : IndexSets,
    modifications : IndexSets,
    moves         : Seq(Moves),
    mapping       : Mappings ]

(* To lead from one sequence to another is to have each index that is left *)
(* at an index before, with the same entry.                                *)
FollowsIndices(D, I, old, new) ==
  /\ I \subseteq Indices(new)
  /\ \A i \in Nat \ I : /\ i < Len(new) <=> Before(D, I, i) < Len(old)
                        /\ i < Len(new) => old[Before(D, I, i) + 1] = new[i + 1]

(* Counting places and following indices say the same. *)
LEMMA LeadsIsFollowing ==
  ASSUME NEW c, c.deletions \in IndexSets, c.insertions \in IndexSets,
         NEW E, NEW old \in Seq(E), NEW new \in Seq(E)
  PROVE  Leads(c, old, new) <=> FollowsIndices(c.deletions, c.insertions, old, new)
<1> DEFINE D == c.deletions
           I == c.insertions
<1>0. Len(old) \in Nat /\ Len(new) \in Nat /\ D \in IndexSets /\ I \in IndexSets
  OBVIOUS
<1>1. \A i \in Nat : /\ Place(D, i) = unshift(D, i) /\ Place(I, i) = unshift(I, i)
                     /\ unshift(D, i) \in Nat /\ unshift(I, i) \in Nat
  BY <1>0, PlaceIsUnshift, UnshiftSteps
<1>2. \A i \in Nat \ I : /\ Before(D, I, i) \in Nat \ D
                         /\ unshift(D, Before(D, I, i)) = unshift(I, i)
                         /\ Before(I, D, Before(D, I, i)) = i
  BY <1>0, BeforeIsIncreasing
<1> HIDE DEF D, I
<1>3. \A i \in Nat \ I : i < Len(new) <=> unshift(I, i) < unshift(I, Len(new))
  BY <1>0, UnshiftBelow
<1>4. \A j \in Nat \ D : j < Len(old) <=> unshift(D, j) < unshift(D, Len(old))
  BY <1>0, UnshiftBelow
<1>5. ASSUME Leads(c, old, new) PROVE FollowsIndices(D, I, old, new)
  <2>1. /\ I \subseteq Indices(new)
        /\ unshift(D, Len(old)) = unshift(I, Len(new))
        /\ \A i \in Indices(old) \ D, j \in Indices(new) \ I :
              unshift(D, i) = unshift(I, j) => old[i + 1] = new[j + 1]
    <3>1. \A i \in Indices(old) : i \in Nat
      BY DEF Indices
    <3>2. \A i \in Indices(new) : i \in Nat
      BY DEF Indices
    <3> QED BY <1>0, <1>1, <1>5, <3>1, <3>2 DEF Leads, D, I
  <2>2. ASSUME NEW i \in Nat \ I
        PROVE  /\ i < Len(new) <=> Before(D, I, i) < Len(old)
               /\ i < Len(new) => old[Before(D, I, i) + 1] = new[i + 1]
    <3>1. i < Len(new) <=> Before(D, I, i) < Len(old)
      BY <1>2, <1>3, <1>4, <2>1
    <3>2. ASSUME i < Len(new) PROVE old[Before(D, I, i) + 1] = new[i + 1]
      <4>1. i \in Indices(new) \ I
        BY <1>0, <3>2 DEF Indices
      <4>2. Before(D, I, i) \in Indices(old) \ D
        BY <1>0, <1>2, <3>1, <3>2 DEF Indices
      <4> QED BY <1>2, <2>1, <4>1, <4>2
    <3> QED BY <3>1, <3>2
  <2> QED BY <2>1, <2>2 DEF FollowsIndices
<1>6. ASSUME FollowsIndices(D, I, old, new) PROVE Leads(c, old, new)
  <2>1. /\ I \subseteq Indices(new)
        /\ \A i \in Nat \ I : /\ i < Len(new) <=> Before(D, I, i) < Len(old)
                              /\ i < Len(new) => old[Before(D, I, i) + 1] = new[i + 1]
    BY <1>6 DEF FollowsIndices
  <2>2. unshift(D, Len(old)) = unshift(I, Len(new))
    <3>1. ASSUME unshift(D, Len(old)) < unshift(I, Len(new)) PROVE FALSE
      <4> DEFINE i == shift(I, unshift(D, Len(old)))
      <4>1. i \in Nat \ I /\ unshift(I, i) = unshift(D, Len(old))
        BY <1>0, <1>1, ShiftFinds
      <4> HIDE DEF i
      <4>2. i < Len(new)
        BY <1>3, <3>1, <4>1
      <4>3. unshift(D, Before(D, I, i)) < unshift(D, Len(old))
        BY <1>2, <1>4, <2>1, <4>1, <4>2
      <4> QED BY <1>0, <1>1, <1>2, <4>1, <4>3
    <3>2. ASSUME unshift(I, Len(new)) < unshift(D, Len(old)) PROVE FALSE
      <4> DEFINE i == shift(I, unshift(I, Len(new)))
      <4>1. i \in Nat \ I /\ unshift(I, i) = unshift(I, Len(new))
        BY <1>0, <1>1, ShiftFinds
      <4> HIDE DEF i
      <4>2. unshift(D, Before(D, I, i)) < unshift(D, Len(old))
        BY <1>2, <3>2, <4>1
      <4>3. i < Len(new)
        BY <1>2, <1>4, <2>1, <4>1, <4>2
      <4>4. unshift(I, i) < unshift(I, Len(new))
        BY <1>3, <4>1, <4>3
      <4> QED BY <1>0, <1>1, <4>1, <4>4
    <3> QED BY <1>0, <1>1, <3>1, <3>2
  <2>3. ASSUME NEW j \in Indices(old) \ D, NEW i \in Indices(new) \ I,
               unshift(D, j) = unshift(I, i)
        PROVE  old[j + 1] = new[i + 1]
    <3>1. i \in Nat \ I /\ i < Len(new) /\ j \in Nat \ D
      BY <1>0 DEF Indices
    <3>2. Before(D, I, i) = j
      BY <1>0, <1>2, <2>3, <3>1, UnshiftInjective
    <3> QED BY <2>1, <3>1, <3>2
  <2>4. \A j \in Indices(old) : Place(D, j) = unshift(D, j)
    BY <1>0, <1>1 DEF Indices
  <2>5. \A i \in Indices(new) : Place(I, i) = unshift(I, i)
    BY <1>0, <1>1 DEF Indices
  <2>6. Place(D, Len(old)) = Place(I, Len(new))
    BY <1>0, <1>1, <2>2
  <2>7. \A j \in Indices(old) \ D, i \in Indices(new) \ I :
          Place(D, j) = Place(I, i) => old[j + 1] = new[i + 1]
    BY <2>3, <2>4, <2>5
  <2> QED BY <2>1, <2>6, <2>7 DEF Leads, D, I
<1> QED BY <1>5, <1>6 DEF D, I

(* Two change sets lead where one leads that has the deletions and the     *)
(* insertions of both.                                                     *)
LEMMA FollowingBoth ==
  ASSUME NEW D1 \in IndexSets, NEW I1 \in IndexSets,
         NEW D2 \in IndexSets, NEW I2 \in IndexSets,
         NEW E, NEW old \in Seq(E), NEW mid \in Seq(E), NEW new \in Seq(E),
         FollowsIndices(D1, I1, old, mid), FollowsIndices(D2, I2, mid, new)
  PROVE  FollowsIndices(add_shifted_by(D1, I1, D2), insert_at(erase_at(I1, D2), I2), old, new)
<1> DEFINE D == add_shifted_by(D1, I1, D2)
           I == insert_at(erase_at(I1, D2), I2)
<1>0. Len(old) \in Nat /\ Len(mid) \in Nat /\ Len(new) \in Nat
  OBVIOUS
<1>1. I \in IndexSets /\ \A i \in Nat : i \in I <=> i \in I2 \/ Before(D2, I2, i) \in I1
  BY ErasedAndInserted
<1>2. \A i \in Nat \ I : /\ i \in Nat \ I2
                         /\ Before(D2, I2, i) \in Nat \ I1
                         /\ Before(D, I, i) = Before(D1, I1, Before(D2, I2, i))
  BY BeforeBoth
<1>3. /\ I1 \subseteq Indices(mid)
      /\ \A i \in Nat \ I1 : /\ i < Len(mid) <=> Before(D1, I1, i) < Len(old)
                             /\ i < Len(mid) => old[Before(D1, I1, i) + 1] = mid[i + 1]
  BY DEF FollowsIndices
<1>4. /\ I2 \subseteq Indices(new)
      /\ \A i \in Nat \ I2 : /\ i < Len(new) <=> Before(D2, I2, i) < Len(mid)
                             /\ i < Len(new) => mid[Before(D2, I2, i) + 1] = new[i + 1]
  BY DEF FollowsIndices
<1> HIDE DEF D, I
<1>5. I \subseteq Indices(new)
  <2> SUFFICES ASSUME NEW i \in I, i \notin I2 PROVE i \in Indices(new)
    BY <1>4
  <2>1. i \in Nat
    BY <1>1 DEF IndexSets
  <2>2. Before(D2, I2, i) \in I1
    BY <1>1, <2>1
  <2>3. Before(D2, I2, i) < Len(mid)
    <3>1. \A k \in Indices(mid) : k < Len(mid)
      BY <1>0 DEF Indices
    <3> QED BY <1>3, <2>2, <3>1
  <2>4. i < Len(new)
    BY <1>4, <2>1, <2>3
  <2> QED BY <1>0, <2>1, <2>4 DEF Indices
<1>6. ASSUME NEW i \in Nat \ I
      PROVE  /\ i < Len(new) <=> Before(D, I, i) < Len(old)
             /\ i < Len(new) => old[Before(D, I, i) + 1] = new[i + 1]
  BY <1>2, <1>3, <1>4
<1> QED BY <1>5, <1>6 DEF FollowsIndices, D, I

(* A row that is deleted and inserted at the same place among those left   *)
(* has stayed.                                                             *)
LEMMA StayingInPlace ==
  ASSUME NEW D \in IndexSets, NEW I \in IndexSets,
         NEW E, NEW old \in Seq(E), NEW new \in Seq(E),
         FollowsIndices(D, I, old, new),
         NEW from \in D \cap Indices(old), NEW to \in I \cap Indices(new),
         old[from + 1] = new[to + 1],
         unshift(D, from) = unshift(I, to)
  PROVE  FollowsIndices(D \ {from}, I \ {to}, old, new)
<1> DEFINE D2 == D \ {from}
           I2 == I \ {to}
           f == [i \in Nat \ I2 |-> IF i = to THEN from ELSE Before(D, I, i)]
<1>0. /\ Len(old) \in Nat /\ Len(new) \in Nat
      /\ from \in Nat /\ from < Len(old) /\ to \in Nat /\ to < Len(new)
  BY DEF Indices
<1>1. D2 \in IndexSets /\ I2 \in IndexSets
  <2>1. {from} \in IndexSets /\ {to} \in IndexSets
    BY <1>0, FS_Singleton DEF IndexSets
  <2> QED BY <2>1, UnionIsFinite
<1>2. \A i \in Nat : unshift(D, i) \in Nat /\ unshift(I, i) \in Nat
  BY UnshiftSteps
<1>3. \A i \in Nat \ I : /\ Before(D, I, i) \in Nat \ D
                         /\ unshift(D, Before(D, I, i)) = unshift(I, i)
                         /\ Before(I, D, Before(D, I, i)) = i
                         /\ \A j \in Nat \ I : i < j => Before(D, I, i) < Before(D, I, j)
  BY BeforeIsIncreasing
<1>4. \A i \in Nat \ I2 : i = to \/ i \in Nat \ I
  OBVIOUS
<1>5. f \in [Nat \ I2 -> Nat \ D2]
  BY <1>0, <1>3, <1>4
<1>6. ASSUME NEW j \in Nat \ D2 PROVE \E i \in Nat \ I2 : f[i] = j
  <2>1. CASE j = from
    <3>1. to \in Nat \ I2 /\ f[to] = j
      BY <1>0, <2>1
    <3> QED BY <3>1
  <2>2. CASE j # from
    <3>1. /\ Before(I, D, j) \in Nat \ I
          /\ Before(D, I, Before(I, D, j)) = j
      BY <2>2, BeforeIsIncreasing
    <3> DEFINE i == Before(I, D, j)
    <3>2. i \in Nat \ I2 /\ i # to
      BY <3>1
    <3>3. f[i] = j
      BY <3>1, <3>2
    <3> QED BY <3>2, <3>3
  <2> QED BY <2>1, <2>2
<1>7. ASSUME NEW i \in Nat \ I2, NEW j \in Nat \ I2, i < j PROVE f[i] < f[j]
  <2>1. CASE i # to /\ j # to
    BY <1>3, <1>4, <1>7, <2>1
  <2>2. CASE i = to
    <3>1. j \in Nat \ I /\ j # to
      BY <1>4, <1>7, <2>2
    <3>2. unshift(I, to) <= unshift(I, j)
      BY <1>0, <1>7, <2>2, <3>1, UnshiftMonotone
    <3> DEFINE b == Before(D, I, j)
    <3>3. b \in Nat \ D /\ unshift(D, b) = unshift(I, j)
      BY <1>3, <3>1
    <3>4. f[i] = from /\ f[j] = b
      BY <2>2, <3>1
    <3> HIDE DEF b
    <3>5. b # from
      BY <3>3
    <3>6. ~ (b < from)
      <4> SUFFICES ASSUME b < from PROVE FALSE
        OBVIOUS
      <4>1. unshift(D, b) < unshift(D, from)
        BY <1>0, <3>3, UnshiftMonotone
      <4>2. unshift(D, b) \in Nat /\ unshift(D, from) \in Nat
        BY <1>0, <1>2, <3>3
      <4>3. unshift(D, from) <= unshift(D, b)
        BY <3>2, <3>3
      <4> QED BY <4>1, <4>2, <4>3
    <3> QED BY <1>0, <3>3, <3>4, <3>5, <3>6
  <2>3. CASE j = to
    <3>1. i \in Nat \ I /\ i # to
      BY <1>4, <1>7, <2>3
    <3>2. unshift(I, i) < unshift(I, to)
      BY <1>0, <1>7, <2>3, <3>1, UnshiftMonotone
    <3> DEFINE b == Before(D, I, i)
    <3>3. b \in Nat \ D /\ unshift(D, b) = unshift(I, i)
      BY <1>3, <3>1
    <3>4. f[j] = from /\ f[i] = b
      BY <2>3, <3>1
    <3> HIDE DEF b
    <3>5. ~ (from <= b)
      <4> SUFFICES ASSUME from <= b PROVE FALSE
        OBVIOUS
      <4>1. unshift(D, from) <= unshift(D, b)
        BY <1>0, <3>3, UnshiftMonotone
      <4>2. unshift(D, b) \in Nat /\ unshift(D, from) \in Nat
        BY <1>0, <1>2, <3>3
      <4>3. unshift(D, b) < unshift(D, from)
        BY <3>2, <3>3
      <4> QED BY <4>1, <4>2, <4>3
    <3> QED BY <1>0, <3>3, <3>4, <3>5
  <2> QED BY <2>1, <2>2, <2>3
<1>8. \A i \in Nat \ I2 : Before(D2, I2, i) = f[i]
  <2> HIDE DEF f, D2, I2
  <2>1. InOrder(f, D2, I2)
    BY ONLY <1>5, <1>6, <1>7 DEF InOrder
  <2> QED BY <1>1, <2>1, InOrderIsBefore
<1>9. /\ I \subseteq Indices(new)
      /\ \A i \in Nat \ I : /\ i < Len(new) <=> Before(D, I, i) < Len(old)
                            /\ i < Len(new) => old[Before(D, I, i) + 1] = new[i + 1]
  BY DEF FollowsIndices
<1>10. ASSUME NEW i \in Nat \ I2
       PROVE  /\ i < Len(new) <=> Before(D2, I2, i) < Len(old)
              /\ i < Len(new) => old[Before(D2, I2, i) + 1] = new[i + 1]
  <2>1. CASE i = to
    BY <1>0, <1>8, <2>1
  <2>2. CASE i # to
    <3>1. i \in Nat \ I /\ Before(D2, I2, i) = Before(D, I, i)
      BY <1>4, <1>8, <2>2
    <3> QED BY <1>9, <3>1
  <2> QED BY <2>1, <2>2
<1> QED BY <1>9, <1>10 DEF FollowsIndices

-----------------------------------------------------------------------------
(* The order in which a fold takes the numbers to n, and its results.      *)
LEMMA LastOfInitial ==
  ASSUME NEW n \in Nat, NEW s \in SUBSET (1 .. n), s # {}
  PROVE  Max(s) \in s /\ \A x \in s : x <= Max(s)
<1>1. \E m \in s : \A x \in s : x <= m
  <2> DEFINE T == {k \in Nat : n - k \in s}
  <2>1. PICK e \in s : TRUE
    OBVIOUS
  <2>2. n - e \in T
    OBVIOUS
  <2>3. PICK m \in T : \A x \in T : m <= x
    <3> HIDE DEF T
    <3>1. T \in SUBSET Nat
      BY DEF T
    <3> QED BY <2>2, <3>1, LeastNumber
  <2>4. n - m \in s
    BY <2>3
  <2>5. ASSUME NEW x \in s PROVE x <= n - m
    <3>1. n - x \in T /\ x \in Nat
      OBVIOUS
    <3>2. m <= n - x /\ m \in Nat
      BY <2>3, <3>1
    <3> QED BY <3>1, <3>2
  <2> QED BY <2>4, <2>5
<1> QED BY <1>1 DEF Max

Folded(g, n, base, F) ==
  \A s \in SUBSET (1 .. n) :
    g[s] = IF s = {} THEN base ELSE F[<<g[s \ {Max(s)}], Max(s)>>]

(* A function on sets of indices that is what a fold goes through:         *)
(* FoldLeft takes it with CHOOSE.                                          *)
LEMMA FoldIsThere ==
  ASSUME NEW n \in Nat, NEW A, NEW base \in A, NEW F \in [A \X (1 .. n) -> A]
  PROVE  \E g \in [SUBSET (1 .. n) -> A] : Folded(g, n, base, F)
<1> DEFINE Foldable(k) == \E g \in [SUBSET (1 .. k) -> A] : Folded(g, k, base, F)
           T == {k \in Nat : k <= n => Foldable(k)}
<1>1. Foldable(0)
  <2> DEFINE g == [s \in SUBSET (1 .. 0) |-> base]
  <2>1. g \in [SUBSET (1 .. 0) -> A]
    OBVIOUS
  <2>2. \A s \in SUBSET (1 .. 0) : s = {}
    OBVIOUS
  <2>3. Folded(g, 0, base, F)
    BY <2>2 DEF Folded
  <2> QED BY <2>1, <2>3
<1>2. ASSUME NEW k \in Nat, k + 1 <= n, Foldable(k) PROVE Foldable(k + 1)
  <2>1. PICK g \in [SUBSET (1 .. k) -> A] : Folded(g, k, base, F)
    BY <1>2
  <2> DEFINE h == [s \in SUBSET (1 .. k + 1) |->
                     IF k + 1 \in s THEN F[<<g[s \ {k + 1}], k + 1>>] ELSE g[s]]
  <2>2. \A s \in SUBSET (1 .. k + 1) :
          /\ s \ {k + 1} \in SUBSET (1 .. k)
          /\ k + 1 \notin s => s \in SUBSET (1 .. k)
          /\ k + 1 \in s => Max(s) = k + 1 /\ s # {}
    <3> TAKE s \in SUBSET (1 .. k + 1)
    <3>1. \A x \in 1 .. k + 1 : x # k + 1 => x \in 1 .. k
      OBVIOUS
    <3>2. ASSUME k + 1 \in s PROVE Max(s) = k + 1
      <4>1. Max(s) \in s /\ k + 1 <= Max(s)
        <5>1. s # {} /\ k + 1 \in Nat
          BY <3>2
        <5> QED BY <3>2, <5>1, LastOfInitial
      <4>2. Max(s) \in 1 .. k + 1
        BY <4>1
      <4> QED BY <4>1, <4>2
    <3> QED BY <3>1, <3>2
  <2>3. k + 1 \in 1 .. n
    BY <1>2
  <2>4. h \in [SUBSET (1 .. k + 1) -> A]
    BY <2>2, <2>3
  <2>5. ASSUME NEW s \in SUBSET (1 .. k + 1)
        PROVE  h[s] = IF s = {} THEN base ELSE F[<<h[s \ {Max(s)}], Max(s)>>]
    <3>1. CASE k + 1 \in s
      <4>1. s \ {k + 1} \in SUBSET (1 .. k + 1) /\ k + 1 \notin s \ {k + 1}
        OBVIOUS
      <4>2. h[s \ {k + 1}] = g[s \ {k + 1}]
        BY <4>1
      <4>3. h[s] = F[<<g[s \ {k + 1}], k + 1>>]
        BY <3>1
      <4> QED BY <2>2, <3>1, <4>2, <4>3
    <3>2. CASE k + 1 \notin s
      <4>1. s \in SUBSET (1 .. k) /\ h[s] = g[s]
        BY <2>2, <3>2
      <4>2. g[s] = IF s = {} THEN base ELSE F[<<g[s \ {Max(s)}], Max(s)>>]
        BY <2>1, <4>1 DEF Folded
      <4>3. s \ {Max(s)} \in SUBSET (1 .. k + 1) /\ k + 1 \notin s \ {Max(s)}
        BY <3>2
      <4>4. h[s \ {Max(s)}] = g[s \ {Max(s)}]
        BY <4>3
      <4> QED BY <4>1, <4>2, <4>4
    <3> QED BY <3>1, <3>2
  <2>6. Folded(h, k + 1, base, F)
    <3> HIDE DEF h
    <3> QED BY <2>5 DEF Folded
  <2> HIDE DEF h
  <2> QED BY <2>4, <2>6
<1> HIDE DEF Foldable
<1>3. Nat \subseteq T
  <2>1. 0 \in T
    BY <1>1
  <2>2. \A k \in Nat : k \in T => k + 1 \in T
    BY <1>2
  <2> HIDE DEF T
  <2> QED BY <2>1, <2>2, Induction
<1>4. Foldable(n)
  BY <1>3
<1> QED BY <1>4 DEF Foldable

(* The indices of the first entries. *)
LEMMA InitialSegments ==
  ASSUME NEW k \in Nat \ {0}
  PROVE  /\ 1 .. k # {} /\ Max(1 .. k) = k /\ (1 .. k) \ {k} = 1 .. k - 1
         /\ 1 .. 0 = {}
<1>1. 1 .. k # {} /\ k \in 1 .. k
  OBVIOUS
<1>2. Max(1 .. k) \in 1 .. k /\ k <= Max(1 .. k)
  BY <1>1, LastOfInitial
<1>3. \A x : x \in (1 .. k) \ {k} <=> x \in 1 .. k - 1
  OBVIOUS
<1> QED BY <1>1, <1>2, <1>3

(* A stale move checked leaves a change set. *)
LEMMA CheckMoveType ==
  ASSUME NEW c \in ChangeSets, NEW m \in Moves
  PROVE  CheckMove(c, m) \in ChangeSets
<1>1. \A S \in IndexSets, x \in Nat : S \ {x} \in IndexSets
  <2> TAKE S \in IndexSets, x \in Nat
  <2>1. {x} \in IndexSets
    BY FS_Singleton DEF IndexSets
  <2> QED BY <2>1, UnionIsFinite
<1>2. c.deletions \ {m.from} \in IndexSets /\ c.insertions \ {m.to} \in IndexSets
  BY <1>1 DEF ChangeSets, Moves
<1>3. Append(c.moves, m) \in Seq(Moves)
  BY DEF ChangeSets
<1> QED BY <1>2, <1>3 DEF CheckMove, ChangeSets

(* The steps of clean_up_stale_moves. *)
LEMMA CleanUpSteps ==
  ASSUME NEW c \in ChangeSets
  PROVE  \E h : /\ h[0] = [c EXCEPT !.moves = << >>]
                /\ \A k \in 1 .. Len(c.moves) : h[k] = CheckMove(h[k - 1], c.moves[k])
                /\ clean_up_stale_moves(c) = h[Len(c.moves)]
<1> DEFINE n == Len(c.moves)
           base == [c EXCEPT !.moves = << >>]
           Folds(g) == g = [s \in SUBSET DOMAIN c.moves |->
                             IF s = {} THEN base
                             ELSE CheckMove(g[s \ {Max(s)}], c.moves[Max(s)])]
           F == [p \in ChangeSets \X (1 .. n) |-> CheckMove(p[1], c.moves[p[2]])]
<1>0. c.moves \in Seq(Moves) /\ n \in Nat /\ DOMAIN c.moves = 1 .. n
  BY DEF ChangeSets
<1>1. base \in ChangeSets
  <2>1. << >> \in Seq(Moves)
    OBVIOUS
  <2> QED BY <2>1 DEF ChangeSets
<1>2. F \in [ChangeSets \X (1 .. n) -> ChangeSets]
  <2>1. ASSUME NEW d \in ChangeSets, NEW k \in 1 .. n
        PROVE  CheckMove(d, c.moves[k]) \in ChangeSets
    <3>1. c.moves[k] \in Moves
      BY <1>0, ElementOfSeq
    <3> QED BY <3>1, CheckMoveType
  <2> HIDE DEF n
  <2> QED BY <2>1
<1>3. \E g : Folds(g)
  <2> HIDE DEF base
  <2>1. PICK g \in [SUBSET (1 .. n) -> ChangeSets] : Folded(g, n, base, F)
    <3> HIDE DEF F
    <3> QED BY <1>0, <1>1, <1>2, FoldIsThere
  <2>2. ASSUME NEW s \in SUBSET (1 .. n), s # {}
        PROVE  F[<<g[s \ {Max(s)}], Max(s)>>] = CheckMove(g[s \ {Max(s)}], c.moves[Max(s)])
    <3>1. Max(s) \in 1 .. n
      BY <1>0, <2>2, LastOfInitial
    <3>2. g[s \ {Max(s)}] \in ChangeSets
      BY <2>1
    <3> QED BY <3>1, <3>2
  <2>3. g = [s \in SUBSET (1 .. n) |->
               IF s = {} THEN base ELSE CheckMove(g[s \ {Max(s)}], c.moves[Max(s)])]
    <3> HIDE DEF F
    <3> QED BY <2>1, <2>2 DEF Folded
  <2> QED BY <1>0, <2>3
<1> DEFINE f == CHOOSE g : Folds(g)
           h == [k \in 0 .. n |-> f[1 .. k]]
<1>4. clean_up_stale_moves(c) = f[DOMAIN c.moves]
  BY DEF clean_up_stale_moves, FoldLeft, MapThenFoldSet
<1>5. Folds(f)
  <2> HIDE DEF Folds
  <2> QED BY <1>3
<1> HIDE DEF f, base
<1>6. f[{}] = base
  BY <1>5
<1>7. \A k \in 1 .. n : f[1 .. k] = CheckMove(f[1 .. k - 1], c.moves[k])
  <2> TAKE k \in 1 .. n
  <2>1. k \in Nat \ {0} /\ 1 .. k \in SUBSET DOMAIN c.moves
    BY <1>0
  <2>2. 1 .. k # {} /\ Max(1 .. k) = k /\ (1 .. k) \ {k} = 1 .. k - 1
    BY <2>1, InitialSegments
  <2> QED BY <1>5, <2>1, <2>2
<1>8. h[0] = base
  BY <1>0, <1>6
<1>9. \A k \in 1 .. n : h[k] = CheckMove(h[k - 1], c.moves[k])
  BY <1>0, <1>7
<1>10. clean_up_stale_moves(c) = h[n]
  BY <1>0, <1>4
<1> QED BY <1>8, <1>9, <1>10 DEF base

Distinct(s) == \A i, j \in DOMAIN s : s[i] = s[j] => i = j

(* What MovesAreMoves says, of indices.                                    *)
LEMMA MovesByIndex ==
  ASSUME NEW c \in ChangeSets, NEW old, NEW new, MovesAreMoves(c, old, new)
  PROVE  \A k \in DOMAIN c.moves :
           /\ c.moves[k] \in Moves
           /\ c.moves[k].from \in c.deletions \cap Indices(old)
           /\ c.moves[k].to \in c.insertions \cap Indices(new)
           /\ old[c.moves[k].from + 1] = new[c.moves[k].to + 1]
           /\ \A l \in DOMAIN c.moves : c.moves[l].from = c.moves[k].from => l = k
<1>1. c.moves \in Seq(Moves)
  BY DEF ChangeSets
<1>2. \A k \in DOMAIN c.moves : c.moves[k] \in Moves
  BY <1>1, ElementOfSeq
<1> QED BY <1>2 DEF MovesAreMoves

(* Entries that are the same are at the same index. *)
LEMMA DistinctIndices ==
  ASSUME NEW E, NEW s \in Seq(E), Distinct(s),
         NEW i \in Indices(s), NEW j \in Indices(s), s[i + 1] = s[j + 1]
  PROVE  i = j
<1>1. i + 1 \in DOMAIN s /\ j + 1 \in DOMAIN s /\ i \in Nat /\ j \in Nat
  BY DEF Indices
<1>2. i + 1 = j + 1
  BY <1>1 DEF Distinct
<1> QED BY <1>1, <1>2

(* Of different moves the new places are different too. *)
LEMMA MovesToDifferentPlaces ==
  ASSUME NEW c \in ChangeSets, NEW E, NEW old \in Seq(E), NEW new, MovesAreMoves(c, old, new),
         Distinct(old), NEW k \in DOMAIN c.moves, NEW l \in DOMAIN c.moves,
         c.moves[k].to = c.moves[l].to
  PROVE  k = l
<1>1. /\ c.moves[k].from \in Indices(old) /\ c.moves[l].from \in Indices(old)
      /\ old[c.moves[k].from + 1] = new[c.moves[k].to + 1]
      /\ old[c.moves[l].from + 1] = new[c.moves[l].to + 1]
      /\ c.moves[k].from = c.moves[l].from => l = k
  BY MovesByIndex
<1>2. c.moves[k].from = c.moves[l].from
  BY <1>1, DistinctIndices
<1> QED BY <1>1, <1>2

(* What clean_up_stale_moves has made of the first k moves. *)
Checked(c, d, k, old, new) ==
  /\ d \in ChangeSets
  /\ d.modifications = c.modifications
  /\ d.mapping = c.mapping
  /\ d.deletions \subseteq c.deletions /\ d.insertions \subseteq c.insertions
  /\ FollowsIndices(d.deletions, d.insertions, old, new)
  /\ \A l \in DOMAIN c.moves :
       l > k => c.moves[l].from \in d.deletions /\ c.moves[l].to \in d.insertions
  /\ \A i \in DOMAIN d.moves :
       /\ d.moves[i].from \in d.deletions /\ d.moves[i].to \in d.insertions
       /\ \E l \in DOMAIN c.moves : l <= k /\ d.moves[i] = c.moves[l]
       /\ \A j \in DOMAIN d.moves : d.moves[j].from = d.moves[i].from => j = i
  /\ \A l \in DOMAIN c.moves :
       l <= k /\ c.moves[l].from \in d.deletions /\ c.moves[l].to \in d.insertions
         => \E i \in DOMAIN d.moves : d.moves[i] = c.moves[l]
  /\ \A i \in c.insertions \ d.insertions : \E l \in DOMAIN c.moves : l <= k /\ c.moves[l].to = i

(* A sequence with an entry more. *)
LEMMA AppendedMove ==
  ASSUME NEW E, NEW s \in Seq(E), NEW e \in E
  PROVE  /\ Append(s, e) \in Seq(E)
         /\ DOMAIN Append(s, e) = DOMAIN s \cup {Len(s) + 1}
         /\ Len(s) + 1 \notin DOMAIN s
         /\ \A i \in DOMAIN s : Append(s, e)[i] = s[i]
         /\ Append(s, e)[Len(s) + 1] = e
OBVIOUS

(* One more move has been checked: one that leaves its row at its place,   *)
(* as the others are, is dropped with its deletion and its insertion.      *)
LEMMA CheckMoveChecks ==
  ASSUME NEW c \in ChangeSets, NEW E, NEW old \in Seq(E), NEW new \in Seq(E),
         MovesAreMoves(c, old, new), Distinct(old),
         NEW d, NEW k \in Nat, k + 1 \in DOMAIN c.moves, Checked(c, d, k, old, new)
  PROVE  Checked(c, CheckMove(d, c.moves[k + 1]), k + 1, old, new)
<1> DEFINE m == c.moves[k + 1]
           e == CheckMove(d, m)
<1>0. /\ m \in Moves
      /\ m.from \in c.deletions \cap Indices(old)
      /\ m.to \in c.insertions \cap Indices(new)
      /\ old[m.from + 1] = new[m.to + 1]
  BY MovesByIndex
<1>1. /\ d \in ChangeSets
      /\ d.modifications = c.modifications
      /\ d.mapping = c.mapping
      /\ d.deletions \subseteq c.deletions /\ d.insertions \subseteq c.insertions
      /\ FollowsIndices(d.deletions, d.insertions, old, new)
      /\ \A l \in DOMAIN c.moves :
           l > k => c.moves[l].from \in d.deletions /\ c.moves[l].to \in d.insertions
      /\ \A i \in DOMAIN d.moves :
           /\ d.moves[i].from \in d.deletions /\ d.moves[i].to \in d.insertions
           /\ \E l \in DOMAIN c.moves : l <= k /\ d.moves[i] = c.moves[l]
           /\ \A j \in DOMAIN d.moves : d.moves[j].from = d.moves[i].from => j = i
      /\ \A l \in DOMAIN c.moves :
           l <= k /\ c.moves[l].from \in d.deletions /\ c.moves[l].to \in d.insertions
             => \E i \in DOMAIN d.moves : d.moves[i] = c.moves[l]
      /\ \A i \in c.insertions \ d.insertions : \E l \in DOMAIN c.moves : l <= k /\ c.moves[l].to = i
  BY DEF Checked
<1>2. e \in ChangeSets
  BY <1>0, <1>1, CheckMoveType
<1>3. m.from \in d.deletions /\ m.to \in d.insertions
  BY <1>1
<1>4. \A l \in DOMAIN c.moves : l \in Nat /\ (l <= k + 1 <=> l <= k \/ l = k + 1)
  <2>1. c.moves \in Seq(Moves)
    BY DEF ChangeSets
  <2> QED BY <2>1
<1>5. \A l \in DOMAIN c.moves :
         /\ c.moves[l].from = m.from => l = k + 1
         /\ c.moves[l].to = m.to => l = k + 1
  BY MovesByIndex, MovesToDifferentPlaces
<1>6. d.moves \in Seq(Moves)
  BY <1>1 DEF ChangeSets
<1> HIDE DEF m
<1>7. CASE unshift(d.deletions, m.from) # unshift(d.insertions, m.to)
  <2>1. e = [d EXCEPT !.moves = Append(@, m)]
    BY <1>7 DEF CheckMove
  <2> DEFINE moves == Append(d.moves, m)
             n == Len(d.moves) + 1
  <2>2. /\ e.deletions = d.deletions /\ e.insertions = d.insertions
        /\ e.modifications = d.modifications /\ e.mapping = d.mapping
        /\ e.moves = moves
    BY <1>1, <2>1 DEF ChangeSets
  <2>3. /\ DOMAIN moves = DOMAIN d.moves \cup {n} /\ n \notin DOMAIN d.moves
        /\ \A i \in DOMAIN d.moves : moves[i] = d.moves[i]
        /\ moves[n] = m
    BY ONLY <1>0, <1>6, AppendedMove
  <2> HIDE DEF e, moves, n
  <2>4. \A l \in DOMAIN c.moves :
          l > k + 1 => c.moves[l].from \in e.deletions /\ c.moves[l].to \in e.insertions
    BY <1>1, <1>4, <2>2
  <2>5. ASSUME NEW i \in DOMAIN e.moves
        PROVE  /\ e.moves[i].from \in e.deletions /\ e.moves[i].to \in e.insertions
               /\ \E l \in DOMAIN c.moves : l <= k + 1 /\ e.moves[i] = c.moves[l]
               /\ \A j \in DOMAIN e.moves : e.moves[j].from = e.moves[i].from => j = i
    <3>1. \A j \in DOMAIN d.moves : moves[j].from # m.from
      <4> TAKE j \in DOMAIN d.moves
      <4>1. PICK l \in DOMAIN c.moves : l <= k /\ d.moves[j] = c.moves[l]
        BY <1>1
      <4>2. l # k + 1
        BY <1>4, <4>1
      <4> QED BY <1>5, <2>3, <4>1, <4>2
    <3>2. CASE i = n
      BY <1>3, <1>4, <2>2, <2>3, <3>1, <3>2 DEF m
    <3>3. CASE i \in DOMAIN d.moves
      <4>1. e.moves[i] = d.moves[i]
        BY <2>2, <2>3, <3>3
      <4>2. PICK l \in DOMAIN c.moves : l <= k /\ d.moves[i] = c.moves[l]
        BY <1>1, <3>3
      <4>3. l <= k + 1
        BY <1>4, <4>2
      <4>4. \A j \in DOMAIN e.moves : e.moves[j].from = e.moves[i].from => j = i
        BY <1>1, <2>2, <2>3, <3>1, <3>3
      <4> QED BY <1>1, <2>2, <3>3, <4>1, <4>2, <4>3, <4>4
    <3> QED BY <2>2, <2>3, <3>2, <3>3
  <2>6. ASSUME NEW l \in DOMAIN c.moves, l <= k + 1,
               c.moves[l].from \in e.deletions, c.moves[l].to \in e.insertions
        PROVE  \E i \in DOMAIN e.moves : e.moves[i] = c.moves[l]
    <3>1. CASE l = k + 1
      BY <2>2, <2>3, <3>1 DEF m
    <3>2. CASE l <= k
      BY <1>1, <2>2, <2>3, <2>6, <3>2
    <3> QED BY <1>4, <2>6, <3>1, <3>2
  <2>7. \A i \in c.insertions \ e.insertions : \E l \in DOMAIN c.moves : l <= k + 1 /\ c.moves[l].to = i
    <3> TAKE i \in c.insertions \ e.insertions
    <3>1. PICK l \in DOMAIN c.moves : l <= k /\ c.moves[l].to = i
      BY <1>1, <2>2
    <3> QED BY <1>4, <3>1
  <2> QED BY <1>1, <1>2, <2>2, <2>4, <2>5, <2>6, <2>7 DEF Checked, e, m
<1>8. CASE unshift(d.deletions, m.from) = unshift(d.insertions, m.to)
  <2>1. e = [d EXCEPT !.deletions = @ \ {m.from}, !.insertions = @ \ {m.to}]
    BY <1>8 DEF CheckMove
  <2>2. /\ e.deletions = d.deletions \ {m.from} /\ e.insertions = d.insertions \ {m.to}
        /\ e.modifications = d.modifications /\ e.mapping = d.mapping
        /\ e.moves = d.moves
    BY <1>1, <2>1 DEF ChangeSets
  <2> HIDE DEF e
  <2>3. FollowsIndices(e.deletions, e.insertions, old, new)
    <3>1. d.deletions \in IndexSets /\ d.insertions \in IndexSets
      BY <1>1 DEF ChangeSets
    <3>2. m.from \in d.deletions \cap Indices(old) /\ m.to \in d.insertions \cap Indices(new)
      BY <1>0, <1>3
    <3> QED BY <1>0, <1>1, <1>8, <2>2, <3>1, <3>2, StayingInPlace
  <2>4. \A l \in DOMAIN c.moves :
          l > k + 1 => c.moves[l].from \in e.deletions /\ c.moves[l].to \in e.insertions
    <3> TAKE l \in DOMAIN c.moves
    <3> HAVE l > k + 1
    <3>1. l > k /\ l # k + 1
      BY <1>4
    <3> QED BY <1>1, <1>5, <2>2, <3>1
  <2>5. ASSUME NEW i \in DOMAIN e.moves
        PROVE  /\ e.moves[i].from \in e.deletions /\ e.moves[i].to \in e.insertions
               /\ \E l \in DOMAIN c.moves : l <= k + 1 /\ e.moves[i] = c.moves[l]
               /\ \A j \in DOMAIN e.moves : e.moves[j].from = e.moves[i].from => j = i
    <3>1. PICK l \in DOMAIN c.moves : l <= k /\ d.moves[i] = c.moves[l]
      BY <1>1, <2>2
    <3>2. l # k + 1 /\ l <= k + 1
      BY <1>4, <3>1
    <3>3. d.moves[i].from # m.from /\ d.moves[i].to # m.to
      BY <1>5, <3>1, <3>2
    <3> QED BY <1>1, <2>2, <3>1, <3>2, <3>3
  <2>6. ASSUME NEW l \in DOMAIN c.moves, l <= k + 1,
               c.moves[l].from \in e.deletions, c.moves[l].to \in e.insertions
        PROVE  \E i \in DOMAIN e.moves : e.moves[i] = c.moves[l]
    <3>1. l # k + 1
      BY <2>2, <2>6 DEF m
    <3>2. l <= k
      BY <1>4, <2>6, <3>1
    <3> QED BY <1>1, <2>2, <2>6, <3>2
  <2>7. ASSUME NEW i \in c.insertions \ e.insertions
        PROVE  \E l \in DOMAIN c.moves : l <= k + 1 /\ c.moves[l].to = i
    <3>1. CASE i = m.to
      <4>1. k + 1 \in DOMAIN c.moves /\ k + 1 <= k + 1 /\ c.moves[k + 1].to = i
        BY <3>1 DEF m
      <4> QED BY <4>1
    <3>2. CASE i # m.to
      <4>1. PICK l \in DOMAIN c.moves : l <= k /\ c.moves[l].to = i
        BY <1>1, <2>2, <3>2
      <4> QED BY <1>4, <4>1
    <3> QED BY <3>1, <3>2
  <2> QED BY <1>1, <1>2, <2>2, <2>3, <2>4, <2>5, <2>6, <2>7 DEF Checked, e, m
<1> QED BY <1>7, <1>8 DEF m

(* So for all of the moves. *)
LEMMA CleanUpChecks ==
  ASSUME NEW c \in ChangeSets, NEW E, NEW old \in Seq(E), NEW new \in Seq(E),
         FollowsIndices(c.deletions, c.insertions, old, new),
         MovesAreMoves(c, old, new), Distinct(old)
  PROVE  Checked(c, clean_up_stale_moves(c), Len(c.moves), old, new)
<1> DEFINE n == Len(c.moves)
<1>0. n \in Nat /\ DOMAIN c.moves = 1 .. n /\ c.moves \in Seq(Moves)
  BY DEF ChangeSets
<1>1. PICK h : /\ h[0] = [c EXCEPT !.moves = << >>]
               /\ \A k \in 1 .. n : h[k] = CheckMove(h[k - 1], c.moves[k])
               /\ clean_up_stale_moves(c) = h[n]
  BY CleanUpSteps
<1> DEFINE T == {k \in Nat : k <= n => Checked(c, h[k], k, old, new)}
<1>2. 0 \in T
  <2> DEFINE d == [c EXCEPT !.moves = << >>]
  <2>1. /\ d.deletions = c.deletions /\ d.insertions = c.insertions
        /\ d.modifications = c.modifications /\ d.mapping = c.mapping
        /\ d.moves = << >>
    BY DEF ChangeSets
  <2>2. d \in ChangeSets
    <3>1. << >> \in Seq(Moves)
      OBVIOUS
    <3> QED BY <3>1 DEF ChangeSets
  <2>3. DOMAIN d.moves = {}
    BY <2>1
  <2>4. \A l \in DOMAIN c.moves : c.moves[l].from \in c.deletions /\ c.moves[l].to \in c.insertions
    BY MovesByIndex
  <2>5. \A l \in DOMAIN c.moves : ~ (l <= 0)
    BY <1>0
  <2> HIDE DEF d
  <2>6. Checked(c, d, 0, old, new)
    BY <2>1, <2>2, <2>3, <2>4, <2>5 DEF Checked
  <2> QED BY <1>1, <2>6 DEF d
<1>3. ASSUME NEW k \in Nat, k \in T PROVE k + 1 \in T
  <2> SUFFICES ASSUME k + 1 <= n PROVE Checked(c, h[k + 1], k + 1, old, new)
    OBVIOUS
  <2>1. Checked(c, h[k], k, old, new)
    BY <1>0, <1>3
  <2>2. k + 1 \in DOMAIN c.moves /\ (k + 1) - 1 = k
    <3> HIDE DEF n
    <3> QED BY <1>0
  <2>3. h[k + 1] = CheckMove(h[k], c.moves[k + 1])
    BY <1>0, <1>1, <2>2
  <2> QED BY <2>1, <2>2, <2>3, CheckMoveChecks
<1>4. Nat \subseteq T
  <2> HIDE DEF T
  <2> QED BY <1>2, <1>3, Induction
<1> QED BY <1>0, <1>1, <1>4

(* clean_up_stale_moves takes no entry away and no move that is one.       *)
LEMMA CleanUpKeeps ==
  ASSUME NEW c \in ChangeSets, NEW E, NEW old \in Seq(E), NEW new \in Seq(E), Distinct(old),
         Leads(c, old, new), MovesAreMoves(c, old, new)
  PROVE  LET d == clean_up_stale_moves(c)
         IN  /\ d \in ChangeSets
             /\ d.modifications = c.modifications
             /\ d.mapping = c.mapping
             /\ d.insertions \subseteq c.insertions
             /\ Leads(d, old, new)
             /\ MovesAreMoves(d, old, new)
             /\ MovesAreTold(c, old, new) => MovesAreTold(d, old, new)
             /\ \A k \in DOMAIN d.moves : \E l \in DOMAIN c.moves : d.moves[k] = c.moves[l]
             /\ \A i \in c.insertions \ d.insertions : \E l \in DOMAIN c.moves : c.moves[l].to = i
<1> DEFINE d == clean_up_stale_moves(c)
           n == Len(c.moves)
<1>0. c.deletions \in IndexSets /\ c.insertions \in IndexSets
  BY DEF ChangeSets
<1>1. FollowsIndices(c.deletions, c.insertions, old, new)
  BY <1>0, LeadsIsFollowing
<1>2. Checked(c, d, n, old, new)
  BY <1>1, CleanUpChecks
<1>3. \A l \in DOMAIN c.moves : l <= n
  BY DEF ChangeSets
<1> HIDE DEF d, n
<1>4. d \in ChangeSets /\ d.deletions \in IndexSets /\ d.insertions \in IndexSets
  BY <1>2 DEF Checked, ChangeSets
<1>5. Leads(d, old, new)
  BY <1>2, <1>4, LeadsIsFollowing DEF Checked
<1>6. MovesAreMoves(d, old, new)
  <2> SUFFICES ASSUME NEW k \in DOMAIN d.moves
               PROVE  /\ d.moves[k].from \in d.deletions \cap Indices(old)
                      /\ d.moves[k].to \in d.insertions \cap Indices(new)
                      /\ old[d.moves[k].from + 1] = new[d.moves[k].to + 1]
                      /\ \A l \in DOMAIN d.moves \ {k} : d.moves[l].from # d.moves[k].from
    BY DEF MovesAreMoves
  <2>1. /\ d.moves[k].from \in d.deletions /\ d.moves[k].to \in d.insertions
        /\ \E l \in DOMAIN c.moves : d.moves[k] = c.moves[l]
        /\ \A j \in DOMAIN d.moves : d.moves[j].from = d.moves[k].from => j = k
    BY <1>2 DEF Checked
  <2> QED BY <2>1, MovesByIndex
<1>7. ASSUME MovesAreTold(c, old, new) PROVE MovesAreTold(d, old, new)
  <2> SUFFICES ASSUME NEW from \in d.deletions \cap Indices(old),
                      NEW to \in d.insertions \cap Indices(new),
                      old[from + 1] = new[to + 1]
               PROVE  \E k \in DOMAIN d.moves : d.moves[k] = [from |-> from, to |-> to]
    BY DEF MovesAreTold
  <2>1. from \in c.deletions /\ to \in c.insertions
    BY <1>2 DEF Checked
  <2>2. PICK l \in DOMAIN c.moves : c.moves[l] = [from |-> from, to |-> to]
    BY <1>7, <2>1 DEF MovesAreTold
  <2>3. c.moves[l].from \in d.deletions /\ c.moves[l].to \in d.insertions
    BY <2>2
  <2> QED BY <1>2, <1>3, <2>2, <2>3 DEF Checked
<1>8. \A k \in DOMAIN d.moves : \E l \in DOMAIN c.moves : d.moves[k] = c.moves[l]
  BY <1>2 DEF Checked
<1>9. \A i \in c.insertions \ d.insertions : \E l \in DOMAIN c.moves : c.moves[l].to = i
  BY <1>2 DEF Checked
<1> QED BY <1>2, <1>4, <1>5, <1>6, <1>7, <1>8, <1>9 DEF Checked, d

-----------------------------------------------------------------------------
(* The entries of w are those of s at other indices than in S, each once. *)
Remaining(w, s, S) ==
  /\ \A k \in DOMAIN w : \E i \in DOMAIN s : i - 1 \notin S /\ w[k] = s[i]
  /\ \A i \in DOMAIN s : i - 1 \notin S => \E k \in DOMAIN w : w[k] = s[i]
  /\ \A k, l \in DOMAIN w, i \in DOMAIN s :
       (/\ \A j \in DOMAIN s : s[j] = s[i] => j = i
        /\ w[k] = s[i] /\ w[l] = s[i]) => k = l

(* What is left is what the indices do not name, each once. *)
LEMMA WithoutLeaves ==
  ASSUME NEW E, NEW s \in Seq(E), NEW S \in IndexSets
  PROVE  Without(s, S) \in Seq(E) /\ Remaining(Without(s, S), s, S)
<1> DEFINE n == unshift(S, Len(s))
           Of(k) == shift(S, k - 1) + 1
           w == [k \in 1 .. n |-> s[Of(k)]]
<1>0. Len(s) \in Nat /\ n \in Nat /\ DOMAIN s = 1 .. Len(s) /\ w = Without(s, S)
  BY UnshiftSteps DEF Without
<1>1. ASSUME NEW k \in 1 .. n
      PROVE  /\ shift(S, k - 1) \in Nat \ S
             /\ unshift(S, shift(S, k - 1)) = k - 1
             /\ Of(k) \in DOMAIN s /\ Of(k) - 1 \notin S
  <2> HIDE DEF n
  <2>1. k - 1 \in Nat /\ k - 1 < n
    BY <1>0
  <2>2. shift(S, k - 1) \in Nat \ S /\ unshift(S, shift(S, k - 1)) = k - 1
    BY <2>1, ShiftFinds
  <2>3. shift(S, k - 1) < Len(s)
    BY <1>0, <2>1, <2>2, UnshiftBelow DEF n
  <2> QED BY <1>0, <2>2, <2>3
<1>2. ASSUME NEW i \in DOMAIN s, i - 1 \notin S
      PROVE  \E k \in 1 .. n : Of(k) = i
  <2>1. i - 1 \in Nat \ S /\ i - 1 < Len(s)
    BY <1>0, <1>2
  <2>2. unshift(S, i - 1) < n /\ unshift(S, i - 1) \in Nat
    BY <1>0, <2>1, UnshiftBelow, UnshiftSteps
  <2> DEFINE k == unshift(S, i - 1) + 1
  <2>3. k \in 1 .. n /\ k - 1 = unshift(S, i - 1)
    <3> HIDE DEF n
    <3> QED BY <1>0, <2>2
  <2>4. shift(S, k - 1) = i - 1
    BY <2>1, <2>3, ShiftIsUnique
  <2>5. Of(k) = i
    BY <1>0, <2>4
  <2> HIDE DEF k
  <2> QED BY <2>3, <2>5
<1> HIDE DEF n
<1>3. ASSUME NEW k \in 1 .. n, NEW l \in 1 .. n, Of(k) = Of(l) PROVE k = l
  <2>1. shift(S, k - 1) = shift(S, l - 1)
    BY <1>1, <1>3
  <2>2. k - 1 = l - 1
    BY <1>1, <2>1
  <2> QED BY <1>0, <2>2
<1> HIDE DEF Of
<1>4. w \in Seq(E)
  <2>1. \A k \in 1 .. n : s[Of(k)] \in E
    BY <1>1, ElementOfSeq
  <2> QED BY <1>0, <2>1
<1>5. DOMAIN w = 1 .. n /\ \A k \in 1 .. n : w[k] = s[Of(k)]
  OBVIOUS
<1>6. \A k \in DOMAIN w : \E i \in DOMAIN s : i - 1 \notin S /\ w[k] = s[i]
  BY <1>1, <1>5
<1>7. \A i \in DOMAIN s : i - 1 \notin S => \E k \in DOMAIN w : w[k] = s[i]
  BY <1>2, <1>5
<1>8. ASSUME NEW k \in DOMAIN w, NEW l \in DOMAIN w, NEW i \in DOMAIN s,
             \A j \in DOMAIN s : s[j] = s[i] => j = i, w[k] = s[i], w[l] = s[i]
      PROVE  k = l
  BY <1>1, <1>3, <1>5, <1>8
<1> HIDE DEF w
<1> QED BY <1>0, <1>4, <1>6, <1>7, <1>8 DEF Remaining

(* The k-th entry is replaced by the last one. *)
LEMMA LastMovedOver ==
  ASSUME NEW E, NEW s \in Seq(E), NEW k \in DOMAIN s
  PROVE  LET r == Front(ReplaceAt(s, k, Last(s)))
         IN  /\ r \in Seq(E)
             /\ \A i \in DOMAIN r : \E j \in DOMAIN s \ {k} : r[i] = s[j]
             /\ \A j \in DOMAIN s \ {k} : \E i \in DOMAIN r : r[i] = s[j]
             /\ \A i, j \in DOMAIN r :
                  (\A x, y \in DOMAIN s : s[x] = s[y] => x = y) => (r[i] = r[j] => i = j)
<1> DEFINE n == Len(s)
           t == ReplaceAt(s, k, Last(s))
           r == Front(t)
<1>0. n \in Nat /\ n > 0 /\ k \in 1 .. n /\ DOMAIN s = 1 .. n /\ s[n] \in E
  OBVIOUS
<1>1. t \in Seq(E) /\ Len(t) = n /\ \A i \in 1 .. n : t[i] = IF i = k THEN s[n] ELSE s[i]
  BY DEF ReplaceAt, Last
<1> HIDE DEF t
<1>2. r \in Seq(E) /\ DOMAIN r = 1 .. n - 1 /\ \A i \in 1 .. n - 1 : r[i] = t[i]
  BY <1>0, <1>1 DEF Front
<1> HIDE DEF r, n
<1>3. \A i \in DOMAIN r : r[i] = IF i = k THEN s[n] ELSE s[i]
  BY <1>0, <1>1, <1>2
<1>4. \A i \in DOMAIN r : \E j \in DOMAIN s \ {k} : r[i] = s[j]
  <2> TAKE i \in DOMAIN r
  <2>1. i \in 1 .. n /\ i # n
    BY <1>0, <1>2
  <2>2. CASE i = k
    BY <1>0, <1>3, <2>1, <2>2
  <2>3. CASE i # k
    BY <1>0, <1>3, <2>1, <2>3
  <2> QED BY <2>2, <2>3
<1>5. \A j \in DOMAIN s \ {k} : \E i \in DOMAIN r : r[i] = s[j]
  <2> TAKE j \in DOMAIN s \ {k}
  <2>1. CASE j = n
    <3>1. k \in DOMAIN r
      BY <1>0, <1>2, <2>1
    <3> QED BY <1>3, <2>1, <3>1
  <2>2. CASE j # n
    <3>1. j \in DOMAIN r
      BY <1>0, <1>2, <2>2
    <3> QED BY <1>3, <3>1
  <2> QED BY <2>1, <2>2
<1>6. ASSUME NEW i \in DOMAIN r, NEW j \in DOMAIN r,
             \A x, y \in DOMAIN s : s[x] = s[y] => x = y, r[i] = r[j]
      PROVE  i = j
  <2>1. i \in 1 .. n /\ i # n /\ j \in 1 .. n /\ j # n /\ n \in 1 .. n
    BY <1>0, <1>2
  <2> QED BY <1>0, <1>3, <1>6, <2>1
<1> QED BY <1>2, <1>4, <1>5, <1>6 DEF r, t

-----------------------------------------------------------------------------
(* Old moves and new changes. *)
Updates == [old : Seq(Moves), new : ChangeSets]

(* Where a row goes on to from its place after the old changes. *)
GoesOn(n, place, to) ==
  \/ \E j \in DOMAIN n.moves : n.moves[j] = [from |-> place, to |-> to]
  \/ place \notin n.deletions /\ to = Before(n.insertions, n.deletions, place)

Again(s, m) == {k \in DOMAIN s.new.moves : s.new.moves[k].from = m.to}

(* The three outcomes of UpdateMove. *)
LEMMA UpdateMoveCases ==
  ASSUME NEW c \in ChangeSets, NEW s \in Updates, NEW m \in Moves
  PROVE  /\ UpdateMove(c, s, m) \in Updates
         /\ UpdateMove(c, s, m).new.deletions = s.new.deletions
         /\ UpdateMove(c, s, m).new.insertions = s.new.insertions
         /\ Again(s, m) # {} =>
              \E k \in Again(s, m) :
                LET u == UpdateMove(c, s, m)
                    n == s.new.moves[k]
                IN  /\ u.old = Append(s.old, Move(m.from, n.to))
                    /\ u.new.moves = Front(ReplaceAt(s.new.moves, k, Last(s.new.moves)))
                    /\ u.new.modifications = IF n.from \in c.modifications
                                             THEN s.new.modifications \cup {n.to}
                                             ELSE s.new.modifications
         /\ Again(s, m) = {} /\ m.to \in s.new.deletions => UpdateMove(c, s, m) = s
         /\ Again(s, m) = {} /\ m.to \notin s.new.deletions =>
              /\ UpdateMove(c, s, m).old =
                   Append(s.old, Move(m.from, Before(s.new.insertions, s.new.deletions, m.to)))
              /\ UpdateMove(c, s, m).new = s.new
<1> DEFINE u == UpdateMove(c, s, m)
<1>0. /\ s.old \in Seq(Moves) /\ s.new \in ChangeSets
      /\ s.new.moves \in Seq(Moves) /\ s.new.modifications \in IndexSets
      /\ s.new.deletions \in IndexSets /\ s.new.insertions \in IndexSets
      /\ m.from \in Nat /\ m.to \in Nat
  BY DEF Updates, ChangeSets, Moves
<1>1. CASE Again(s, m) # {}
  <2> DEFINE k == CHOOSE i \in Again(s, m) : TRUE
             n == s.new.moves[k]
             moves == Front(ReplaceAt(s.new.moves, k, Last(s.new.moves)))
             modified == IF n.from \in c.modifications
                         THEN s.new.modifications \cup {n.to} ELSE s.new.modifications
  <2>1. k \in Again(s, m) /\ k \in DOMAIN s.new.moves
    BY <1>1 DEF Again
  <2>2. u = [old |-> Append(s.old, Move(m.from, n.to)),
             new |-> [s.new EXCEPT !.moves = moves, !.modifications = modified]]
    BY <1>1 DEF UpdateMove, Again
  <2>3. n \in Moves /\ n.to \in Nat
    <3>1. n \in Moves
      BY <1>0, <2>1, ElementOfSeq
    <3> QED BY <3>1 DEF Moves
  <2>4. moves \in Seq(Moves)
    BY <1>0, <2>1, LastMovedOver
  <2>5. modified \in IndexSets
    <3>1. {n.to} \in IndexSets
      BY <2>3, FS_Singleton DEF IndexSets
    <3> QED BY <1>0, <3>1, UnionIsFinite
  <2>6. Move(m.from, n.to) \in Moves
    BY <1>0, <2>3 DEF Move, Moves
  <2>7. Append(s.old, Move(m.from, n.to)) \in Seq(Moves)
    BY <1>0, <2>6, AppendedMove
  <2> HIDE DEF k, moves, modified
  <2>8. [s.new EXCEPT !.moves = moves, !.modifications = modified] \in ChangeSets
    BY <1>0, <2>4, <2>5 DEF ChangeSets
  <2>9. /\ u.old = Append(s.old, Move(m.from, n.to))
        /\ u.new = [s.new EXCEPT !.moves = moves, !.modifications = modified]
    BY <2>2
  <2>10. /\ u.new.moves = moves /\ u.new.modifications = modified
         /\ u.new.deletions = s.new.deletions /\ u.new.insertions = s.new.insertions
    BY <1>0, <2>9 DEF ChangeSets
  <2>11. u \in Updates
    BY <2>2, <2>7, <2>8 DEF Updates
  <2> HIDE DEF u
  <2> QED BY <1>1, <2>1, <2>9, <2>10, <2>11 DEF u, moves, modified
<1>2. CASE Again(s, m) = {} /\ m.to \in s.new.deletions
  <2>1. u = s
    BY <1>2 DEF UpdateMove, Again
  <2> HIDE DEF u
  <2> QED BY <1>2, <2>1 DEF u
<1>3. CASE Again(s, m) = {} /\ m.to \notin s.new.deletions
  <2> DEFINE to == Before(s.new.insertions, s.new.deletions, m.to)
             moves == Append(s.old, Move(m.from, to))
  <2>1. u = [s EXCEPT !.old = moves]
    BY <1>3 DEF UpdateMove, Again, Before
  <2>2. to \in Nat
    BY <1>0, <1>3, BeforeIsIncreasing
  <2>3. Move(m.from, to) \in Moves
    BY <1>0, <2>2 DEF Move, Moves
  <2>4. moves \in Seq(Moves)
    BY <1>0, <2>3, AppendedMove
  <2> HIDE DEF moves, u
  <2>5. u.old = moves /\ u.new = s.new /\ u \in Updates
    BY <2>1, <2>4 DEF Updates
  <2> QED BY <1>3, <2>5 DEF u, moves
<1> QED BY <1>1, <1>2, <1>3

(* The steps of UpdateMoves. *)
LEMMA UpdateMovesSteps ==
  ASSUME NEW c \in ChangeSets, NEW n \in ChangeSets
  PROVE  \E h : /\ h[0] = [old |-> << >>, new |-> n]
                /\ \A k \in 1 .. Len(c.moves) : h[k] = UpdateMove(c, h[k - 1], c.moves[k])
                /\ UpdateMoves(c, n) = h[Len(c.moves)]
<1> DEFINE len == Len(c.moves)
           base == [old |-> << >>, new |-> n]
           Folds(g) == g = [s \in SUBSET DOMAIN c.moves |->
                             IF s = {} THEN base
                             ELSE UpdateMove(c, g[s \ {Max(s)}], c.moves[Max(s)])]
           F == [p \in Updates \X (1 .. len) |-> UpdateMove(c, p[1], c.moves[p[2]])]
<1>0. c.moves \in Seq(Moves) /\ len \in Nat /\ DOMAIN c.moves = 1 .. len
  BY DEF ChangeSets
<1>1. base \in Updates
  <2>1. << >> \in Seq(Moves)
    OBVIOUS
  <2> QED BY <2>1 DEF Updates
<1>2. F \in [Updates \X (1 .. len) -> Updates]
  <2>1. ASSUME NEW d \in Updates, NEW k \in 1 .. len
        PROVE  UpdateMove(c, d, c.moves[k]) \in Updates
    <3>1. c.moves[k] \in Moves
      BY <1>0, ElementOfSeq
    <3> QED BY <3>1, UpdateMoveCases
  <2> HIDE DEF len
  <2> QED BY <2>1
<1>3. \E g : Folds(g)
  <2> HIDE DEF base
  <2>1. PICK g \in [SUBSET (1 .. len) -> Updates] : Folded(g, len, base, F)
    <3> HIDE DEF F
    <3> QED BY <1>0, <1>1, <1>2, FoldIsThere
  <2>2. ASSUME NEW s \in SUBSET (1 .. len), s # {}
        PROVE  F[<<g[s \ {Max(s)}], Max(s)>>] = UpdateMove(c, g[s \ {Max(s)}], c.moves[Max(s)])
    <3>1. Max(s) \in 1 .. len
      BY <1>0, <2>2, LastOfInitial
    <3>2. g[s \ {Max(s)}] \in Updates
      BY <2>1
    <3> QED BY <3>1, <3>2
  <2>3. g = [s \in SUBSET (1 .. len) |->
               IF s = {} THEN base ELSE UpdateMove(c, g[s \ {Max(s)}], c.moves[Max(s)])]
    <3> HIDE DEF F
    <3> QED BY <2>1, <2>2 DEF Folded
  <2> QED BY <1>0, <2>3
<1> DEFINE f == CHOOSE g : Folds(g)
           h == [k \in 0 .. len |-> f[1 .. k]]
<1>4. UpdateMoves(c, n) = f[DOMAIN c.moves]
  BY DEF UpdateMoves, FoldLeft, MapThenFoldSet
<1>5. Folds(f)
  <2> HIDE DEF Folds
  <2> QED BY <1>3
<1> HIDE DEF f, base
<1>6. f[{}] = base
  BY <1>5
<1>7. \A k \in 1 .. len : f[1 .. k] = UpdateMove(c, f[1 .. k - 1], c.moves[k])
  <2> TAKE k \in 1 .. len
  <2>1. k \in Nat \ {0} /\ 1 .. k \in SUBSET DOMAIN c.moves
    BY <1>0
  <2>2. 1 .. k # {} /\ Max(1 .. k) = k /\ (1 .. k) \ {k} = 1 .. k - 1
    BY <2>1, InitialSegments
  <2> QED BY <1>5, <2>1, <2>2
<1>8. h[0] = base
  BY <1>0, <1>6
<1>9. \A k \in 1 .. len : h[k] = UpdateMove(c, h[k - 1], c.moves[k])
  BY <1>0, <1>7
<1>10. UpdateMoves(c, n) = h[len]
  BY <1>0, <1>4
<1> QED BY <1>8, <1>9, <1>10 DEF base

(* Moves from different places to different places, and n's of what it     *)
(* deletes.                                                                *)
DifferentMoves(moves) ==
  \A k, l \in DOMAIN moves : moves[k].from = moves[l].from => k = l

MovesApart(c, n) ==
  /\ DifferentMoves(c.moves) /\ DifferentMoves(n.moves)
  /\ \A k, l \in DOMAIN c.moves : c.moves[k].to = c.moves[l].to => k = l
  /\ \A j \in DOMAIN n.moves : n.moves[j].from \in n.deletions

(* What the first k old moves have left of the new ones.                   *)
NewMovesLeft(c, n, moves, k) ==
  /\ \A i \in DOMAIN moves :
       /\ \E j \in DOMAIN n.moves : moves[i] = n.moves[j]
       /\ \A l \in 1 .. k : moves[i].from # c.moves[l].to
  /\ DifferentMoves(moves)
  /\ \A j \in DOMAIN n.moves :
       (\A l \in 1 .. k : n.moves[j].from # c.moves[l].to)
         => \E i \in DOMAIN moves : moves[i] = n.moves[j]

(* What the first k old moves have become.                                 *)
OldMovesUpdated(c, n, moves, k) ==
  /\ \A i \in DOMAIN moves : \E l \in 1 .. k :
       moves[i].from = c.moves[l].from /\ GoesOn(n, c.moves[l].to, moves[i].to)
  /\ DifferentMoves(moves)
  /\ \A l \in 1 .. k, t \in Nat : GoesOn(n, c.moves[l].to, t) =>
       \E i \in DOMAIN moves : moves[i] = [from |-> c.moves[l].from, to |-> t]

(* Rows that the old changes have modified and both have moved.            *)
MovedAgain(c, n, t, k) ==
  \E l \in 1 .. k, j \in DOMAIN n.moves :
    /\ n.moves[j].from = c.moves[l].to /\ n.moves[j].to = t
    /\ n.moves[j].from \in c.modifications

Updated(c, n, s, k) ==
  /\ s \in Updates
  /\ s.new.deletions = n.deletions /\ s.new.insertions = n.insertions
  /\ NewMovesLeft(c, n, s.new.moves, k)
  /\ OldMovesUpdated(c, n, s.old, k)
  /\ \A t \in Nat : t \in s.new.modifications
                      <=> t \in n.modifications \/ MovedAgain(c, n, t, k)

(* One more. *)
LEMMA OneMore ==
  ASSUME NEW k \in Nat
  PROVE  /\ 1 .. k + 1 = (1 .. k) \cup {k + 1} /\ k + 1 \notin 1 .. k /\ k + 1 \in 1 .. k + 1
         /\ 1 .. k \subseteq 1 .. k + 1
OBVIOUS

(* The loop over the old moves goes on by one: the move is made longer by  *)
(* a new one, which goes, is dropped with the row, or is shifted.          *)
LEMMA UpdateOne ==
  ASSUME NEW c \in ChangeSets, NEW n \in ChangeSets, MovesApart(c, n),
         NEW k \in Nat, k + 1 \in DOMAIN c.moves, NEW s, Updated(c, n, s, k)
  PROVE  Updated(c, n, UpdateMove(c, s, c.moves[k + 1]), k + 1)
<1> DEFINE m == c.moves[k + 1]
           u == UpdateMove(c, s, m)
<1>0. /\ c.moves \in Seq(Moves) /\ n.moves \in Seq(Moves) /\ m \in Moves
      /\ 1 .. k + 1 \subseteq DOMAIN c.moves
  <2>1. c.moves \in Seq(Moves) /\ n.moves \in Seq(Moves)
    BY DEF ChangeSets
  <2>2. 1 .. k + 1 \subseteq DOMAIN c.moves
    BY <2>1
  <2> QED BY <2>1, <2>2, ElementOfSeq
<1>1. /\ s \in Updates
      /\ s.new.deletions = n.deletions /\ s.new.insertions = n.insertions
      /\ NewMovesLeft(c, n, s.new.moves, k)
      /\ OldMovesUpdated(c, n, s.old, k)
      /\ \A t \in Nat : t \in s.new.modifications
                      <=> t \in n.modifications \/ MovedAgain(c, n, t, k)
  BY DEF Updated
<1>2. /\ \A a, b \in DOMAIN c.moves : c.moves[a].from = c.moves[b].from => a = b
      /\ \A a, b \in DOMAIN c.moves : c.moves[a].to = c.moves[b].to => a = b
      /\ \A a, b \in DOMAIN n.moves : n.moves[a].from = n.moves[b].from => a = b
      /\ \A j \in DOMAIN n.moves : n.moves[j].from \in n.deletions
      /\ \A j \in DOMAIN n.moves : n.moves[j] \in Moves /\ n.moves[j].to \in Nat
  <2>1. \A j \in DOMAIN n.moves : n.moves[j] \in Moves
    BY <1>0, ElementOfSeq
  <2> QED BY <2>1 DEF MovesApart, DifferentMoves, Moves
<1>3. \A l \in 1 .. k : c.moves[l].to # m.to /\ c.moves[l].from # m.from
  BY <1>0, <1>2, OneMore
<1>4. s.old \in Seq(Moves) /\ s.new.moves \in Seq(Moves)
  BY <1>1 DEF Updates, ChangeSets
<1>5. /\ \A i \in DOMAIN s.new.moves :
           /\ \E j \in DOMAIN n.moves : s.new.moves[i] = n.moves[j]
           /\ \A l \in 1 .. k : s.new.moves[i].from # c.moves[l].to
      /\ \A i, j \in DOMAIN s.new.moves : s.new.moves[i].from = s.new.moves[j].from => i = j
      /\ \A j \in DOMAIN n.moves :
           (\A l \in 1 .. k : n.moves[j].from # c.moves[l].to)
             => \E i \in DOMAIN s.new.moves : s.new.moves[i] = n.moves[j]
  BY <1>1 DEF NewMovesLeft, DifferentMoves
<1>6. /\ \A i \in DOMAIN s.old : \E l \in 1 .. k :
           s.old[i].from = c.moves[l].from /\ GoesOn(n, c.moves[l].to, s.old[i].to)
      /\ \A i, j \in DOMAIN s.old : s.old[i].from = s.old[j].from => i = j
      /\ \A l \in 1 .. k, t \in Nat : GoesOn(n, c.moves[l].to, t) =>
           \E i \in DOMAIN s.old : s.old[i] = [from |-> c.moves[l].from, to |-> t]
  BY <1>1 DEF OldMovesUpdated, DifferentMoves
<1>a. s \in Updates /\ m \in Moves
  BY <1>0, <1>1
<1>b. /\ u \in Updates
      /\ u.new.deletions = s.new.deletions
      /\ u.new.insertions = s.new.insertions
  BY ONLY <1>a, UpdateMoveCases, c \in ChangeSets
<1>7. /\ u \in Updates
      /\ u.new.deletions = n.deletions /\ u.new.insertions = n.insertions
  BY <1>1, <1>b
<1>8. \A j \in DOMAIN n.moves :
        n.moves[j].from = m.to => \E i \in Again(s, m) : s.new.moves[i] = n.moves[j]
  <2> TAKE j \in DOMAIN n.moves
  <2> HAVE n.moves[j].from = m.to
  <2>1. PICK i \in DOMAIN s.new.moves : s.new.moves[i] = n.moves[j]
    BY <1>3, <1>5
  <2> QED BY <2>1 DEF Again
<1>9. /\ 1 .. k + 1 = (1 .. k) \cup {k + 1} /\ k + 1 \notin 1 .. k
  BY OneMore
<1> HIDE DEF m
(* One more old move, which goes on to `to'. *)
<1>10. ASSUME NEW to \in Nat, \A t \in Nat : GoesOn(n, m.to, t) <=> t = to
       PROVE  OldMovesUpdated(c, n, Append(s.old, Move(m.from, to)), k + 1)
  <2> DEFINE moves == Append(s.old, Move(m.from, to))
             e == Len(s.old) + 1
  <2>1. Move(m.from, to) \in Moves
    BY <1>0, <1>10 DEF Move, Moves
  <2>2. /\ DOMAIN moves = DOMAIN s.old \cup {e} /\ e \notin DOMAIN s.old
        /\ \A i \in DOMAIN s.old : moves[i] = s.old[i]
        /\ moves[e] = Move(m.from, to)
    BY ONLY <1>4, <2>1, AppendedMove
  <2>3. Move(m.from, to) = [from |-> m.from, to |-> to] /\ Move(m.from, to).from = m.from
        /\ Move(m.from, to).to = to
    BY DEF Move
  <2> HIDE DEF moves, e
  <2>4. ASSUME NEW i \in DOMAIN moves
        PROVE  \E l \in 1 .. k + 1 :
                 moves[i].from = c.moves[l].from /\ GoesOn(n, c.moves[l].to, moves[i].to)
    <3>1. CASE i = e
      BY <1>9, <1>10, <2>2, <2>3, <3>1 DEF m
    <3>2. CASE i \in DOMAIN s.old
      BY <1>6, <1>9, <2>2, <3>2
    <3> QED BY <2>2, <3>1, <3>2
  <2>5. \A i \in DOMAIN s.old : s.old[i].from # m.from
    BY <1>3, <1>6
  <2>6. DifferentMoves(moves)
    BY <1>6, <2>2, <2>3, <2>5 DEF DifferentMoves
  <2>7. ASSUME NEW l \in 1 .. k + 1, NEW t \in Nat, GoesOn(n, c.moves[l].to, t)
        PROVE  \E i \in DOMAIN moves : moves[i] = [from |-> c.moves[l].from, to |-> t]
    <3>1. CASE l = k + 1
      BY <1>10, <2>2, <2>3, <2>7, <3>1 DEF m
    <3>2. CASE l \in 1 .. k
      BY <1>6, <2>2, <2>7, <3>2
    <3> QED BY <1>9, <3>1, <3>2
  <2> QED BY <2>4, <2>6, <2>7 DEF OldMovesUpdated, moves
(* No new move is from where the old one is to. *)
<1>11. ASSUME \A j \in DOMAIN n.moves : n.moves[j].from # m.to
       PROVE  /\ NewMovesLeft(c, n, s.new.moves, k + 1)
              /\ \A t \in Nat : MovedAgain(c, n, t, k + 1) <=> MovedAgain(c, n, t, k)
  <2>1. NewMovesLeft(c, n, s.new.moves, k + 1)
    <3>1. \A i \in DOMAIN s.new.moves, l \in 1 .. k + 1 : s.new.moves[i].from # c.moves[l].to
      BY <1>5, <1>9, <1>11 DEF m
    <3>2. \A j \in DOMAIN n.moves :
            (\A l \in 1 .. k + 1 : n.moves[j].from # c.moves[l].to)
              => \E i \in DOMAIN s.new.moves : s.new.moves[i] = n.moves[j]
      BY <1>5, <1>9
    <3> QED BY <1>5, <3>1, <3>2 DEF NewMovesLeft, DifferentMoves
  <2>2. \A t \in Nat : MovedAgain(c, n, t, k + 1) <=> MovedAgain(c, n, t, k)
    BY <1>9, <1>11 DEF MovedAgain, m
  <2> QED BY <2>1, <2>2
<1>12. CASE Again(s, m) # {}
  <2> DEFINE w(x) == s.new.moves[x]
  <2>1. PICK x \in Again(s, m) :
          /\ u.old = Append(s.old, Move(m.from, w(x).to))
          /\ u.new.moves = Front(ReplaceAt(s.new.moves, x, Last(s.new.moves)))
          /\ u.new.modifications = IF w(x).from \in c.modifications
                                   THEN s.new.modifications \cup {w(x).to}
                                   ELSE s.new.modifications
    BY ONLY <1>a, <1>12, UpdateMoveCases, c \in ChangeSets
  <2>2. x \in DOMAIN s.new.moves /\ w(x).from = m.to
    BY DEF Again
  <2>3. PICK j \in DOMAIN n.moves : w(x) = n.moves[j]
    BY <1>5, <2>2
  <2>4. w(x).to \in Nat
    BY <1>2, <2>3
  <2>5. ASSUME NEW t \in Nat PROVE GoesOn(n, m.to, t) <=> t = w(x).to
    <3>1. m.to \in n.deletions
      BY <1>2, <2>2, <2>3
    <3>2. ASSUME NEW i \in DOMAIN n.moves, n.moves[i] = [from |-> m.to, to |-> t]
          PROVE  t = w(x).to
      <4>1. i = j
        BY <1>2, <2>2, <2>3, <3>2
      <4> QED BY <2>3, <3>2, <4>1
    <3>3. n.moves[j] = [from |-> m.to, to |-> w(x).to]
      <4>1. n.moves[j] \in Moves
        BY <1>2
      <4> QED BY <2>2, <2>3, <4>1 DEF Moves
    <3> QED BY <3>1, <3>2, <3>3 DEF GoesOn
  <2>6. OldMovesUpdated(c, n, u.old, k + 1)
    BY <1>10, <2>1, <2>4, <2>5
  <2> DEFINE r == Front(ReplaceAt(s.new.moves, x, Last(s.new.moves)))
  <2>7. /\ \A i \in DOMAIN r : \E y \in DOMAIN s.new.moves \ {x} : r[i] = s.new.moves[y]
        /\ \A y \in DOMAIN s.new.moves \ {x} : \E i \in DOMAIN r : r[i] = s.new.moves[y]
        /\ \A i, y \in DOMAIN r :
             (\A a, b \in DOMAIN s.new.moves : s.new.moves[a] = s.new.moves[b] => a = b)
               => (r[i] = r[y] => i = y)
    <3>1. s.new.moves \in Seq(Moves) /\ x \in DOMAIN s.new.moves
      BY <1>4, <2>2
    <3> QED BY ONLY <3>1, LastMovedOver
  <2>8. u.new.moves = r
    BY <2>1
  <2> HIDE DEF r
  <2>9. NewMovesLeft(c, n, r, k + 1)
    <3>1. ASSUME NEW i \in DOMAIN r
          PROVE  /\ \E a \in DOMAIN n.moves : r[i] = n.moves[a]
                 /\ \A l \in 1 .. k + 1 : r[i].from # c.moves[l].to
      <4>1. PICK y \in DOMAIN s.new.moves \ {x} : r[i] = s.new.moves[y]
        BY <2>7
      <4>2. s.new.moves[y].from # m.to
        BY <1>5, <2>2, <4>1
      <4>3. \A l \in 1 .. k : r[i].from # c.moves[l].to
        BY <1>5, <4>1
      <4>4. \E a \in DOMAIN n.moves : r[i] = n.moves[a]
        BY <1>5, <4>1
      <4> QED BY <1>9, <4>1, <4>2, <4>3, <4>4 DEF m
    <3>2. ASSUME NEW i \in DOMAIN r, NEW y \in DOMAIN r, r[i].from = r[y].from PROVE i = y
      <4>1. PICK a \in DOMAIN s.new.moves : r[i] = s.new.moves[a]
        BY <2>7
      <4>2. PICK b \in DOMAIN s.new.moves : r[y] = s.new.moves[b]
        BY <2>7
      <4>3. a = b
        BY <1>5, <3>2, <4>1, <4>2
      <4>4. \A p, q \in DOMAIN s.new.moves : s.new.moves[p] = s.new.moves[q] => p = q
        BY <1>5
      <4> QED BY <2>7, <4>1, <4>2, <4>3, <4>4
    <3>3. ASSUME NEW a \in DOMAIN n.moves, \A l \in 1 .. k + 1 : n.moves[a].from # c.moves[l].to
          PROVE  \E i \in DOMAIN r : r[i] = n.moves[a]
      <4>1. n.moves[a].from # m.to /\ \A l \in 1 .. k : n.moves[a].from # c.moves[l].to
        BY <1>9, <3>3 DEF m
      <4>2. PICK y \in DOMAIN s.new.moves : s.new.moves[y] = n.moves[a]
        BY <1>5, <4>1
      <4>3. y # x
        BY <2>2, <4>1, <4>2
      <4> QED BY <2>7, <4>2, <4>3
    <3> QED BY <3>1, <3>2, <3>3 DEF NewMovesLeft, DifferentMoves
  <2>10. ASSUME NEW t \in Nat
         PROVE  t \in u.new.modifications <=> t \in n.modifications \/ MovedAgain(c, n, t, k + 1)
    <3>1. MovedAgain(c, n, t, k + 1) <=>
            MovedAgain(c, n, t, k) \/ (m.to \in c.modifications /\ t = w(x).to)
      <4>1. ASSUME NEW a \in DOMAIN n.moves, n.moves[a].from = m.to PROVE a = j
        BY <1>2, <2>2, <2>3, <4>1
      <4>2. n.moves[j].from = m.to /\ n.moves[j].to = w(x).to
        BY <2>2, <2>3
      <4> HIDE DEF w
      <4> QED BY <1>9, <4>1, <4>2 DEF MovedAgain, m
    <3>2. t \in u.new.modifications <=>
            t \in s.new.modifications \/ (m.to \in c.modifications /\ t = w(x).to)
      BY <2>1, <2>2
    <3> QED BY <1>1, <3>1, <3>2
  <2> HIDE DEF u
  <2> QED BY <1>7, <2>6, <2>8, <2>9, <2>10 DEF Updated, u, m
<1>13. CASE Again(s, m) = {}
  <2>1. \A j \in DOMAIN n.moves : n.moves[j].from # m.to
    BY <1>8, <1>13
  <2>2. NewMovesLeft(c, n, s.new.moves, k + 1)
    BY <1>11, <2>1
  <2>3. \A t \in Nat : MovedAgain(c, n, t, k + 1) <=> MovedAgain(c, n, t, k)
    BY <1>11, <2>1
  <2>4. \A t \in Nat : GoesOn(n, m.to, t)
                         <=> m.to \notin n.deletions /\ t = Before(n.insertions, n.deletions, m.to)
    BY <2>1 DEF GoesOn
  <2>5. CASE m.to \in n.deletions
    <3>1. u = s
      BY ONLY <1>1, <1>a, <1>13, <2>5, UpdateMoveCases, c \in ChangeSets
    <3>2. OldMovesUpdated(c, n, s.old, k + 1)
      <4>1. \A t \in Nat : ~ GoesOn(n, c.moves[k + 1].to, t)
        BY <2>4, <2>5 DEF m
      <4>2. \A l \in 1 .. k + 1, t \in Nat : GoesOn(n, c.moves[l].to, t) =>
              \E i \in DOMAIN s.old : s.old[i] = [from |-> c.moves[l].from, to |-> t]
        BY <1>6, <1>9, <4>1
      <4>3. \A i \in DOMAIN s.old : \E l \in 1 .. k + 1 :
              s.old[i].from = c.moves[l].from /\ GoesOn(n, c.moves[l].to, s.old[i].to)
        BY <1>6, <1>9
      <4> QED BY <1>6, <4>2, <4>3 DEF OldMovesUpdated, DifferentMoves
    <3> HIDE DEF u
    <3> QED BY <1>1, <2>2, <2>3, <3>1, <3>2 DEF Updated, u, m
  <2>6. CASE m.to \notin n.deletions
    <3> DEFINE to == Before(n.insertions, n.deletions, m.to)
    <3>1. u.old = Append(s.old, Move(m.from, to)) /\ u.new = s.new
      BY <1>1, <1>a, <1>13, <2>6, UpdateMoveCases
    <3>2. to \in Nat
      <4>1. m.to \in Nat /\ n.insertions \in IndexSets /\ n.deletions \in IndexSets
        BY <1>0 DEF Moves, ChangeSets
      <4> QED BY <2>6, <4>1, BeforeIsIncreasing
    <3> HIDE DEF to
    <3>3. \A t \in Nat : GoesOn(n, m.to, t) <=> t = to
      BY <2>4, <2>6 DEF to
    <3>4. OldMovesUpdated(c, n, u.old, k + 1)
      BY <1>10, <3>1, <3>2, <3>3
    <3> HIDE DEF u
    <3> QED BY <1>1, <1>7, <2>2, <2>3, <3>1, <3>4 DEF Updated, u, m
  <2> QED BY <2>5, <2>6
<1> QED BY <1>12, <1>13 DEF m

(* So for all old moves. *)
LEMMA UpdateAll ==
  ASSUME NEW c \in ChangeSets, NEW n \in ChangeSets, MovesApart(c, n)
  PROVE  Updated(c, n, UpdateMoves(c, n), Len(c.moves))
<1> DEFINE len == Len(c.moves)
           base == [old |-> << >>, new |-> n]
<1>0. len \in Nat /\ DOMAIN c.moves = 1 .. len /\ c.moves \in Seq(Moves) /\ n.moves \in Seq(Moves)
  BY DEF ChangeSets
<1>1. PICK h : /\ h[0] = base
               /\ \A k \in 1 .. len : h[k] = UpdateMove(c, h[k - 1], c.moves[k])
               /\ UpdateMoves(c, n) = h[len]
  BY UpdateMovesSteps
<1> DEFINE T == {k \in Nat : k <= len => Updated(c, n, h[k], k)}
<1>2. 0 \in T
  <2>1. base \in Updates
    <3>1. << >> \in Seq(Moves)
      OBVIOUS
    <3> QED BY <3>1 DEF Updates
  <2>2. base.old = << >> /\ base.new = n /\ DOMAIN << >> = {} /\ 1 .. 0 = {}
    OBVIOUS
  <2> HIDE DEF base
  <2>3. NewMovesLeft(c, n, base.new.moves, 0)
    BY <2>2 DEF NewMovesLeft, MovesApart
  <2>4. OldMovesUpdated(c, n, base.old, 0)
    BY <2>2 DEF OldMovesUpdated, DifferentMoves
  <2>5. \A t \in Nat : ~ MovedAgain(c, n, t, 0)
    BY <2>2 DEF MovedAgain
  <2>6. Updated(c, n, base, 0)
    BY <2>1, <2>2, <2>3, <2>4, <2>5 DEF Updated
  <2> QED BY <1>1, <2>6
<1>3. ASSUME NEW k \in Nat, k \in T PROVE k + 1 \in T
  <2> SUFFICES ASSUME k + 1 <= len PROVE Updated(c, n, h[k + 1], k + 1)
    OBVIOUS
  <2>1. Updated(c, n, h[k], k)
    BY <1>0, <1>3
  <2>2. k + 1 \in DOMAIN c.moves /\ (k + 1) - 1 = k
    <3> HIDE DEF len
    <3> QED BY <1>0
  <2>3. h[k + 1] = UpdateMove(c, h[k], c.moves[k + 1])
    BY <1>0, <1>1, <2>2
  <2> QED BY <2>1, <2>2, <2>3, UpdateOne
<1>4. Nat \subseteq T
  <2> HIDE DEF T
  <2> QED BY <1>2, <1>3, Induction
<1> QED BY <1>0, <1>1, <1>4

(* One sequence after another. *)
LEMMA Concatenated ==
  ASSUME NEW E, NEW a \in Seq(E), NEW b \in Seq(E)
  PROVE  /\ a \o b \in Seq(E)
         /\ \A i \in DOMAIN a : i \in DOMAIN (a \o b) /\ (a \o b)[i] = a[i]
         /\ \A i \in DOMAIN b : Len(a) + i \in DOMAIN (a \o b) /\ (a \o b)[Len(a) + i] = b[i]
         /\ \A k \in DOMAIN (a \o b) : \/ k \in DOMAIN a
                                       \/ \E i \in DOMAIN b : k = Len(a) + i
<1> DEFINE ab == a \o b
<1>1. /\ ab \in Seq(E) /\ Len(ab) = Len(a) + Len(b)
      /\ \A k \in 1 .. Len(a) + Len(b) : ab[k] = IF k <= Len(a) THEN a[k] ELSE b[k - Len(a)]
  OBVIOUS
<1>2. /\ DOMAIN a = 1 .. Len(a) /\ DOMAIN b = 1 .. Len(b) /\ Len(a) \in Nat /\ Len(b) \in Nat
      /\ DOMAIN ab = 1 .. Len(a) + Len(b)
  BY <1>1
<1> HIDE DEF ab
<1>3. \A i \in DOMAIN a : i \in DOMAIN ab /\ ab[i] = a[i]
  BY <1>1, <1>2
<1>4. \A i \in DOMAIN b : Len(a) + i \in DOMAIN ab /\ ab[Len(a) + i] = b[i]
  <2> TAKE i \in DOMAIN b
  <2>1. Len(a) + i \in 1 .. Len(a) + Len(b) /\ ~ (Len(a) + i <= Len(a)) /\ (Len(a) + i) - Len(a) = i
    BY <1>2
  <2> QED BY <1>1, <1>2, <2>1
<1>5. ASSUME NEW k \in DOMAIN ab, k \notin DOMAIN a
      PROVE  \E i \in DOMAIN b : k = Len(a) + i
  <2>1. k - Len(a) \in DOMAIN b /\ k = Len(a) + (k - Len(a))
    BY <1>2, <1>5
  <2> QED BY <2>1
<1> QED BY <1>1, <1>3, <1>4, <1>5 DEF ab

(* Indices carried on: erased and shifted. *)
LEMMA Carried ==
  ASSUME NEW S \in IndexSets, NEW D \in IndexSets, NEW I \in IndexSets
  PROVE  /\ shift_for_insert_at(erase_at(S, D), I) \in IndexSets
         /\ \A t \in Nat : t \in shift_for_insert_at(erase_at(S, D), I)
              <=> t \notin I /\ Before(D, I, t) \in S
<1> DEFINE shifted == shift_for_insert_at(erase_at(S, D), I)
<1>1. shifted \in IndexSets
  <2>1. shifted \cup I \in IndexSets
    BY ErasedAndInserted DEF insert_at
  <2> QED BY <2>1, FS_Subset DEF IndexSets
<1>2. ASSUME NEW t \in Nat, t \in shifted PROVE t \notin I /\ Before(D, I, t) \in S
  <2>1. PICK v \in S \ D : t = Before(I, D, v)
    BY <1>2 DEF shift_for_insert_at, erase_at, Before
  <2>2. v \in Nat \ D
    BY DEF IndexSets
  <2>3. t \in Nat \ I /\ Before(D, I, t) = v
    BY <2>1, <2>2, BeforeIsIncreasing
  <2> QED BY <2>3
<1>3. ASSUME NEW t \in Nat, t \notin I, Before(D, I, t) \in S PROVE t \in shifted
  <2> DEFINE v == Before(D, I, t)
  <2>1. v \in Nat \ D /\ t = Before(I, D, v)
    BY <1>3, BeforeIsIncreasing
  <2>2. v \in S \ D
    BY <1>3, <2>1
  <2> HIDE DEF v
  <2> QED BY <2>1, <2>2 DEF shift_for_insert_at, erase_at, Before
<1> QED BY <1>1, <1>2, <1>3

(* What the moves of both are. *)
MovesOfBoth(c, n, moves) ==
  /\ \A k \in DOMAIN moves :
       \/ \E l \in DOMAIN c.moves : /\ moves[k].from = c.moves[l].from
                                    /\ GoesOn(n, c.moves[l].to, moves[k].to)
       \/ \E j \in DOMAIN n.moves : /\ n.moves[j].from \notin c.insertions
                                    /\ moves[k].from = Source(c, n.moves[j].from)
                                    /\ moves[k].to = n.moves[j].to
  /\ DifferentMoves(moves)
  /\ \A l \in DOMAIN c.moves, t \in Nat : GoesOn(n, c.moves[l].to, t) =>
       \E k \in DOMAIN moves : moves[k] = [from |-> c.moves[l].from, to |-> t]
  /\ \A j \in DOMAIN n.moves : n.moves[j].from \notin c.insertions =>
       \E k \in DOMAIN moves : moves[k] = [from |-> Source(c, n.moves[j].from),
                                           to   |-> n.moves[j].to]

(* The rows of moves that both have modified: by the old changes, and then *)
(* moved by the new ones.                                                  *)
ModifiedAndMoved(c, n, t) ==
  \E j \in DOMAIN n.moves :
    /\ n.moves[j].to = t /\ n.moves[j].from \in c.modifications
    /\ n.moves[j].from \notin c.insertions \/ \E l \in DOMAIN c.moves : c.moves[l].to = n.moves[j].from

(* The places that some moves lead to. *)
LEMMA ImageOfMoves ==
  ASSUME NEW moves \in Seq(Moves), NEW S
  PROVE  {m.to : m \in {x \in ToSet(moves) : x.from \in S}} \in IndexSets
<1> DEFINE K == {k \in DOMAIN moves : moves[k].from \in S}
           f == [k \in K |-> moves[k].to]
<1>1. {m.to : m \in {x \in ToSet(moves) : x.from \in S}} = {f[k] : k \in K}
  BY DEF ToSet
<1>2. f \in [K -> Nat]
  <2>1. \A k \in K : moves[k] \in Moves
    BY ElementOfSeq
  <2> QED BY <2>1 DEF Moves
<1>3. IsFiniteSet(K)
  <2>1. IsFiniteSet(1 .. Len(moves)) /\ DOMAIN moves = 1 .. Len(moves)
    BY FS_Interval
  <2> QED BY <2>1, FS_Subset
<1> HIDE DEF f, K
<1> QED BY <1>1, <1>2, <1>3, ImageIsFinite

(* What the merge of two change sets makes of each of their parts, before  *)
(* stale moves are cleaned up.                                             *)
LEMMA BothMoves ==
  ASSUME NEW c \in ChangeSets, NEW n \in ChangeSets, MovesApart(c, n),
         \A l \in DOMAIN c.moves : c.moves[l].from \in c.deletions /\ c.moves[l].to \in c.insertions
  PROVE  /\ Both(c, n) \in ChangeSets
         /\ Both(c, n).deletions = add_shifted_by(c.deletions, c.insertions, n.deletions)
         /\ Both(c, n).insertions = insert_at(erase_at(c.insertions, n.deletions), n.insertions)
         /\ MovesOfBoth(c, n, Both(c, n).moves)
         /\ \A t \in Nat : t \in Both(c, n).modifications
              <=> \/ t \in n.modifications
                  \/ t \notin n.insertions /\ Before(n.deletions, n.insertions, t) \in c.modifications
                  \/ ModifiedAndMoved(c, n, t)
<1> DEFINE u == UpdateMoves(c, n)
           left == {k \in 0 .. Len(u.new.moves) - 1 : u.new.moves[k + 1].from \in c.insertions}
           new == Without(u.new.moves, left)
           from(k) == Source(c, new[k].from)
           last == [k \in DOMAIN new |-> [new[k] EXCEPT !.from = Source(c, @)]]
           I == insert_at(erase_at(c.insertions, n.deletions), n.insertions)
           shifted == shift_for_insert_at(erase_at(c.modifications, n.deletions), n.insertions)
           moved == {m.to : m \in {x \in ToSet(new) : x.from \in c.modifications}}
           b == Both(c, n)
<1>0. /\ c.moves \in Seq(Moves) /\ n.moves \in Seq(Moves) /\ Len(c.moves) \in Nat
      /\ DOMAIN c.moves = 1 .. Len(c.moves)
      /\ c.deletions \in IndexSets /\ c.insertions \in IndexSets /\ c.modifications \in IndexSets
      /\ n.deletions \in IndexSets /\ n.insertions \in IndexSets /\ n.modifications \in IndexSets
      /\ c.mapping \in Mappings
  BY DEF ChangeSets
<1>1. /\ u \in Updates
      /\ u.new.deletions = n.deletions /\ u.new.insertions = n.insertions
      /\ NewMovesLeft(c, n, u.new.moves, Len(c.moves))
      /\ OldMovesUpdated(c, n, u.old, Len(c.moves))
      /\ \A t \in Nat : t \in u.new.modifications
                      <=> t \in n.modifications \/ MovedAgain(c, n, t, Len(c.moves))
  BY UpdateAll DEF Updated
<1>2. new = NewMoves(c, u.new)
  BY DEF NewMoves
<1>3. b = [c EXCEPT !.moves = u.old \o last,
                    !.deletions = add_shifted_by(@, c.insertions, n.deletions),
                    !.insertions = I,
                    !.modifications = (shifted \cup u.new.modifications) \cup moved]
  BY <1>2 DEF Both
<1> HIDE DEF u
<1>4. u.old \in Seq(Moves) /\ u.new.moves \in Seq(Moves) /\ u.new.modifications \in IndexSets
  BY <1>1 DEF Updates, ChangeSets
<1>5. left \in IndexSets
  <2>1. 0 .. Len(u.new.moves) - 1 \in SUBSET Nat /\ IsFiniteSet(0 .. Len(u.new.moves) - 1)
    BY <1>4, FS_Interval
  <2> QED BY <2>1, FS_Subset DEF IndexSets
<1>6. \A i \in DOMAIN u.new.moves : i - 1 \in left <=> u.new.moves[i].from \in c.insertions
  <2> TAKE i \in DOMAIN u.new.moves
  <2>1. i - 1 \in 0 .. Len(u.new.moves) - 1 /\ (i - 1) + 1 = i
    BY <1>4
  <2> QED BY <2>1
<1> HIDE DEF left
<1>7. /\ new \in Seq(Moves)
      /\ \A k \in DOMAIN new : \E i \in DOMAIN u.new.moves : i - 1 \notin left /\ new[k] = u.new.moves[i]
      /\ \A i \in DOMAIN u.new.moves : i - 1 \notin left => \E k \in DOMAIN new : new[k] = u.new.moves[i]
      /\ \A k, l \in DOMAIN new, i \in DOMAIN u.new.moves :
           (/\ \A j \in DOMAIN u.new.moves : u.new.moves[j] = u.new.moves[i] => j = i
            /\ new[k] = u.new.moves[i] /\ new[l] = u.new.moves[i]) => k = l
  <2>1. new \in Seq(Moves) /\ Remaining(new, u.new.moves, left)
    BY <1>4, <1>5, WithoutLeaves
  <2> HIDE DEF new
  <2> QED BY <2>1 DEF Remaining
<1> HIDE DEF new
<1>8. /\ \A i \in DOMAIN u.new.moves :
           /\ \E j \in DOMAIN n.moves : u.new.moves[i] = n.moves[j]
           /\ \A l \in DOMAIN c.moves : u.new.moves[i].from # c.moves[l].to
      /\ \A i, j \in DOMAIN u.new.moves : u.new.moves[i].from = u.new.moves[j].from => i = j
      /\ \A j \in DOMAIN n.moves :
           (\A l \in DOMAIN c.moves : n.moves[j].from # c.moves[l].to)
             => \E i \in DOMAIN u.new.moves : u.new.moves[i] = n.moves[j]
  BY <1>0, <1>1 DEF NewMovesLeft, DifferentMoves
<1>9. /\ \A i \in DOMAIN u.old : \E l \in DOMAIN c.moves :
           u.old[i].from = c.moves[l].from /\ GoesOn(n, c.moves[l].to, u.old[i].to)
      /\ \A i, j \in DOMAIN u.old : u.old[i].from = u.old[j].from => i = j
      /\ \A l \in DOMAIN c.moves, t \in Nat : GoesOn(n, c.moves[l].to, t) =>
           \E i \in DOMAIN u.old : u.old[i] = [from |-> c.moves[l].from, to |-> t]
  BY <1>0, <1>1 DEF OldMovesUpdated, DifferentMoves
(* The new moves that are left: those of what c has not inserted. *)
<1>10. \A k \in DOMAIN new : \E j \in DOMAIN n.moves :
         n.moves[j].from \notin c.insertions /\ new[k] = n.moves[j]
  <2> TAKE k \in DOMAIN new
  <2>1. PICK i \in DOMAIN u.new.moves : i - 1 \notin left /\ new[k] = u.new.moves[i]
    BY <1>7
  <2> QED BY <1>6, <1>8, <2>1
<1>11. \A j \in DOMAIN n.moves : n.moves[j].from \notin c.insertions =>
         \E k \in DOMAIN new : new[k] = n.moves[j]
  <2> TAKE j \in DOMAIN n.moves
  <2> HAVE n.moves[j].from \notin c.insertions
  <2>1. PICK i \in DOMAIN u.new.moves : u.new.moves[i] = n.moves[j]
    BY <1>8
  <2> QED BY <1>6, <1>7, <2>1
<1>12. \A k, l \in DOMAIN new : new[k].from = new[l].from => k = l
  <2> TAKE k, l \in DOMAIN new
  <2> HAVE new[k].from = new[l].from
  <2>1. PICK i \in DOMAIN u.new.moves : new[k] = u.new.moves[i]
    BY <1>7
  <2>2. PICK j \in DOMAIN u.new.moves : new[l] = u.new.moves[j]
    BY <1>7
  <2>3. i = j
    BY <1>8, <2>1, <2>2
  <2>4. \A x \in DOMAIN u.new.moves : u.new.moves[x] = u.new.moves[i] => x = i
    BY <1>8
  <2> QED BY <1>7, <2>1, <2>2, <2>3, <2>4
<1>13. \A k \in DOMAIN new : new[k] \in Moves /\ new[k].from \in Nat \ c.insertions /\ new[k].to \in Nat
  <2> TAKE k \in DOMAIN new
  <2>1. new[k] \in Moves
    BY <1>7, ElementOfSeq
  <2> QED BY <1>10, <2>1 DEF Moves
<1>14. \A k \in DOMAIN new : /\ from(k) \in Nat \ c.deletions
                             /\ Before(c.insertions, c.deletions, from(k)) = new[k].from
  BY <1>0, <1>13, BeforeIsIncreasing DEF Source, Before
<1>15. /\ DOMAIN last = DOMAIN new
       /\ \A k \in DOMAIN new : last[k] = [from |-> from(k), to |-> new[k].to]
  <2>1. \A k \in DOMAIN new : [new[k] EXCEPT !.from = Source(c, @)] = [from |-> from(k), to |-> new[k].to]
    BY <1>13 DEF Moves
  <2> QED BY <2>1
<1> HIDE DEF last
<1>16. \A k \in DOMAIN new : last[k].from = from(k) /\ last[k].to = new[k].to
  BY <1>15
<1>17. last \in Seq(Moves)
  <2>1. \A k \in DOMAIN last : last[k] \in Moves
    BY <1>13, <1>14, <1>15 DEF Moves
  <2>2. last = [k \in 1 .. Len(new) |-> last[k]] /\ Len(new) \in Nat /\ DOMAIN last = 1 .. Len(new)
    BY <1>7, <1>15 DEF last
  <2> QED BY <2>1, <2>2
<1> DEFINE moves == u.old \o last
<1>18. /\ moves \in Seq(Moves)
       /\ \A i \in DOMAIN u.old : i \in DOMAIN moves /\ moves[i] = u.old[i]
       /\ \A i \in DOMAIN last : Len(u.old) + i \in DOMAIN moves /\ moves[Len(u.old) + i] = last[i]
       /\ \A k \in DOMAIN moves : \/ k \in DOMAIN u.old
                                  \/ \E i \in DOMAIN last : k = Len(u.old) + i
  BY <1>4, <1>17, Concatenated
<1> HIDE DEF moves, from
<1>19. MovesOfBoth(c, n, moves)
  <2>1. ASSUME NEW k \in DOMAIN moves
        PROVE \/ \E l \in DOMAIN c.moves : /\ moves[k].from = c.moves[l].from
                                           /\ GoesOn(n, c.moves[l].to, moves[k].to)
              \/ \E j \in DOMAIN n.moves : /\ n.moves[j].from \notin c.insertions
                                           /\ moves[k].from = Source(c, n.moves[j].from)
                                           /\ moves[k].to = n.moves[j].to
    <3>1. CASE k \in DOMAIN u.old
      BY <1>9, <1>18, <3>1
    <3>2. ASSUME NEW i \in DOMAIN last, k = Len(u.old) + i
          PROVE  \E j \in DOMAIN n.moves : /\ n.moves[j].from \notin c.insertions
                                           /\ moves[k].from = Source(c, n.moves[j].from)
                                           /\ moves[k].to = n.moves[j].to
      <4>1. PICK j \in DOMAIN n.moves : n.moves[j].from \notin c.insertions /\ new[i] = n.moves[j]
        BY <1>10, <1>15
      <4>2. moves[k].from = Source(c, n.moves[j].from) /\ moves[k].to = n.moves[j].to
        BY <1>15, <1>16, <1>18, <3>2, <4>1 DEF from
      <4> QED BY <4>1, <4>2
    <3> QED BY <1>18, <3>1, <3>2
  <2>2. DifferentMoves(moves)
    <3> SUFFICES ASSUME NEW k \in DOMAIN moves, NEW l \in DOMAIN moves, moves[k].from = moves[l].from
                 PROVE  k = l
      BY DEF DifferentMoves
    <3>1. \A i \in DOMAIN u.old : moves[i].from \in c.deletions
      BY <1>9, <1>18
    <3>2. \A i \in DOMAIN last : moves[Len(u.old) + i].from = from(i) /\ from(i) \notin c.deletions
      BY <1>14, <1>15, <1>16, <1>18
    <3>3. CASE k \in DOMAIN u.old
      <4>1. l \in DOMAIN u.old
        BY <1>18, <3>1, <3>2, <3>3
      <4> QED BY <1>9, <1>18, <3>3, <4>1
    <3>4. CASE k \notin DOMAIN u.old
      <4>1. PICK i \in DOMAIN last : k = Len(u.old) + i
        BY <1>18, <3>4
      <4>2. l \notin DOMAIN u.old
        BY <3>1, <3>2, <4>1
      <4>3. PICK j \in DOMAIN last : l = Len(u.old) + j
        BY <1>18, <4>2
      <4>4. from(i) = from(j)
        BY <3>2, <4>1, <4>3
      <4>5. new[i].from = new[j].from
        BY <1>14, <1>15, <4>4
      <4> QED BY <1>12, <1>15, <4>1, <4>3, <4>5
    <3> QED BY <3>3, <3>4
  <2>3. \A l \in DOMAIN c.moves, t \in Nat : GoesOn(n, c.moves[l].to, t) =>
           \E k \in DOMAIN moves : moves[k] = [from |-> c.moves[l].from, to |-> t]
    <3> SUFFICES ASSUME NEW l \in DOMAIN c.moves, NEW t \in Nat, GoesOn(n, c.moves[l].to, t)
                 PROVE  \E k \in DOMAIN moves : moves[k] = [from |-> c.moves[l].from, to |-> t]
      OBVIOUS
    <3>1. PICK i \in DOMAIN u.old : u.old[i] = [from |-> c.moves[l].from, to |-> t]
      BY <1>9
    <3> QED BY <1>18, <3>1
  <2>4. ASSUME NEW j \in DOMAIN n.moves, n.moves[j].from \notin c.insertions
        PROVE  \E k \in DOMAIN moves : moves[k] = [from |-> Source(c, n.moves[j].from),
                                                   to   |-> n.moves[j].to]
    <3>1. PICK i \in DOMAIN new : new[i] = n.moves[j]
      BY <1>11, <2>4
    <3>2. last[i] = [from |-> Source(c, n.moves[j].from), to |-> n.moves[j].to]
      BY <1>15, <3>1 DEF from
    <3> QED BY <1>15, <1>18, <3>2
  <2> QED BY <2>1, <2>2, <2>3, <2>4 DEF MovesOfBoth
<1>20. \A t \in Nat : t \in shifted <=>
         t \notin n.insertions /\ Before(n.deletions, n.insertions, t) \in c.modifications
  BY <1>0, Carried
<1>21. \A t \in Nat : t \in moved \/ MovedAgain(c, n, t, Len(c.moves)) <=> ModifiedAndMoved(c, n, t)
  <2> TAKE t \in Nat
  <2>1. t \in moved <=> \E k \in DOMAIN new : new[k].to = t /\ new[k].from \in c.modifications
    BY DEF ToSet
  <2>2. (\E k \in DOMAIN new : new[k].to = t /\ new[k].from \in c.modifications)
          <=> \E j \in DOMAIN n.moves : /\ n.moves[j].to = t /\ n.moves[j].from \in c.modifications
                                        /\ n.moves[j].from \notin c.insertions
    BY <1>10, <1>11
  <2>3. MovedAgain(c, n, t, Len(c.moves)) <=>
          \E j \in DOMAIN n.moves : /\ n.moves[j].to = t /\ n.moves[j].from \in c.modifications
                                    /\ \E l \in DOMAIN c.moves : c.moves[l].to = n.moves[j].from
    BY <1>0 DEF MovedAgain
  <2> QED BY <2>1, <2>2, <2>3 DEF ModifiedAndMoved
<1>22. shifted \in IndexSets /\ moved \in IndexSets /\ I \in IndexSets
       /\ add_shifted_by(c.deletions, c.insertions, n.deletions) \in IndexSets
  <2>2. shifted \in IndexSets
    BY <1>0, Carried
  <2>3. moved \in IndexSets
    BY <1>7, ImageOfMoves
  <2>4. I \in IndexSets /\ add_shifted_by(c.deletions, c.insertions, n.deletions) \in IndexSets
    BY <1>0, ErasedAndInserted, DeletedBefore
  <2> QED BY <2>2, <2>3, <2>4
<1> HIDE DEF shifted, moved, I
<1>23. (shifted \cup u.new.modifications) \cup moved \in IndexSets
  BY <1>4, <1>22, UnionIsFinite
<1>24. b = [c EXCEPT !.moves = moves,
                     !.deletions = add_shifted_by(@, c.insertions, n.deletions),
                     !.insertions = I,
                     !.modifications = (shifted \cup u.new.modifications) \cup moved]
  BY <1>3 DEF moves
<1> HIDE DEF b
<1>25. b \in ChangeSets
  BY <1>18, <1>22, <1>23, <1>24 DEF ChangeSets
<1>26. /\ b.deletions = add_shifted_by(c.deletions, c.insertions, n.deletions)
       /\ b.insertions = I /\ b.moves = moves
       /\ b.modifications = (shifted \cup u.new.modifications) \cup moved
  BY <1>24 DEF ChangeSets
<1>27. \A t \in Nat : t \in b.modifications
              <=> \/ t \in n.modifications
                  \/ t \notin n.insertions /\ Before(n.deletions, n.insertions, t) \in c.modifications
                  \/ ModifiedAndMoved(c, n, t)
  BY <1>1, <1>20, <1>21, <1>26
<1> QED BY <1>19, <1>25, <1>26, <1>27 DEF b, I

(* The entries before and after are the same. *)
LEMMA KeptEntries ==
  ASSUME NEW D \in IndexSets, NEW I \in IndexSets,
         NEW E, NEW old \in Seq(E), NEW new \in Seq(E), FollowsIndices(D, I, old, new)
  PROVE  /\ \A i \in Indices(new) \ I :
              /\ Before(D, I, i) \in Indices(old) \ D
              /\ Before(I, D, Before(D, I, i)) = i
              /\ old[Before(D, I, i) + 1] = new[i + 1]
         /\ \A j \in Indices(old) \ D :
              /\ Before(I, D, j) \in Indices(new) \ I
              /\ Before(D, I, Before(I, D, j)) = j
              /\ old[j + 1] = new[Before(I, D, j) + 1]
<1>0. Len(old) \in Nat /\ Len(new) \in Nat
  OBVIOUS
<1>1. \A i \in Nat \ I : /\ i < Len(new) <=> Before(D, I, i) < Len(old)
                         /\ i < Len(new) => old[Before(D, I, i) + 1] = new[i + 1]
  BY DEF FollowsIndices
<1>2. ASSUME NEW i \in Indices(new) \ I
      PROVE  /\ Before(D, I, i) \in Indices(old) \ D
             /\ Before(I, D, Before(D, I, i)) = i
             /\ old[Before(D, I, i) + 1] = new[i + 1]
  <2>1. i \in Nat \ I /\ i < Len(new)
    BY <1>0 DEF Indices
  <2>2. Before(D, I, i) \in Nat \ D /\ Before(I, D, Before(D, I, i)) = i
    BY <2>1, BeforeIsIncreasing
  <2>3. Before(D, I, i) \in Indices(old)
    BY <1>0, <1>1, <2>1, <2>2 DEF Indices
  <2> QED BY <1>1, <2>1, <2>2, <2>3
<1>3. ASSUME NEW j \in Indices(old) \ D
      PROVE  /\ Before(I, D, j) \in Indices(new) \ I
             /\ Before(D, I, Before(I, D, j)) = j
             /\ old[j + 1] = new[Before(I, D, j) + 1]
  <2> DEFINE i == Before(I, D, j)
  <2>1. j \in Nat \ D /\ j < Len(old)
    BY <1>0 DEF Indices
  <2>2. i \in Nat \ I /\ Before(D, I, i) = j
    BY <2>1, BeforeIsIncreasing
  <2> HIDE DEF i
  <2>3. i < Len(new)
    BY <1>1, <2>1, <2>2
  <2>4. i \in Indices(new)
    BY <1>0, <2>2, <2>3 DEF Indices
  <2> QED BY <1>1, <2>2, <2>3, <2>4 DEF i
<1> QED BY <1>2, <1>3

(* An entry that is there before and after has stayed, or is deleted and   *)
(* inserted.                                                               *)
LEMMA SameEntry ==
  ASSUME NEW D \in IndexSets, NEW I \in IndexSets,
         NEW E, NEW old \in Seq(E), NEW new \in Seq(E), FollowsIndices(D, I, old, new),
         Distinct(old), Distinct(new),
         NEW j \in Indices(old), NEW i \in Indices(new), old[j + 1] = new[i + 1]
  PROVE  /\ i \in I <=> j \in D
         /\ i \notin I => Before(D, I, i) = j /\ Before(I, D, j) = i
<1>1. ASSUME i \notin I PROVE j \notin D /\ Before(D, I, i) = j
  <2>1. /\ Before(D, I, i) \in Indices(old) \ D
        /\ old[Before(D, I, i) + 1] = new[i + 1]
    BY <1>1, KeptEntries
  <2>2. Before(D, I, i) = j
    BY <2>1, DistinctIndices
  <2> QED BY <2>1, <2>2
<1>2. ASSUME j \notin D PROVE i \notin I /\ Before(I, D, j) = i
  <2>1. /\ Before(I, D, j) \in Indices(new) \ I
        /\ old[j + 1] = new[Before(I, D, j) + 1]
    BY <1>2, KeptEntries
  <2>2. Before(I, D, j) = i
    BY <2>1, DistinctIndices
  <2> QED BY <2>1, <2>2
<1> QED BY <1>1, <1>2

(* Nothing deleted or inserted: nothing has changed. *)
LEMMA EmptyLeadsNowhere ==
  ASSUME NEW c \in ChangeSets, c.deletions = {}, c.insertions = {},
         NEW E, NEW old \in Seq(E), NEW new \in Seq(E), Leads(c, old, new)
  PROVE  old = new
<1>1. {} \in IndexSets
  BY FS_EmptySet DEF IndexSets
<1>2. FollowsIndices({}, {}, old, new)
  BY <1>1, LeadsIsFollowing
<1>3. \A i \in Nat : unshift({}, i) = i
  <2> TAKE i \in Nat
  <2>1. {j \in {} : j < i} = {} /\ Cardinality({}) = 0
    BY FS_EmptySet
  <2> QED BY <2>1 DEF unshift, count
<1>4. \A i \in Nat : Before({}, {}, i) = i
  <2> TAKE i \in Nat
  <2>1. i \in Nat \ {}
    OBVIOUS
  <2>2. Before({}, {}, i) \in Nat /\ unshift({}, Before({}, {}, i)) = unshift({}, i)
    BY <1>1, <2>1, BeforeIsIncreasing
  <2> QED BY <1>3, <2>2
<1>5. \A i \in Nat : /\ i < Len(new) <=> i < Len(old)
                     /\ i < Len(new) => old[i + 1] = new[i + 1]
  <2> TAKE i \in Nat
  <2>1. i \in Nat \ {}
    OBVIOUS
  <2>2. /\ i < Len(new) <=> Before({}, {}, i) < Len(old)
        /\ i < Len(new) => old[Before({}, {}, i) + 1] = new[i + 1]
    BY <1>2, <2>1 DEF FollowsIndices
  <2> QED BY <1>4, <2>2
<1>6. Len(old) = Len(new)
  <2>1. Len(old) \in Nat /\ Len(new) \in Nat
    OBVIOUS
  <2>2. ~ (Len(old) < Len(new)) /\ ~ (Len(new) < Len(old))
    BY <1>5, <2>1
  <2> QED BY <2>1, <2>2
<1>7. \A k \in 1 .. Len(new) : old[k] = new[k]
  <2> TAKE k \in 1 .. Len(new)
  <2>1. k - 1 \in Nat /\ k - 1 < Len(new) /\ (k - 1) + 1 = k
    OBVIOUS
  <2> QED BY <1>5, <2>1
<1> QED BY <1>6, <1>7

(* Two change sets of which the second begins where the first one ends.    *)
LEMMA LeadingOn ==
  ASSUME NEW c \in ChangeSets, NEW n \in ChangeSets,
         NEW E, NEW old \in Seq(E), NEW mid \in Seq(E), NEW new \in Seq(E),
         Distinct(old),
         Leads(c, old, mid), MovesAreMoves(c, old, mid),
         Leads(n, mid, new), MovesAreMoves(n, mid, new)
  PROVE  /\ FollowsIndices(c.deletions, c.insertions, old, mid)
         /\ FollowsIndices(n.deletions, n.insertions, mid, new)
         /\ MovesApart(c, n)
         /\ \A l \in DOMAIN c.moves : c.moves[l].from \in c.deletions /\ c.moves[l].to \in c.insertions
<1>0. /\ c.deletions \in IndexSets /\ c.insertions \in IndexSets
      /\ n.deletions \in IndexSets /\ n.insertions \in IndexSets
  BY DEF ChangeSets
<1>1. FollowsIndices(c.deletions, c.insertions, old, mid)
  BY <1>0, LeadsIsFollowing
<1>2. FollowsIndices(n.deletions, n.insertions, mid, new)
  BY <1>0, LeadsIsFollowing
<1>3. \A k \in DOMAIN c.moves :
           /\ c.moves[k].from \in c.deletions /\ c.moves[k].to \in c.insertions
           /\ \A l \in DOMAIN c.moves : c.moves[l].from = c.moves[k].from => l = k
  BY MovesByIndex
<1>4. \A k \in DOMAIN n.moves :
           /\ n.moves[k].from \in n.deletions
           /\ \A l \in DOMAIN n.moves : n.moves[l].from = n.moves[k].from => l = k
  BY MovesByIndex
<1>5. \A k, l \in DOMAIN c.moves : c.moves[k].to = c.moves[l].to => k = l
  BY MovesToDifferentPlaces
<1>6. MovesApart(c, n)
  BY <1>3, <1>4, <1>5 DEF MovesApart, DifferentMoves
<1> QED BY <1>1, <1>2, <1>3, <1>6

(* The two, one after another, but for the modifications. *)
IsBoth(c, n, b) ==
  /\ b \in ChangeSets
  /\ b.deletions = add_shifted_by(c.deletions, c.insertions, n.deletions)
  /\ b.insertions = insert_at(erase_at(c.insertions, n.deletions), n.insertions)
  /\ MovesOfBoth(c, n, b.moves)

(* The two lead from the old collection to the new one, and their moves    *)
(* are moves.                                                              *)
LEMMA BothLead ==
  ASSUME NEW c \in ChangeSets, NEW n \in ChangeSets,
         NEW E, NEW old \in Seq(E), NEW mid \in Seq(E), NEW new \in Seq(E),
         Distinct(old),
         Leads(c, old, mid), MovesAreMoves(c, old, mid),
         Leads(n, mid, new), MovesAreMoves(n, mid, new),
         NEW b, IsBoth(c, n, b)
  PROVE  Leads(b, old, new) /\ MovesAreMoves(b, old, new)
<1>0. /\ c.deletions \in IndexSets /\ c.insertions \in IndexSets
      /\ n.deletions \in IndexSets /\ n.insertions \in IndexSets
  BY DEF ChangeSets
<1>1. FollowsIndices(c.deletions, c.insertions, old, mid)
  BY LeadingOn
<1>2. FollowsIndices(n.deletions, n.insertions, mid, new)
  BY LeadingOn
<1>3. \A k \in DOMAIN c.moves :
           /\ c.moves[k].from \in c.deletions \cap Indices(old)
           /\ c.moves[k].to \in c.insertions \cap Indices(mid)
           /\ old[c.moves[k].from + 1] = mid[c.moves[k].to + 1]
  BY MovesByIndex
<1>4. \A k \in DOMAIN n.moves :
           /\ n.moves[k].from \in n.deletions \cap Indices(mid)
           /\ n.moves[k].to \in n.insertions \cap Indices(new)
           /\ mid[n.moves[k].from + 1] = new[n.moves[k].to + 1]
  BY MovesByIndex
<1>6. /\ b \in ChangeSets
      /\ b.deletions = add_shifted_by(c.deletions, c.insertions, n.deletions)
      /\ b.insertions = insert_at(erase_at(c.insertions, n.deletions), n.insertions)
      /\ MovesOfBoth(c, n, b.moves)
  BY DEF IsBoth
<1>7. FollowsIndices(b.deletions, b.insertions, old, new)
  BY <1>0, <1>1, <1>2, <1>6, FollowingBoth
<1>8. b.deletions \in IndexSets /\ b.insertions \in IndexSets
  BY <1>6 DEF ChangeSets
<1>9. Leads(b, old, new)
  BY <1>7, <1>8, LeadsIsFollowing
<1>10. \A j \in Nat : j \in b.deletions <=>
         j \in c.deletions \/ Before(c.insertions, c.deletions, j) \in n.deletions
  BY <1>0, <1>6, DeletedBefore
<1>11. \A i \in Nat : i \in b.insertions <=>
         i \in n.insertions \/ Before(n.deletions, n.insertions, i) \in c.insertions
  BY <1>0, <1>6, ErasedAndInserted
<1>12. \A i \in Indices(old) \cup Indices(mid) \cup Indices(new) : i \in Nat
  BY DEF Indices
<1>13. ASSUME NEW k \in DOMAIN b.moves
       PROVE  /\ b.moves[k].from \in b.deletions \cap Indices(old)
              /\ b.moves[k].to \in b.insertions \cap Indices(new)
              /\ old[b.moves[k].from + 1] = new[b.moves[k].to + 1]
  <2> DEFINE m == b.moves[k]
  <2>1. \/ \E l \in DOMAIN c.moves : /\ m.from = c.moves[l].from
                                     /\ GoesOn(n, c.moves[l].to, m.to)
        \/ \E j \in DOMAIN n.moves : /\ n.moves[j].from \notin c.insertions
                                     /\ m.from = Source(c, n.moves[j].from)
                                     /\ m.to = n.moves[j].to
    BY <1>6 DEF MovesOfBoth
  <2> HIDE DEF m
  <2>2. ASSUME NEW l \in DOMAIN c.moves, m.from = c.moves[l].from, GoesOn(n, c.moves[l].to, m.to)
        PROVE  /\ m.from \in b.deletions \cap Indices(old)
               /\ m.to \in b.insertions \cap Indices(new)
               /\ old[m.from + 1] = new[m.to + 1]
    <3> DEFINE p == c.moves[l].to
    <3>1. /\ m.from \in c.deletions \cap Indices(old)
          /\ p \in c.insertions \cap Indices(mid)
          /\ old[m.from + 1] = mid[p + 1]
      BY <1>3, <2>2
    <3> HIDE DEF p
    <3>2. m.from \in b.deletions
      BY <1>10, <1>12, <3>1
    <3>3. ASSUME NEW j \in DOMAIN n.moves, n.moves[j] = [from |-> p, to |-> m.to]
          PROVE  m.to \in b.insertions \cap Indices(new) /\ mid[p + 1] = new[m.to + 1]
      <4>1. n.moves[j].from = p /\ n.moves[j].to = m.to
        BY <3>3
      <4>2. m.to \in n.insertions \cap Indices(new) /\ mid[p + 1] = new[m.to + 1]
        BY <1>4, <4>1
      <4> QED BY <1>11, <1>12, <4>2
    <3>4. ASSUME p \notin n.deletions, m.to = Before(n.insertions, n.deletions, p)
          PROVE  m.to \in b.insertions \cap Indices(new) /\ mid[p + 1] = new[m.to + 1]
      <4>1. p \in Indices(mid) \ n.deletions
        BY <3>1, <3>4
      <4>2. /\ m.to \in Indices(new) \ n.insertions
            /\ Before(n.deletions, n.insertions, m.to) = p
            /\ mid[p + 1] = new[m.to + 1]
        BY <1>0, <1>2, <3>4, <4>1, KeptEntries
      <4> QED BY <1>11, <1>12, <3>1, <4>2
    <3>5. m.to \in b.insertions \cap Indices(new) /\ mid[p + 1] = new[m.to + 1]
      BY <2>2, <3>3, <3>4 DEF GoesOn, p
    <3> QED BY <3>1, <3>2, <3>5
  <2>3. ASSUME NEW j \in DOMAIN n.moves, n.moves[j].from \notin c.insertions,
               m.from = Source(c, n.moves[j].from), m.to = n.moves[j].to
        PROVE  /\ m.from \in b.deletions \cap Indices(old)
               /\ m.to \in b.insertions \cap Indices(new)
               /\ old[m.from + 1] = new[m.to + 1]
    <3> DEFINE p == n.moves[j].from
    <3>1. /\ p \in n.deletions /\ p \in Indices(mid) \ c.insertions
          /\ m.to \in n.insertions \cap Indices(new)
          /\ mid[p + 1] = new[m.to + 1]
      BY <1>4, <2>3
    <3>2. m.from = Before(c.deletions, c.insertions, p)
      BY <2>3 DEF Source, Before
    <3> HIDE DEF p
    <3>3. /\ m.from \in Indices(old) \ c.deletions
          /\ Before(c.insertions, c.deletions, m.from) = p
          /\ old[m.from + 1] = mid[p + 1]
      BY <1>0, <1>1, <3>1, <3>2, KeptEntries
    <3> QED BY <1>10, <1>11, <1>12, <3>1, <3>3
  <2> QED BY <2>1, <2>2, <2>3 DEF m
<1>14. MovesAreMoves(b, old, new)
  <2>1. \A k, l \in DOMAIN b.moves : b.moves[k].from = b.moves[l].from => k = l
    BY <1>6 DEF MovesOfBoth, DifferentMoves
  <2>2. \A k \in DOMAIN b.moves : \A l \in DOMAIN b.moves \ {k} : b.moves[l].from # b.moves[k].from
    BY <2>1
  <2> QED BY <1>13, <2>2 DEF MovesAreMoves
<1> QED BY <1>9, <1>14

(* What is away in between does not come back. *)
NothingReturns(old, mid, new) ==
  \A j \in Indices(old), i \in Indices(new) :
    old[j + 1] = new[i + 1] => \E p \in Indices(mid) : mid[p + 1] = new[i + 1]

(* The modifications of entries that were there before are those of M.     *)
FollowsModifications(c, old, new, M) ==
  \A j \in Indices(old), i \in Indices(new) :
    old[j + 1] = new[i + 1] => (i \in c.modifications <=> new[i + 1] \in M)

(* The way of an entry from index j to index i. *)
Passes(c, j, i) ==
  /\ i \in c.insertions <=> j \in c.deletions
  /\ i \notin c.insertions => /\ Before(c.deletions, c.insertions, i) = j
                              /\ Before(c.insertions, c.deletions, j) = i
  /\ i \in c.insertions => \E l \in DOMAIN c.moves : c.moves[l] = [from |-> j, to |-> i]

(* An entry of both goes the way of its index, or that of a move. *)
LEMMA SameEntryPasses ==
  ASSUME NEW c \in ChangeSets, NEW E, NEW old \in Seq(E), NEW new \in Seq(E),
         Distinct(old), Distinct(new),
         FollowsIndices(c.deletions, c.insertions, old, new), MovesAreTold(c, old, new),
         NEW j \in Indices(old), NEW i \in Indices(new), old[j + 1] = new[i + 1]
  PROVE  Passes(c, j, i)
<1>1. c.deletions \in IndexSets /\ c.insertions \in IndexSets
  BY DEF ChangeSets
<1>2. /\ i \in c.insertions <=> j \in c.deletions
      /\ i \notin c.insertions => /\ Before(c.deletions, c.insertions, i) = j
                                  /\ Before(c.insertions, c.deletions, j) = i
  BY <1>1, SameEntry
<1>3. i \in c.insertions => \E l \in DOMAIN c.moves : c.moves[l] = [from |-> j, to |-> i]
  BY <1>2 DEF MovesAreTold
<1> QED BY <1>2, <1>3 DEF Passes

BothModify(c, n, b) ==
  \A t \in Nat : t \in b.modifications
       <=> \/ t \in n.modifications
           \/ t \notin n.insertions /\ Before(n.deletions, n.insertions, t) \in c.modifications
           \/ ModifiedAndMoved(c, n, t)

(* They tell all moves, and the modifications of both of the entries that  *)
(* were there before.                                                      *)
LEMMA BothTell ==
  ASSUME NEW c \in ChangeSets, NEW n \in ChangeSets,
         NEW E, NEW old \in Seq(E), NEW mid \in Seq(E), NEW new \in Seq(E),
         Distinct(old), Distinct(mid), Distinct(new), NothingReturns(old, mid, new),
         Leads(c, old, mid), MovesAreMoves(c, old, mid), MovesAreTold(c, old, mid),
         Leads(n, mid, new), MovesAreMoves(n, mid, new), MovesAreTold(n, mid, new),
         NEW b, IsBoth(c, n, b)
  PROVE  /\ MovesAreTold(b, old, new)
         /\ \A M1, M2 : /\ BothModify(c, n, b)
                        /\ FollowsModifications(c, old, mid, M1)
                        /\ FollowsModifications(n, mid, new, M2)
                        => FollowsModifications(b, old, new, M1 \cup M2)
<1>0. /\ c.deletions \in IndexSets /\ c.insertions \in IndexSets
      /\ n.deletions \in IndexSets /\ n.insertions \in IndexSets
  BY DEF ChangeSets
<1>1. /\ FollowsIndices(c.deletions, c.insertions, old, mid)
      /\ FollowsIndices(n.deletions, n.insertions, mid, new)
      /\ MovesApart(c, n)
  BY LeadingOn
<1>2. \A k \in DOMAIN c.moves :
           /\ c.moves[k].from \in c.deletions \cap Indices(old)
           /\ c.moves[k].to \in c.insertions \cap Indices(mid)
           /\ old[c.moves[k].from + 1] = mid[c.moves[k].to + 1]
  BY MovesByIndex
<1>3. \A k \in DOMAIN n.moves :
           /\ n.moves[k].from \in n.deletions \cap Indices(mid)
           /\ n.moves[k].to \in n.insertions \cap Indices(new)
           /\ mid[n.moves[k].from + 1] = new[n.moves[k].to + 1]
  BY MovesByIndex
<1>4. /\ b \in ChangeSets
      /\ b.deletions = add_shifted_by(c.deletions, c.insertions, n.deletions)
      /\ b.insertions = insert_at(erase_at(c.insertions, n.deletions), n.insertions)
      /\ MovesOfBoth(c, n, b.moves)
  BY DEF IsBoth
<1>5. \A i \in Indices(old) \cup Indices(mid) \cup Indices(new) : i \in Nat
  BY DEF Indices
(* An entry of all three, by its index in each. *)
<1>6. ASSUME NEW j \in Indices(old), NEW p \in Indices(mid), NEW i \in Indices(new),
             old[j + 1] = new[i + 1], mid[p + 1] = new[i + 1]
      PROVE  Passes(c, j, p) /\ Passes(n, p, i)
  <2>1. old[j + 1] = mid[p + 1]
    BY <1>6
  <2>2. Passes(c, j, p)
    BY <1>1, <2>1, SameEntryPasses
  <2>3. Passes(n, p, i)
    BY <1>1, <1>6, SameEntryPasses
  <2> QED BY <2>2, <2>3
<1>7. MovesAreTold(b, old, new)
  <2> SUFFICES ASSUME NEW j \in b.deletions \cap Indices(old),
                      NEW i \in b.insertions \cap Indices(new),
                      old[j + 1] = new[i + 1]
               PROVE  \E k \in DOMAIN b.moves : b.moves[k] = [from |-> j, to |-> i]
    BY DEF MovesAreTold
  <2>1. PICK p \in Indices(mid) : mid[p + 1] = new[i + 1]
    BY DEF NothingReturns
  <2>2. /\ i \in n.insertions <=> p \in n.deletions
        /\ i \notin n.insertions => /\ Before(n.deletions, n.insertions, i) = p
                                    /\ Before(n.insertions, n.deletions, p) = i
        /\ i \in n.insertions => \E l \in DOMAIN n.moves : n.moves[l] = [from |-> p, to |-> i]
        /\ p \notin c.insertions => Before(c.deletions, c.insertions, p) = j
        /\ p \in c.insertions => \E l \in DOMAIN c.moves : c.moves[l] = [from |-> j, to |-> p]
    <3>1. Passes(c, j, p) /\ Passes(n, p, i)
      BY <1>6, <2>1
    <3> QED BY <3>1 DEF Passes
  <2>3. CASE p \in c.insertions
    <3>1. PICK l \in DOMAIN c.moves : c.moves[l] = [from |-> j, to |-> p]
      BY <2>2, <2>3
    <3>2. GoesOn(n, p, i)
      BY <2>2 DEF GoesOn
    <3>3. c.moves[l].from = j /\ c.moves[l].to = p /\ i \in Nat
      BY <1>5, <3>1
    <3> QED BY <1>4, <3>2, <3>3 DEF MovesOfBoth
  <2>4. CASE p \notin c.insertions
    <3>1. i \in n.insertions
      <4>1. i \in insert_at(erase_at(c.insertions, n.deletions), n.insertions)
        BY <1>4
      <4>2. i \in n.insertions \/ Before(n.deletions, n.insertions, i) \in c.insertions
        BY <1>0, <1>5, <4>1, ErasedAndInserted
      <4> QED BY <2>2, <2>4, <4>2
    <3>2. PICK l \in DOMAIN n.moves : n.moves[l] = [from |-> p, to |-> i]
      BY <2>2, <3>1
    <3>3. n.moves[l].from = p /\ n.moves[l].to = i
      BY <3>2
    <3>4. Source(c, p) = j
      BY <2>2, <2>4 DEF Source, Before
    <3> QED BY <1>4, <2>4, <3>3, <3>4 DEF MovesOfBoth
  <2> QED BY <2>3, <2>4
<1>8. ASSUME NEW M1, NEW M2, BothModify(c, n, b),
             FollowsModifications(c, old, mid, M1), FollowsModifications(n, mid, new, M2)
      PROVE  FollowsModifications(b, old, new, M1 \cup M2)
  <2> SUFFICES ASSUME NEW j \in Indices(old), NEW i \in Indices(new), old[j + 1] = new[i + 1]
               PROVE  i \in b.modifications <=> new[i + 1] \in M1 \cup M2
    BY DEF FollowsModifications
  <2>1. PICK p \in Indices(mid) : mid[p + 1] = new[i + 1]
    BY DEF NothingReturns
  <2>2. /\ p \in c.modifications <=> new[i + 1] \in M1
        /\ i \in n.modifications <=> new[i + 1] \in M2
    BY <1>8, <2>1 DEF FollowsModifications
  <2>3. \/ i \in n.insertions /\ \E l \in DOMAIN n.moves : n.moves[l] = [from |-> p, to |-> i]
        \/ i \notin n.insertions /\ Before(n.deletions, n.insertions, i) = p
    <3>1. Passes(n, p, i)
      BY <1>6, <2>1
    <3> QED BY <3>1 DEF Passes
  <2>4. p \in c.insertions => \E l \in DOMAIN c.moves : c.moves[l] = [from |-> j, to |-> p]
    <3>1. Passes(c, j, p)
      BY <1>6, <2>1
    <3> QED BY <3>1 DEF Passes
  <2>5. ModifiedAndMoved(c, n, i) => p \in c.modifications
    <3> SUFFICES ASSUME NEW l \in DOMAIN n.moves, n.moves[l].to = i,
                        n.moves[l].from \in c.modifications
                 PROVE  p \in c.modifications
      BY DEF ModifiedAndMoved
    <3>1. n.moves[l].from \in Indices(mid) /\ mid[n.moves[l].from + 1] = mid[p + 1]
      BY <1>3, <2>1
    <3>2. n.moves[l].from = p
      BY <3>1, DistinctIndices
    <3> QED BY <3>2
  <2>6. ASSUME p \in c.modifications, i \in n.insertions PROVE ModifiedAndMoved(c, n, i)
    <3>1. PICK l \in DOMAIN n.moves : n.moves[l] = [from |-> p, to |-> i]
      BY <2>3, <2>6
    <3>2. n.moves[l].from = p /\ n.moves[l].to = i
      BY <3>1
    <3>3. p \in c.insertions => \E k \in DOMAIN c.moves : c.moves[k].to = p
      <4> SUFFICES ASSUME NEW k \in DOMAIN c.moves, c.moves[k] = [from |-> j, to |-> p]
                   PROVE  c.moves[k].to = p
        BY <2>4
      <4> QED OBVIOUS
    <3> QED BY <2>6, <3>2, <3>3 DEF ModifiedAndMoved
  <2>7. i \in b.modifications
              <=> \/ i \in n.modifications
                  \/ i \notin n.insertions /\ Before(n.deletions, n.insertions, i) \in c.modifications
                  \/ ModifiedAndMoved(c, n, i)
    BY <1>5, <1>8 DEF BothModify
  <2> QED BY <2>2, <2>3, <2>5, <2>6, <2>7
<1> QED BY <1>7, <1>8

(* What merge makes of two change sets is the two, one after another. *)
LEMMA MergedIsBoth ==
  ASSUME NEW c \in ChangeSets, NEW n \in ChangeSets,
         NEW E, NEW old \in Seq(E), NEW mid \in Seq(E), NEW new \in Seq(E), Distinct(old),
         Leads(c, old, mid), MovesAreMoves(c, old, mid),
         Leads(n, mid, new), MovesAreMoves(n, mid, new)
  PROVE  IsBoth(c, n, Both(c, n)) /\ BothModify(c, n, Both(c, n))
<1>1. /\ MovesApart(c, n)
      /\ \A l \in DOMAIN c.moves : c.moves[l].from \in c.deletions /\ c.moves[l].to \in c.insertions
  BY LeadingOn
<1> QED BY <1>1, BothMoves DEF IsBoth, BothModify

(* Changes told exactly. *)
Tells(c, old, new, M) ==
  /\ Leads(c, old, new)
  /\ MovesAreMoves(c, old, new)
  /\ MovesAreTold(c, old, new)
  /\ FollowsModifications(c, old, new, M)

(* CollectionChangeBuilder::merge: where one change set leads from the old *)
(* collection to another, and the next one from there to the new one,      *)
(* their merge leads from the old one to the new one, and all its moves    *)
(* are moves. That entries return is not excluded.                         *)
THEOREM MergeLeads ==
  ASSUME NEW c \in ChangeSets, NEW n \in ChangeSets,
         NEW E, NEW old \in Seq(E), NEW mid \in Seq(E), NEW new \in Seq(E), Distinct(old),
         Leads(c, old, mid), MovesAreMoves(c, old, mid),
         Leads(n, mid, new), MovesAreMoves(n, mid, new)
  PROVE  /\ merge(c, n) \in ChangeSets
         /\ Leads(merge(c, n), old, new)
         /\ MovesAreMoves(merge(c, n), old, new)
<1>1. CASE Empty(n)
  <2>1. merge(c, n) = c
    BY <1>1 DEF merge
  <2>2. mid = new
    BY <1>1, EmptyLeadsNowhere DEF Empty
  <2> QED BY <2>1, <2>2
<1>2. CASE ~ Empty(n) /\ Empty(c)
  <2>1. merge(c, n) = n
    BY <1>2 DEF merge
  <2>2. old = mid
    BY <1>2, EmptyLeadsNowhere DEF Empty
  <2> QED BY <2>1, <2>2
<1>3. CASE ~ Empty(n) /\ ~ Empty(c)
  <2>1. merge(c, n) = clean_up_stale_moves(Both(c, n))
    BY <1>3 DEF merge
  <2>2. /\ Both(c, n) \in ChangeSets
        /\ Leads(Both(c, n), old, new)
        /\ MovesAreMoves(Both(c, n), old, new)
    <3>1. IsBoth(c, n, Both(c, n))
      BY MergedIsBoth
    <3> QED BY <3>1, BothLead DEF IsBoth
  <2> QED BY <2>1, <2>2, CleanUpKeeps
<1> QED BY <1>1, <1>2, <1>3

(* And where nothing returns that was away in between, as no entry of a    *)
(* list does, the merge tells all moves, and of the entries that were      *)
(* there before exactly those that were modified before or after.          *)
THEOREM MergeIsExact ==
  ASSUME NEW c \in ChangeSets, NEW n \in ChangeSets,
         NEW E, NEW old \in Seq(E), NEW mid \in Seq(E), NEW new \in Seq(E),
         Distinct(old), Distinct(mid), Distinct(new), NothingReturns(old, mid, new),
         NEW M1, NEW M2, Tells(c, old, mid, M1), Tells(n, mid, new, M2)
  PROVE  merge(c, n) \in ChangeSets /\ Tells(merge(c, n), old, new, M1 \cup M2)
<1>0. /\ Leads(c, old, mid) /\ MovesAreMoves(c, old, mid) /\ MovesAreTold(c, old, mid)
      /\ Leads(n, mid, new) /\ MovesAreMoves(n, mid, new) /\ MovesAreTold(n, mid, new)
      /\ FollowsModifications(c, old, mid, M1) /\ FollowsModifications(n, mid, new, M2)
  BY DEF Tells
<1>1. CASE Empty(n)
  <2>1. merge(c, n) = c
    BY <1>1 DEF merge
  <2>2. mid = new
    BY <1>0, <1>1, EmptyLeadsNowhere DEF Empty
  <2>3. \A i \in Indices(new) : new[i + 1] \notin M2
    BY <1>0, <1>1, <2>2 DEF FollowsModifications, Empty
  <2>4. FollowsModifications(c, old, new, M1 \cup M2)
    BY <1>0, <2>2, <2>3 DEF FollowsModifications
  <2> QED BY <1>0, <2>1, <2>2, <2>4 DEF Tells
<1>2. CASE ~ Empty(n) /\ Empty(c)
  <2>1. merge(c, n) = n
    BY <1>2 DEF merge
  <2>2. old = mid
    BY <1>0, <1>2, EmptyLeadsNowhere DEF Empty
  <2>3. \A i \in Indices(old) : old[i + 1] \notin M1
    BY <1>0, <1>2, <2>2 DEF FollowsModifications, Empty
  <2>4. FollowsModifications(n, old, new, M1 \cup M2)
    BY <1>0, <2>2, <2>3 DEF FollowsModifications
  <2> QED BY <1>0, <2>1, <2>2, <2>4 DEF Tells
<1>3. CASE ~ Empty(n) /\ ~ Empty(c)
  <2> DEFINE b == Both(c, n)
             d == clean_up_stale_moves(b)
  <2>1. merge(c, n) = d
    BY <1>3 DEF merge
  <2>0. IsBoth(c, n, b) /\ BothModify(c, n, b)
    BY <1>0, MergedIsBoth
  <2> HIDE DEF b
  <2>2. b \in ChangeSets /\ Leads(b, old, new) /\ MovesAreMoves(b, old, new)
    BY <1>0, <2>0, BothLead DEF IsBoth
  <2>3. MovesAreTold(b, old, new)
    BY <1>0, <2>0, BothTell
  <2>4. FollowsModifications(b, old, new, M1 \cup M2)
    BY <1>0, <2>0, BothTell
  <2>5. /\ d \in ChangeSets /\ d.modifications = b.modifications
        /\ Leads(d, old, new) /\ MovesAreMoves(d, old, new) /\ MovesAreTold(d, old, new)
    BY <2>2, <2>3, CleanUpKeeps
  <2> HIDE DEF d
  <2>6. FollowsModifications(d, old, new, M1 \cup M2)
    BY <2>4, <2>5 DEF FollowsModifications
  <2> QED BY <2>1, <2>5, <2>6 DEF Tells
<1> QED BY <1>1, <1>2, <1>3

(* What a callback is handed tells modifications of the same entries in    *)
(* both versions: of those that are not inserted.                          *)
TellsModified(told, old, new, M) ==
  LET kept == {new[i + 1] : i \in Indices(new) \ told.insertions}
  IN  /\ At(old, told.modifications) = kept \cap M
      /\ At(new, told.modifications_new) = kept \cap M

LEMMA SameModifications ==
  ASSUME NEW c \in ChangeSets, NEW E, NEW old \in Seq(E), NEW new \in Seq(E),
         Leads(c, old, new), NEW M,
         \A i \in Indices(new) \ c.insertions : i \in c.modifications <=> new[i + 1] \in M
  PROVE  TellsModified(finalize(c), old, new, M)
<1> DEFINE D == c.deletions
           I == c.insertions
           told == finalize(c)
           kept == {new[i + 1] : i \in Indices(new) \ I}
           back == shift_for_insert_at(erase_at(c.modifications, I), D)
<1>0. D \in IndexSets /\ I \in IndexSets /\ c.modifications \in IndexSets
  BY DEF ChangeSets
<1>1. /\ told.insertions = I
      /\ told.modifications = back /\ told.modifications_new = c.modifications \ I
  BY DEF finalize
<1> HIDE DEF told
<1>2. FollowsIndices(D, I, old, new)
  BY <1>0, LeadsIsFollowing
<1>3. \A i \in Indices(old) \cup Indices(new) : i \in Nat
  BY DEF Indices
<1>5. \A i \in Indices(new) \ I : i \in c.modifications <=> new[i + 1] \in M
  OBVIOUS
<1> HIDE DEF D, I
<1>4. \A j \in Nat : j \in back <=>
        j \notin D /\ Before(I, D, j) \in c.modifications
  BY <1>0, Carried
<1> HIDE DEF back
<1>6. At(new, c.modifications \ I) = kept \cap M
  <2>1. At(new, c.modifications \ I) = {new[i + 1] : i \in (c.modifications \ I) \cap Indices(new)}
    BY DEF At
  <2>2. ASSUME NEW e \in kept \cap M PROVE e \in At(new, c.modifications \ I)
    <3>1. PICK i \in Indices(new) \ I : e = new[i + 1]
      OBVIOUS
    <3> QED BY <1>5, <2>1, <3>1
  <2>3. ASSUME NEW e \in At(new, c.modifications \ I) PROVE e \in kept \cap M
    <3>1. PICK i \in (c.modifications \ I) \cap Indices(new) : e = new[i + 1]
      BY <2>1
    <3> QED BY <1>5, <3>1
  <2> QED BY <2>2, <2>3
<1>7. At(old, back) = kept \cap M
  <2>1. At(old, back) = {old[j + 1] : j \in back \cap Indices(old)}
    BY DEF At
  <2>2. ASSUME NEW e \in kept \cap M PROVE e \in At(old, back)
    <3>1. PICK i \in Indices(new) \ I : e = new[i + 1]
      OBVIOUS
    <3>2. i \in c.modifications
      BY <1>5, <3>1
    <3>3. /\ Before(D, I, i) \in Indices(old) \ D
          /\ Before(I, D, Before(D, I, i)) = i
          /\ old[Before(D, I, i) + 1] = new[i + 1]
      BY <1>0, <1>2, KeptEntries
    <3>4. Before(D, I, i) \in back
      BY <1>3, <1>4, <3>2, <3>3
    <3> QED BY <2>1, <3>1, <3>3, <3>4
  <2>3. ASSUME NEW e \in At(old, back) PROVE e \in kept \cap M
    <3>1. PICK j \in back \cap Indices(old) : e = old[j + 1]
      BY <2>1
    <3>2. j \in Indices(old) \ D /\ Before(I, D, j) \in c.modifications
      BY <1>3, <1>4, <3>1
    <3>3. /\ Before(I, D, j) \in Indices(new) \ I
          /\ old[j + 1] = new[Before(I, D, j) + 1]
      BY <1>0, <1>2, <3>2, KeptEntries
    <3> QED BY <1>5, <3>1, <3>2, <3>3
  <2> QED BY <2>2, <2>3
<1> QED BY <1>1, <1>6, <1>7 DEF TellsModified, told

(* What a callback is handed is told of the same entries in both versions. *)
THEOREM FinalizeIsExact ==
  ASSUME NEW c \in ChangeSets, NEW E, NEW old \in Seq(E), NEW new \in Seq(E),
         Distinct(old), Distinct(new), NEW M, Tells(c, old, new, M)
  PROVE  LET told == finalize(c)
             kept == {new[i + 1] : i \in Indices(new) \ told.insertions}
         IN  /\ Leads(told, old, new)
             /\ MovesAreMoves(told, old, new)
             /\ MovesAreTold(told, old, new)
             /\ At(old, told.modifications) = kept \cap M
             /\ At(new, told.modifications_new) = kept \cap M
<1> DEFINE D == c.deletions
           I == c.insertions
           told == finalize(c)
           kept == {new[i + 1] : i \in Indices(new) \ told.insertions}
<1>0. /\ Leads(c, old, new) /\ MovesAreMoves(c, old, new) /\ MovesAreTold(c, old, new)
      /\ FollowsModifications(c, old, new, M)
      /\ D \in IndexSets /\ I \in IndexSets
  BY DEF Tells, ChangeSets
<1>1. told.deletions = D /\ told.insertions = I /\ told.moves = c.moves
  BY DEF finalize
<1>2. FollowsIndices(D, I, old, new)
  BY <1>0, LeadsIsFollowing
<1>3. \A i \in Indices(new) \ I : i \in c.modifications <=> new[i + 1] \in M
  <2> HIDE DEF D, I
  <2> TAKE i \in Indices(new) \ I
  <2>1. Before(D, I, i) \in Indices(old) /\ old[Before(D, I, i) + 1] = new[i + 1]
    BY <1>0, <1>2, KeptEntries
  <2> QED BY <1>0, <2>1 DEF FollowsModifications
<1>4. /\ At(old, told.modifications) = kept \cap M
      /\ At(new, told.modifications_new) = kept \cap M
  BY <1>0, <1>3, SameModifications DEF TellsModified
<1> HIDE DEF told
<1>8. Leads(told, old, new)
  BY <1>0, <1>1 DEF Leads
<1>9. MovesAreMoves(told, old, new) /\ MovesAreTold(told, old, new)
  BY <1>0, <1>1 DEF MovesAreMoves, MovesAreTold
<1> QED BY <1>4, <1>8, <1>9 DEF told

(* The modifications told are those of M, of all entries but those that    *)
(* are new: which are inserted, and not moved.                             *)
Tracks(c, new, M) ==
  \A i \in Indices(new) :
    (i \notin c.insertions \/ \E l \in DOMAIN c.moves : c.moves[l].to = i)
      => (i \in c.modifications <=> new[i + 1] \in M)

(* An entry that is not new was there before. *)
LEMMA NotNew ==
  ASSUME NEW c \in ChangeSets, NEW E, NEW old \in Seq(E), NEW new \in Seq(E),
         Leads(c, old, new), MovesAreMoves(c, old, new),
         NEW i \in Indices(new), i \notin c.insertions \/ \E l \in DOMAIN c.moves : c.moves[l].to = i
  PROVE  \E j \in Indices(old) : old[j + 1] = new[i + 1]
<1>0. c.deletions \in IndexSets /\ c.insertions \in IndexSets
  BY DEF ChangeSets
<1>1. FollowsIndices(c.deletions, c.insertions, old, new)
  BY <1>0, LeadsIsFollowing
<1>2. CASE i \notin c.insertions
  <2>1. i \in Indices(new) \ c.insertions
    BY <1>2
  <2> QED BY <1>0, <1>1, <2>1, KeptEntries
<1>3. CASE \E l \in DOMAIN c.moves : c.moves[l].to = i
  BY <1>3, MovesByIndex
<1> QED BY <1>2, <1>3

LEMMA FollowingTracks ==
  ASSUME NEW c \in ChangeSets, NEW E, NEW old \in Seq(E), NEW new \in Seq(E), NEW M,
         Leads(c, old, new), MovesAreMoves(c, old, new), FollowsModifications(c, old, new, M)
  PROVE  Tracks(c, new, M)
<1> SUFFICES ASSUME NEW i \in Indices(new),
                    i \notin c.insertions \/ \E l \in DOMAIN c.moves : c.moves[l].to = i
             PROVE  i \in c.modifications <=> new[i + 1] \in M
  BY DEF Tracks
<1>1. PICK j \in Indices(old) : old[j + 1] = new[i + 1]
  BY NotNew
<1> QED BY <1>1 DEF FollowsModifications

(* The place in between of an entry that is not new, and the way it went   *)
(* on from there.                                                          *)
WentOn(c, n, mid, new, p, i) ==
  /\ p \in Indices(mid) /\ mid[p + 1] = new[i + 1]
  /\ p \notin c.insertions \/ \E l \in DOMAIN c.moves : c.moves[l].to = p
  /\ \/ i \notin n.insertions /\ Before(n.deletions, n.insertions, i) = p
     \/ i \in n.insertions /\ \E l \in DOMAIN n.moves : n.moves[l].from = p /\ n.moves[l].to = i

LEMMA BothWentOn ==
  ASSUME NEW c \in ChangeSets, NEW n \in ChangeSets,
         NEW E, NEW old \in Seq(E), NEW mid \in Seq(E), NEW new \in Seq(E), Distinct(old),
         Leads(c, old, mid), MovesAreMoves(c, old, mid),
         Leads(n, mid, new), MovesAreMoves(n, mid, new),
         NEW b, IsBoth(c, n, b), NEW i \in Indices(new),
         i \notin b.insertions \/ \E l \in DOMAIN b.moves : b.moves[l].to = i
  PROVE  \E p : WentOn(c, n, mid, new, p, i)
<1>0. /\ c.deletions \in IndexSets /\ c.insertions \in IndexSets
      /\ n.deletions \in IndexSets /\ n.insertions \in IndexSets /\ i \in Nat
  BY DEF ChangeSets, Indices
<1>1. FollowsIndices(n.deletions, n.insertions, mid, new)
  BY LeadingOn
<1>2. \A k \in DOMAIN c.moves : c.moves[k].to \in c.insertions \cap Indices(mid)
  BY MovesByIndex
<1>3. \A k \in DOMAIN n.moves :
           /\ n.moves[k].from \in n.deletions \cap Indices(mid)
           /\ n.moves[k].to \in n.insertions \cap Indices(new)
           /\ mid[n.moves[k].from + 1] = new[n.moves[k].to + 1]
  BY MovesByIndex
<1>4. /\ b.insertions = insert_at(erase_at(c.insertions, n.deletions), n.insertions)
      /\ MovesOfBoth(c, n, b.moves)
  BY DEF IsBoth
<1>5. CASE i \notin b.insertions
  <2> DEFINE p == Before(n.deletions, n.insertions, i)
  <2>1. i \notin n.insertions /\ p \notin c.insertions
    BY <1>0, <1>4, <1>5, ErasedAndInserted
  <2>2. i \in Indices(new) \ n.insertions
    BY <2>1
  <2>3. p \in Indices(mid) /\ mid[p + 1] = new[i + 1]
    BY <1>0, <1>1, <2>2, KeptEntries
  <2> HIDE DEF p
  <2>4. WentOn(c, n, mid, new, p, i)
    BY <2>1, <2>3 DEF WentOn, p
  <2> QED BY <2>4
<1>6. ASSUME NEW k \in DOMAIN b.moves, b.moves[k].to = i PROVE \E p : WentOn(c, n, mid, new, p, i)
  <2>1. CASE \E l \in DOMAIN c.moves : GoesOn(n, c.moves[l].to, i)
    <3>1. PICK l \in DOMAIN c.moves : GoesOn(n, c.moves[l].to, i)
      BY <2>1
    <3> DEFINE p == c.moves[l].to
    <3>2. p \in Indices(mid) /\ \E m \in DOMAIN c.moves : c.moves[m].to = p
      BY <1>2
    <3>3. GoesOn(n, p, i)
      BY <3>1
    <3> HIDE DEF p
    <3>4. CASE \E j \in DOMAIN n.moves : n.moves[j] = [from |-> p, to |-> i]
      <4>1. PICK j \in DOMAIN n.moves : n.moves[j] = [from |-> p, to |-> i]
        BY <3>4
      <4>2. n.moves[j].from = p /\ n.moves[j].to = i
        BY <4>1
      <4>3. WentOn(c, n, mid, new, p, i)
        BY <1>3, <3>2, <4>2 DEF WentOn
      <4> QED BY <4>3
    <3>5. CASE p \notin n.deletions /\ i = Before(n.insertions, n.deletions, p)
      <4>1. p \in Indices(mid) \ n.deletions
        BY <3>2, <3>5
      <4>2. /\ i \in Indices(new) \ n.insertions
            /\ Before(n.deletions, n.insertions, i) = p /\ mid[p + 1] = new[i + 1]
        BY <1>0, <1>1, <3>5, <4>1, KeptEntries
      <4>3. WentOn(c, n, mid, new, p, i)
        BY <3>2, <4>2 DEF WentOn
      <4> QED BY <4>3
    <3> QED BY <3>3, <3>4, <3>5 DEF GoesOn
  <2>2. CASE \E j \in DOMAIN n.moves : n.moves[j].from \notin c.insertions /\ n.moves[j].to = i
    <3>1. PICK j \in DOMAIN n.moves : n.moves[j].from \notin c.insertions /\ n.moves[j].to = i
      BY <2>2
    <3> DEFINE p == n.moves[j].from
    <3>2. WentOn(c, n, mid, new, p, i)
      BY <1>3, <3>1 DEF WentOn
    <3> HIDE DEF p
    <3> QED BY <3>2
  <2>3. \/ \E l \in DOMAIN c.moves : GoesOn(n, c.moves[l].to, i)
        \/ \E j \in DOMAIN n.moves : n.moves[j].from \notin c.insertions /\ n.moves[j].to = i
    BY <1>4, <1>6 DEF MovesOfBoth
  <2> QED BY <2>1, <2>2, <2>3
<1> QED BY <1>5, <1>6

(* The two tell the modifications of both, also of an entry that returns:  *)
(* it is a new one.                                                        *)
LEMMA BothTracks ==
  ASSUME NEW c \in ChangeSets, NEW n \in ChangeSets,
         NEW E, NEW old \in Seq(E), NEW mid \in Seq(E), NEW new \in Seq(E),
         Distinct(old), Distinct(mid),
         Leads(c, old, mid), MovesAreMoves(c, old, mid),
         Leads(n, mid, new), MovesAreMoves(n, mid, new),
         NEW b, IsBoth(c, n, b), BothModify(c, n, b),
         NEW M1, NEW M2, Tracks(c, mid, M1), FollowsModifications(n, mid, new, M2)
  PROVE  Tracks(b, new, M1 \cup M2)
<1> SUFFICES ASSUME NEW i \in Indices(new),
                    i \notin b.insertions \/ \E l \in DOMAIN b.moves : b.moves[l].to = i
             PROVE  i \in b.modifications <=> new[i + 1] \in M1 \cup M2
  BY DEF Tracks
<1>1. PICK p : WentOn(c, n, mid, new, p, i)
  BY BothWentOn
<1>2. /\ p \in Indices(mid) /\ mid[p + 1] = new[i + 1]
      /\ p \notin c.insertions \/ \E l \in DOMAIN c.moves : c.moves[l].to = p
      /\ \/ i \notin n.insertions /\ Before(n.deletions, n.insertions, i) = p
         \/ i \in n.insertions /\ \E l \in DOMAIN n.moves : n.moves[l].from = p /\ n.moves[l].to = i
  BY <1>1 DEF WentOn
<1>3. p \in c.modifications <=> new[i + 1] \in M1
  BY <1>2 DEF Tracks
<1>4. i \in n.modifications <=> new[i + 1] \in M2
  BY <1>2 DEF FollowsModifications
<1>5. i \in b.modifications
              <=> \/ i \in n.modifications
                  \/ i \notin n.insertions /\ Before(n.deletions, n.insertions, i) \in c.modifications
                  \/ ModifiedAndMoved(c, n, i)
  <2>1. i \in Nat
    BY DEF Indices
  <2> QED BY <2>1 DEF BothModify
<1>6. \A l \in DOMAIN n.moves : n.moves[l].to \in n.insertions
  BY MovesByIndex
<1>7. \A k, l \in DOMAIN n.moves : n.moves[k].to = n.moves[l].to => k = l
  BY MovesToDifferentPlaces
<1>8. CASE i \notin n.insertions
  <2>1. ~ ModifiedAndMoved(c, n, i)
    BY <1>6, <1>8 DEF ModifiedAndMoved
  <2> QED BY <1>2, <1>3, <1>4, <1>5, <1>8, <2>1
<1>9. CASE i \in n.insertions
  <2>1. PICK l \in DOMAIN n.moves : n.moves[l].from = p /\ n.moves[l].to = i
    BY <1>2, <1>9
  <2>2. ModifiedAndMoved(c, n, i) <=> p \in c.modifications
    BY <1>2, <1>7, <2>1 DEF ModifiedAndMoved
  <2> QED BY <1>3, <1>4, <1>5, <1>9, <2>2
<1> QED BY <1>8, <1>9

(* So does their merge, whatever returns. *)
THEOREM MergeTracks ==
  ASSUME NEW c \in ChangeSets, NEW n \in ChangeSets,
         NEW E, NEW old \in Seq(E), NEW mid \in Seq(E), NEW new \in Seq(E),
         Distinct(old), Distinct(mid),
         Leads(c, old, mid), MovesAreMoves(c, old, mid),
         Leads(n, mid, new), MovesAreMoves(n, mid, new),
         NEW M1, NEW M2, Tracks(c, mid, M1), FollowsModifications(n, mid, new, M2)
  PROVE  Tracks(merge(c, n), new, M1 \cup M2)
<1>1. CASE Empty(n)
  <2>1. merge(c, n) = c
    BY <1>1 DEF merge
  <2>2. mid = new
    BY <1>1, EmptyLeadsNowhere DEF Empty
  <2>3. \A i \in Indices(new) : new[i + 1] \notin M2
    BY <1>1, <2>2 DEF FollowsModifications, Empty
  <2> QED BY <2>1, <2>2, <2>3 DEF Tracks
<1>2. CASE ~ Empty(n) /\ Empty(c)
  <2>1. merge(c, n) = n
    BY <1>2 DEF merge
  <2>2. \A p \in Indices(mid) : mid[p + 1] \notin M1
    BY <1>2 DEF Tracks, Empty
  <2>3. Tracks(n, new, M2)
    BY FollowingTracks
  <2>4. ASSUME NEW i \in Indices(new),
               i \notin n.insertions \/ \E l \in DOMAIN n.moves : n.moves[l].to = i
        PROVE  i \in n.modifications <=> new[i + 1] \in M1 \cup M2
    <3>1. PICK p \in Indices(mid) : mid[p + 1] = new[i + 1]
      BY <2>4, NotNew
    <3> QED BY <2>2, <2>3, <2>4, <3>1 DEF Tracks
  <2> QED BY <2>1, <2>4 DEF Tracks
<1>3. CASE ~ Empty(n) /\ ~ Empty(c)
  <2> DEFINE b == Both(c, n)
             d == clean_up_stale_moves(b)
  <2>1. merge(c, n) = d
    BY <1>3 DEF merge
  <2>2. IsBoth(c, n, b) /\ BothModify(c, n, b)
    BY MergedIsBoth
  <2> HIDE DEF b
  <2>3. b \in ChangeSets /\ Leads(b, old, new) /\ MovesAreMoves(b, old, new)
    BY <2>2, BothLead DEF IsBoth
  <2>4. Tracks(b, new, M1 \cup M2)
    BY <2>2, BothTracks
  <2>5. /\ d.modifications = b.modifications
        /\ \A k \in DOMAIN d.moves : \E l \in DOMAIN b.moves : d.moves[k] = b.moves[l]
        /\ \A i \in b.insertions \ d.insertions : \E l \in DOMAIN b.moves : b.moves[l].to = i
    BY <2>3, CleanUpKeeps
  <2> HIDE DEF d
  <2>6. ASSUME NEW i \in Indices(new),
               i \notin d.insertions \/ \E l \in DOMAIN d.moves : d.moves[l].to = i
        PROVE  i \in d.modifications <=> new[i + 1] \in M1 \cup M2
    <3>1. i \notin b.insertions \/ \E l \in DOMAIN b.moves : b.moves[l].to = i
      BY <2>5, <2>6
    <3> QED BY <2>4, <2>5, <3>1 DEF Tracks
  <2> QED BY <2>1, <2>6 DEF Tracks
<1> QED BY <1>1, <1>2, <1>3

-----------------------------------------------------------------------------
(* One index, or none. *)
LEMMA NoIndex ==
  ASSUME NEW i \in Nat
  PROVE  {} \in IndexSets /\ unshift({}, i) = i /\ shift({}, i) = i
<1>1. {} \in IndexSets
  BY FS_EmptySet DEF IndexSets
<1>2. unshift({}, i) = i
  <2>1. {j \in {} : j < i} = {} /\ Cardinality({}) = 0
    BY FS_EmptySet
  <2> QED BY <2>1 DEF unshift, count
<1>3. i \in Nat \ {}
  OBVIOUS
<1> QED BY <1>1, <1>2, <1>3, ShiftIsUnique

(* One index. *)
LEMMA OneIndex ==
  ASSUME NEW k \in Nat, NEW i \in Nat
  PROVE  /\ {k} \in IndexSets
         /\ unshift({k}, i) = IF i > k THEN i - 1 ELSE i
         /\ shift({k}, i) = IF i >= k THEN i + 1 ELSE i
<1>1. {k} \in IndexSets
  BY FS_Singleton DEF IndexSets
<1>2. \A j \in Nat : unshift({k}, j) = IF j > k THEN j - 1 ELSE j
  <2> TAKE j \in Nat
  <2>1. CASE j > k
    <3>1. {x \in {k} : x < j} = {k} /\ Cardinality({k}) = 1
      BY <2>1, FS_Singleton
    <3> QED BY <2>1, <3>1 DEF unshift, count
  <2>2. CASE ~ (j > k)
    <3>1. {x \in {k} : x < j} = {} /\ Cardinality({}) = 0
      BY <2>2, FS_EmptySet
    <3> QED BY <2>2, <3>1 DEF unshift, count
  <2> QED BY <2>1, <2>2
<1> DEFINE x == IF i >= k THEN i + 1 ELSE i
<1>3. x \in Nat \ {k} /\ unshift({k}, x) = i
  BY <1>2
<1> HIDE DEF x
<1>4. shift({k}, i) = x
  BY <1>1, <1>3, ShiftIsUnique
<1> QED BY <1>1, <1>2, <1>4 DEF x

(* Where entries are when one comes, goes or moves. *)
LEMMA BeforeOne ==
  ASSUME NEW k \in Nat, NEW i \in Nat
  PROVE  /\ Before({k}, {}, i) = IF i >= k THEN i + 1 ELSE i
         /\ Before({}, {k}, i) = IF i > k THEN i - 1 ELSE i
<1>1. /\ unshift({}, i) = i
      /\ shift({k}, i) = IF i >= k THEN i + 1 ELSE i
      /\ unshift({k}, i) = IF i > k THEN i - 1 ELSE i
  BY NoIndex, OneIndex
<1>2. unshift({k}, i) \in Nat
  BY <1>1
<1>3. shift({}, unshift({k}, i)) = unshift({k}, i)
  BY <1>2, NoIndex
<1> QED BY <1>1, <1>3 DEF Before

(* LinkView::insert: one entry more, none deleted. *)
LEMMA EntryInserted ==
  ASSUME NEW E, NEW s \in Seq(E), NEW k \in 0 .. Len(s), NEW e \in E
  PROVE  LET t == InsertAt(s, k + 1, e)
         IN  /\ t \in Seq(E) /\ Len(t) = Len(s) + 1 /\ t[k + 1] = e
             /\ FollowsIndices({}, {k}, s, t)
<1> DEFINE t == InsertAt(s, k + 1, e)
           a == SubSeq(s, 1, k)
           b == SubSeq(s, k + 1, Len(s))
<1>0. Len(s) \in Nat /\ k \in Nat /\ k <= Len(s)
  OBVIOUS
<1>1. /\ a \in Seq(E) /\ Len(a) = k /\ \A i \in 1 .. k : a[i] = s[i]
      /\ b \in Seq(E) /\ Len(b) = Len(s) - k /\ \A i \in 1 .. Len(s) - k : b[i] = s[i + k]
  BY <1>0
<1>2. t = a \o <<e>> \o b
  <2>1. (k + 1) - 1 = k
    OBVIOUS
  <2> QED BY <2>1 DEF InsertAt
<1> HIDE DEF a, b, t
<1>3. /\ a \o <<e>> \in Seq(E) /\ Len(a \o <<e>>) = k + 1
      /\ \A i \in 1 .. k : (a \o <<e>>)[i] = s[i]
      /\ (a \o <<e>>)[k + 1] = e
  BY <1>0, <1>1
<1>4. /\ t \in Seq(E) /\ Len(t) = Len(s) + 1
      /\ \A i \in 1 .. k + 1 : t[i] = (a \o <<e>>)[i]
      /\ \A i \in 1 .. Len(s) - k : t[(k + 1) + i] = b[i]
  <2> DEFINE f == a \o <<e>>
  <2>1. t = f \o b /\ f \in Seq(E) /\ Len(f) = k + 1
    BY <1>2, <1>3
  <2> HIDE DEF f
  <2>2. t \in Seq(E) /\ Len(t) = Len(s) + 1
    BY <1>0, <1>1, <2>1
  <2>3. \A i \in 1 .. k + 1 : t[i] = f[i]
    BY <1>0, <1>1, <2>1
  <2>4. \A i \in 1 .. Len(s) - k : t[(k + 1) + i] = b[i]
    BY <1>0, <1>1, <2>1
  <2> QED BY <2>2, <2>3, <2>4 DEF f
<1>5. t[k + 1] = e
  BY <1>0, <1>3, <1>4
<1>6. \A i \in 1 .. k : t[i] = s[i]
  BY <1>0, <1>3, <1>4
<1>7. \A i \in k + 1 .. Len(s) : t[i + 1] = s[i]
  <2> TAKE i \in k + 1 .. Len(s)
  <2> DEFINE j == i - k
  <2>1. j \in 1 .. Len(s) - k /\ j + k = i /\ (k + 1) + j = i + 1
    BY <1>0
  <2> HIDE DEF j
  <2>2. b[j] = s[j + k] /\ t[(k + 1) + j] = b[j]
    BY <1>1, <1>4, <2>1
  <2> QED BY <2>1, <2>2
<1>8. FollowsIndices({}, {k}, s, t)
  <2>1. {k} \subseteq Indices(t)
    BY <1>0, <1>4 DEF Indices
  <2>2. ASSUME NEW i \in Nat \ {k}
        PROVE  /\ i < Len(t) <=> Before({}, {k}, i) < Len(s)
               /\ i < Len(t) => s[Before({}, {k}, i) + 1] = t[i + 1]
    <3>0. i \in Nat /\ Before({}, {k}, i) = IF i > k THEN i - 1 ELSE i
      BY <1>0, BeforeOne
    <3>1. CASE i < k
      <4>1. Before({}, {k}, i) = i
        BY <1>0, <3>0, <3>1
      <4>2. i + 1 \in 1 .. k /\ i < Len(t) /\ i < Len(s)
        BY <1>0, <1>4, <3>1
      <4> QED BY <1>6, <4>1, <4>2
    <3>2. CASE i > k
      <4>1. Before({}, {k}, i) = i - 1
        BY <1>0, <3>2, BeforeOne
      <4>2. i < Len(t) <=> i - 1 < Len(s)
        BY <1>0, <1>4
      <4>3. i < Len(t) => i \in k + 1 .. Len(s)
        BY <1>0, <1>4, <3>2
      <4>4. (i - 1) + 1 = i
        OBVIOUS
      <4> QED BY <1>7, <4>1, <4>2, <4>3, <4>4
    <3> QED BY <1>0, <3>1, <3>2
  <2> QED BY <2>1, <2>2 DEF FollowsIndices
<1> QED BY <1>4, <1>5, <1>8 DEF t

(* LinkView::remove: one less. *)
LEMMA EntryRemoved ==
  ASSUME NEW E, NEW s \in Seq(E), NEW k \in Indices(s)
  PROVE  LET t == RemoveAt(s, k + 1)
         IN  /\ t \in Seq(E) /\ Len(t) = Len(s) - 1
             /\ FollowsIndices({k}, {}, s, t)
<1> DEFINE t == RemoveAt(s, k + 1)
           a == SubSeq(s, 1, k)
           b == SubSeq(s, k + 2, Len(s))
<1>0. Len(s) \in Nat /\ k \in Nat /\ k < Len(s)
  BY DEF Indices
<1>1. /\ a \in Seq(E) /\ Len(a) = k /\ \A i \in 1 .. k : a[i] = s[i]
      /\ b \in Seq(E) /\ Len(b) = Len(s) - k - 1 /\ \A i \in 1 .. Len(s) - k - 1 : b[i] = s[i + k + 1]
  BY <1>0
<1>2. t = a \o b
  <2>1. (k + 1) - 1 = k /\ (k + 1) + 1 = k + 2
    BY <1>0
  <2> QED BY <2>1 DEF RemoveAt
<1> HIDE DEF a, b, t
<1>3. /\ t \in Seq(E) /\ Len(t) = Len(s) - 1
      /\ \A i \in 1 .. k : t[i] = a[i]
      /\ \A i \in 1 .. Len(s) - k - 1 : t[k + i] = b[i]
  <2>1. t \in Seq(E) /\ Len(t) = Len(s) - 1
    BY <1>0, <1>1, <1>2
  <2>2. \A i \in 1 .. k : t[i] = a[i]
    BY <1>0, <1>1, <1>2
  <2>3. \A i \in 1 .. Len(s) - k - 1 : t[k + i] = b[i]
    BY <1>0, <1>1, <1>2
  <2> QED BY <2>1, <2>2, <2>3
<1>4. \A i \in 1 .. k : t[i] = s[i]
  BY <1>1, <1>3
<1>5. \A i \in k + 1 .. Len(s) - 1 : t[i] = s[i + 1]
  <2> TAKE i \in k + 1 .. Len(s) - 1
  <2> DEFINE j == i - k
  <2>1. j \in 1 .. Len(s) - k - 1 /\ k + j = i /\ j + k + 1 = i + 1
    BY <1>0
  <2> HIDE DEF j
  <2>2. b[j] = s[j + k + 1] /\ t[k + j] = b[j]
    BY <1>1, <1>3, <2>1
  <2> QED BY <2>1, <2>2
<1>6. FollowsIndices({k}, {}, s, t)
  <2>1. ASSUME NEW i \in Nat \ {}
        PROVE  /\ i < Len(t) <=> Before({k}, {}, i) < Len(s)
               /\ i < Len(t) => s[Before({k}, {}, i) + 1] = t[i + 1]
    <3>1. CASE i < k
      <4>1. Before({k}, {}, i) = i
        BY <1>0, <3>1, BeforeOne
      <4>2. i + 1 \in 1 .. k /\ i < Len(t) /\ i < Len(s)
        BY <1>0, <1>3, <3>1
      <4> QED BY <1>4, <4>1, <4>2
    <3>2. CASE i >= k
      <4>1. Before({k}, {}, i) = i + 1
        BY <1>0, <3>2, BeforeOne
      <4>2. i < Len(t) <=> i + 1 < Len(s)
        BY <1>0, <1>3
      <4>3. i < Len(t) => i + 1 \in k + 1 .. Len(s) - 1
        BY <1>0, <1>3, <3>2
      <4> QED BY <1>5, <4>1, <4>2, <4>3
    <3> QED BY <1>0, <3>1, <3>2
  <2> QED BY <2>1 DEF FollowsIndices
<1> QED BY <1>3, <1>6 DEF t

(* LinkView::move: one entry is at another place. *)
LEMMA EntryMoved ==
  ASSUME NEW E, NEW s \in Seq(E), NEW from \in Indices(s), NEW to \in Indices(s)
  PROVE  LET t == InsertAt(RemoveAt(s, from + 1), to + 1, s[from + 1])
         IN  /\ t \in Seq(E) /\ Len(t) = Len(s) /\ t[to + 1] = s[from + 1]
             /\ FollowsIndices({from}, {to}, s, t)
<1> DEFINE r == RemoveAt(s, from + 1)
           t == InsertAt(r, to + 1, s[from + 1])
<1>0. /\ Len(s) \in Nat /\ from \in Nat /\ to \in Nat /\ to < Len(s) /\ from < Len(s)
      /\ s[from + 1] \in E
  BY DEF Indices
<1>1. r \in Seq(E) /\ Len(r) = Len(s) - 1 /\ FollowsIndices({from}, {}, s, r)
  BY EntryRemoved
<1> HIDE DEF r
<1>2. to \in 0 .. Len(r)
  BY <1>0, <1>1
<1>3. /\ t \in Seq(E) /\ Len(t) = Len(r) + 1 /\ t[to + 1] = s[from + 1]
      /\ FollowsIndices({}, {to}, r, t)
  BY <1>0, <1>1, <1>2, EntryInserted
<1> HIDE DEF t
<1>4. {} \in IndexSets /\ {from} \in IndexSets /\ {to} \in IndexSets
  BY <1>0, NoIndex, OneIndex
<1>5. add_shifted_by({from}, {}, {}) = {from}
  BY DEF add_shifted_by
<1>6. insert_at(erase_at({}, {}), {to}) = {to}
  BY DEF insert_at, erase_at, shift_for_insert_at
<1>7. FollowsIndices({from}, {to}, s, t)
  <2>1. FollowsIndices(add_shifted_by({from}, {}, {}), insert_at(erase_at({}, {}), {to}), s, t)
    BY <1>1, <1>3, <1>4, FollowingBoth
  <2> QED BY <1>5, <1>6, <2>1
<1>8. Len(t) = Len(s)
  BY <1>0, <1>1, <1>3
<1> QED BY <1>3, <1>7, <1>8 DEF t, r

-----------------------------------------------------------------------------
(* What is recorded of a list. *)
Records(c, old, new, M) ==
  /\ c \in ChangeSets
  /\ c.deletions \subseteq Indices(old)
  /\ Leads(c, old, new) /\ MovesAreMoves(c, old, new) /\ MovesAreTold(c, old, new)
  /\ \A i \in Indices(new) : i \in c.modifications <=> new[i + 1] \in M

(* One operation, as changes. *)
Changes(deletions, insertions, moves) ==
  [NoChanges EXCEPT !.deletions = deletions, !.insertions = insertions, !.moves = moves]

(* They are a change set. *)
LEMMA ChangesType ==
  ASSUME NEW D \in IndexSets, NEW I \in IndexSets, NEW moves \in Seq(Moves)
  PROVE  /\ Changes(D, I, moves) \in ChangeSets
         /\ Changes(D, I, moves).deletions = D
         /\ Changes(D, I, moves).insertions = I
         /\ Changes(D, I, moves).modifications = {}
         /\ Changes(D, I, moves).moves = moves
<1>1. {} \in IndexSets
  BY FS_EmptySet DEF IndexSets
<1>2. << >> \in Mappings
  <2>1. << >> \in [{} -> Nat]
    OBVIOUS
  <2> QED BY <1>1, <2>1 DEF Mappings
<1> QED BY <1>1, <1>2 DEF Changes, NoChanges, ChangeSets

(* The modifications of b are those of c, where they are after n, but for  *)
(* those of what n inserts.                                                *)
Carries(c, n, b, new, M) ==
  /\ \A t \in Nat \ n.insertions :
       t \in b.modifications <=> Before(n.deletions, n.insertions, t) \in c.modifications
  /\ \A t \in n.insertions : t \in b.modifications <=> new[t + 1] \in M

(* An operation on a list goes on with what is recorded. *)
LEMMA RecordsOn ==
  ASSUME NEW c, NEW E, NEW old \in Seq(E), NEW mid \in Seq(E), NEW new \in Seq(E), NEW M,
         Records(c, old, mid, M),
         Distinct(old), Distinct(mid), Distinct(new), NothingReturns(old, mid, new),
         NEW n \in ChangeSets, n.deletions \subseteq Indices(mid),
         FollowsIndices(n.deletions, n.insertions, mid, new),
         MovesAreMoves(n, mid, new), MovesAreTold(n, mid, new),
         NEW b, IsBoth(c, n, b), Carries(c, n, b, new, M)
  PROVE  Records(b, old, new, M)
<1> DEFINE D == n.deletions
           I == n.insertions
<1>0. D \in IndexSets /\ I \in IndexSets
  BY DEF ChangeSets
<1>1. /\ c \in ChangeSets /\ c.deletions \subseteq Indices(old)
      /\ Leads(c, old, mid) /\ MovesAreMoves(c, old, mid) /\ MovesAreTold(c, old, mid)
      /\ \A i \in Indices(mid) : i \in c.modifications <=> mid[i + 1] \in M
      /\ c.deletions \in IndexSets /\ c.insertions \in IndexSets
  BY DEF Records, ChangeSets
<1>2. Leads(n, mid, new)
  BY <1>0, LeadsIsFollowing
<1>3. Leads(b, old, new) /\ MovesAreMoves(b, old, new)
  BY <1>1, <1>2, BothLead
<1>4. MovesAreTold(b, old, new)
  BY <1>1, <1>2, BothTell
<1>5. b \in ChangeSets /\ b.deletions = add_shifted_by(c.deletions, c.insertions, D)
  BY DEF IsBoth
<1> HIDE DEF D, I
<1>6. b.deletions \subseteq Indices(old)
  <2> SUFFICES ASSUME NEW j \in b.deletions, j \notin c.deletions PROVE j \in Indices(old)
    BY <1>1 DEF D
  <2>1. b.deletions = c.deletions \cup {Before(c.deletions, c.insertions, v) : v \in D \ c.insertions}
    BY <1>5 DEF add_shifted_by, Before
  <2>2. PICK v \in D \ c.insertions : j = Before(c.deletions, c.insertions, v)
    BY <2>1
  <2>3. v \in Indices(mid) \ c.insertions
    BY DEF D
  <2>4. FollowsIndices(c.deletions, c.insertions, old, mid)
    BY <1>1, LeadsIsFollowing
  <2> QED BY <1>1, <2>2, <2>3, <2>4, KeptEntries
<1>7. ASSUME NEW i \in Indices(new) PROVE i \in b.modifications <=> new[i + 1] \in M
  <2>1. CASE i \in I
    BY <2>1 DEF Carries, I
  <2>2. CASE i \notin I
    <3>1. i \in Nat
      BY DEF Indices
    <3>2. /\ Before(D, I, i) \in Indices(mid)
          /\ mid[Before(D, I, i) + 1] = new[i + 1]
      BY <1>0, <2>2, KeptEntries DEF D, I
    <3> QED BY <1>1, <2>2, <3>1, <3>2 DEF Carries, D, I
  <2> QED BY <2>1, <2>2
<1> QED BY <1>3, <1>4, <1>5, <1>6, <1>7 DEF Records

(* What is in neither the old list nor in M is inserted. *)
LEMMA RecordedMoves ==
  ASSUME NEW c, NEW E, NEW old \in Seq(E), NEW new \in Seq(E), NEW M,
         Records(c, old, new, M), Distinct(old)
  PROVE  /\ c \in ChangeSets /\ c.moves \in Seq(Moves)
         /\ c.deletions \in IndexSets /\ c.insertions \in IndexSets /\ c.modifications \in IndexSets
         /\ \A k \in DOMAIN c.moves :
              /\ c.moves[k] \in Moves /\ c.moves[k].from \in Nat /\ c.moves[k].to \in Nat
              /\ c.moves[k] = [from |-> c.moves[k].from, to |-> c.moves[k].to]
              /\ c.moves[k].from \in c.deletions /\ c.moves[k].to \in c.insertions
         /\ \A k, l \in DOMAIN c.moves : c.moves[k].from = c.moves[l].from => k = l
         /\ \A k, l \in DOMAIN c.moves : c.moves[k].to = c.moves[l].to => k = l
<1>1. c \in ChangeSets /\ MovesAreMoves(c, old, new)
  BY DEF Records
<1>2. \A k \in DOMAIN c.moves :
        /\ c.moves[k] \in Moves
        /\ c.moves[k].from \in c.deletions /\ c.moves[k].to \in c.insertions
        /\ \A l \in DOMAIN c.moves : c.moves[l].from = c.moves[k].from => l = k
  BY <1>1, MovesByIndex
<1>3. \A k, l \in DOMAIN c.moves : c.moves[k].to = c.moves[l].to => k = l
  BY <1>1, MovesToDifferentPlaces
<1> QED BY <1>1, <1>2, <1>3 DEF ChangeSets, Moves

(* Moves whose places are others now. *)
Placed(moves, place) == [k \in DOMAIN moves |-> [moves[k] EXCEPT !.to = place[k]]]

AsPlaced(moved, moves, place) ==
  /\ moved \in Seq(Moves) /\ DOMAIN moved = DOMAIN moves
  /\ \A k \in DOMAIN moves : /\ moved[k].from = moves[k].from
                             /\ moved[k].to = place[k]
                             /\ moved[k] = [from |-> moves[k].from, to |-> place[k]]

(* They are moves, in the same order. *)
LEMMA ReplacedMoves ==
  ASSUME NEW moves \in Seq(Moves), NEW place, \A k \in DOMAIN moves : place[k] \in Nat
  PROVE  AsPlaced(Placed(moves, place), moves, place)
<1> DEFINE moved == Placed(moves, place)
<1>0. moved = [k \in DOMAIN moves |-> [moves[k] EXCEPT !.to = place[k]]]
  BY DEF Placed
<1> HIDE DEF moved
<1>1. \A k \in DOMAIN moves : moves[k] \in Moves
  BY ElementOfSeq
<1>2. ASSUME NEW k \in DOMAIN moves
      PROVE  /\ moved[k].from = moves[k].from /\ moved[k].to = place[k]
             /\ moved[k] = [from |-> moves[k].from, to |-> place[k]]
             /\ moved[k] \in Moves
  BY <1>0, <1>1 DEF Moves
<1>3. moved \in Seq(Moves)
  <2>1. DOMAIN moves = 1 .. Len(moves) /\ Len(moves) \in Nat
    OBVIOUS
  <2>2. moved \in [1 .. Len(moves) -> Moves]
    BY <1>0, <1>2, <2>1
  <2> QED BY <2>1, <2>2
<1>4. DOMAIN moved = DOMAIN moves
  BY <1>0
<1>5. AsPlaced(moved, moves, place)
  BY <1>2, <1>3, <1>4 DEF AsPlaced
<1> QED BY <1>5 DEF moved

(* CollectionChangeBuilder::insert: what is recorded of a list stays exact *)
(* when an entry comes that was never there.                               *)
THEOREM InsertRecords ==
  ASSUME NEW c, NEW E, NEW old \in Seq(E), NEW mid \in Seq(E), NEW M,
         Records(c, old, mid, M), Distinct(old), Distinct(mid),
         NEW k \in 0 .. Len(mid), NEW e \in E, e \notin M,
         e \notin ToSet(old), e \notin ToSet(mid)
  PROVE  Records(insert(c, k), old, InsertAt(mid, k + 1, e), M)
<1> DEFINE new == InsertAt(mid, k + 1, e)
           n == Changes({}, {k}, << >>)
           b == insert(c, k)
           place == [x \in DOMAIN c.moves |-> IF c.moves[x].to >= k THEN c.moves[x].to + 1
                                                                   ELSE c.moves[x].to]
           moves == [x \in DOMAIN c.moves |-> [c.moves[x] EXCEPT !.to = place[x]]]
<1>0. k \in Nat /\ {} \in IndexSets /\ {k} \in IndexSets /\ << >> \in Seq(Moves)
  BY NoIndex, OneIndex
<1>1. /\ new \in Seq(E) /\ Len(new) = Len(mid) + 1 /\ new[k + 1] = e
      /\ FollowsIndices({}, {k}, mid, new)
  BY EntryInserted
<1> HIDE DEF new
<1>2. /\ c \in ChangeSets /\ c.moves \in Seq(Moves)
      /\ c.deletions \in IndexSets /\ c.insertions \in IndexSets /\ c.modifications \in IndexSets
      /\ \A x \in DOMAIN c.moves :
           /\ c.moves[x] \in Moves /\ c.moves[x].from \in Nat /\ c.moves[x].to \in Nat
           /\ c.moves[x] = [from |-> c.moves[x].from, to |-> c.moves[x].to]
           /\ c.moves[x].from \in c.deletions /\ c.moves[x].to \in c.insertions
      /\ \A x, y \in DOMAIN c.moves : c.moves[x].from = c.moves[y].from => x = y
      /\ \A x, y \in DOMAIN c.moves : c.moves[x].to = c.moves[y].to => x = y
  BY RecordedMoves
<1>3. n \in ChangeSets /\ n.deletions = {} /\ n.insertions = {k} /\ n.moves = << >>
  <2>1. {} \in IndexSets
    BY <1>0
  <2>2. {k} \in IndexSets
    BY <1>0
  <2>3. << >> \in Seq(Moves)
    BY <1>0
  <2> DEFINE D == {}
             I == {k}
             moved == << >>
  <2>4. D \in IndexSets /\ I \in IndexSets /\ moved \in Seq(Moves) /\ n = Changes(D, I, moved)
    BY <2>1, <2>2, <2>3
  <2> HIDE DEF D, I, moved, n
  <2>5. n \in ChangeSets /\ n.deletions = D /\ n.insertions = I /\ n.moves = moved
    BY ONLY <2>4, ChangesType
  <2> QED BY <2>5 DEF D, I, moved
<1> HIDE DEF n
<1>4. \A i \in Indices(new) \ {k} : Before({}, {k}, i) \in Indices(mid)
                                     /\ mid[Before({}, {k}, i) + 1] = new[i + 1]
  BY <1>0, <1>1, KeptEntries
<1>5. \A i \in Indices(mid) : mid[i + 1] # e
  <2>1. \A i \in Indices(mid) : i + 1 \in DOMAIN mid
    BY DEF Indices
  <2> QED BY <2>1 DEF ToSet
<1>6. Distinct(new)
  <2> SUFFICES ASSUME NEW x \in DOMAIN new, NEW y \in DOMAIN new, new[x] = new[y] PROVE x = y
    BY DEF Distinct
  <2>1. x - 1 \in Indices(new) /\ y - 1 \in Indices(new) /\ (x - 1) + 1 = x /\ (y - 1) + 1 = y
    BY <1>1 DEF Indices
  <2>2. CASE x - 1 = k
    BY <1>1, <1>4, <1>5, <2>1, <2>2
  <2>3. CASE y - 1 = k
    BY <1>1, <1>4, <1>5, <2>1, <2>3
  <2>4. CASE x - 1 # k /\ y - 1 # k
    <3> DEFINE px == Before({}, {k}, x - 1)
               py == Before({}, {k}, y - 1)
    <3>1. px \in Indices(mid) /\ py \in Indices(mid) /\ mid[px + 1] = mid[py + 1]
      BY <1>4, <2>1, <2>4
    <3>2. px = py
      BY <3>1, DistinctIndices
    <3>3. /\ Before({k}, {}, px) = x - 1 /\ Before({k}, {}, py) = y - 1
      BY <1>0, <1>1, <2>1, <2>4, KeptEntries
    <3> QED BY <2>1, <3>2, <3>3
  <2> QED BY <2>2, <2>3, <2>4
<1>7. NothingReturns(old, mid, new)
  <2> SUFFICES ASSUME NEW j \in Indices(old), NEW i \in Indices(new), old[j + 1] = new[i + 1]
               PROVE  \E p \in Indices(mid) : mid[p + 1] = new[i + 1]
    BY DEF NothingReturns
  <2>1. old[j + 1] # e
    <3>1. j + 1 \in DOMAIN old
      BY DEF Indices
    <3> QED BY <3>1 DEF ToSet
  <2>2. i # k
    BY <1>1, <2>1
  <2> QED BY <1>4, <2>2
<1>8. MovesAreMoves(n, mid, new) /\ MovesAreTold(n, mid, new)
  <2>1. DOMAIN n.moves = {}
    BY <1>3
  <2> QED BY <1>3, <2>1 DEF MovesAreMoves, MovesAreTold
<1>9. \A x \in DOMAIN c.moves : place[x] \in Nat /\ place[x] = Before({k}, {}, c.moves[x].to)
  <2> TAKE x \in DOMAIN c.moves
  <2>1. c.moves[x].to \in Nat
    BY <1>2
  <2>2. Before({k}, {}, c.moves[x].to) = IF c.moves[x].to >= k THEN c.moves[x].to + 1 ELSE c.moves[x].to
    BY <1>0, <2>1, BeforeOne
  <2>3. place[x] = IF c.moves[x].to >= k THEN c.moves[x].to + 1 ELSE c.moves[x].to
    OBVIOUS
  <2> HIDE DEF place
  <2> QED BY <1>0, <2>1, <2>2, <2>3
<1>10. [x \in DOMAIN c.moves |-> [c.moves[x] EXCEPT !.to = IF @ >= k THEN @ + 1 ELSE @]] = moves
  OBVIOUS
<1> HIDE DEF place
<1>11. /\ moves \in Seq(Moves) /\ DOMAIN moves = DOMAIN c.moves
       /\ \A x \in DOMAIN c.moves : /\ moves[x].from = c.moves[x].from
                                    /\ moves[x].to = place[x]
                                    /\ moves[x] = [from |-> c.moves[x].from, to |-> place[x]]
  <2>1. c.moves \in Seq(Moves) /\ \A x \in DOMAIN c.moves : place[x] \in Nat
    BY <1>2, <1>9
  <2>2. moves = Placed(c.moves, place)
    BY DEF Placed
  <2> HIDE DEF moves
  <2>3. AsPlaced(moves, c.moves, place)
    BY <2>1, <2>2, ReplacedMoves
  <2> QED BY <2>3 DEF AsPlaced
<1>12. b = [c EXCEPT !.modifications = shift_for_insert_at(@, {k}),
                     !.insertions = insert_at(@, {k}),
                     !.moves = moves]
  BY <1>10 DEF insert, MovedTo
<1> HIDE DEF moves
<1>13. /\ insert_at(c.insertions, {k}) \in IndexSets
       /\ insert_at(c.insertions, {k}) = insert_at(erase_at(c.insertions, {}), {k})
       /\ c.deletions = add_shifted_by(c.deletions, c.insertions, {})
  <2>1. erase_at(c.insertions, {}) = c.insertions
    <3>1. \A i \in c.insertions : unshift({}, i) = i
      BY <1>2, NoIndex DEF IndexSets
    <3> QED BY <3>1 DEF erase_at
  <2>2. c.deletions = add_shifted_by(c.deletions, c.insertions, {})
    BY DEF add_shifted_by
  <2>3. insert_at(erase_at(c.insertions, {}), {k}) \in IndexSets
    BY <1>0, <1>2, ErasedAndInserted
  <2> QED BY <2>1, <2>2, <2>3
<1> DEFINE shifted == shift_for_insert_at(c.modifications, {k})
<1>14. /\ shifted \in IndexSets
       /\ \A t \in Nat : t \in shifted <=> t # k /\ Before({}, {k}, t) \in c.modifications
  <2>1. erase_at(c.modifications, {}) = c.modifications
    <3>1. \A i \in c.modifications : unshift({}, i) = i
      BY <1>2, NoIndex DEF IndexSets
    <3> QED BY <3>1 DEF erase_at
  <2>2. shifted = shift_for_insert_at(erase_at(c.modifications, {}), {k})
    BY <2>1
  <2> HIDE DEF shifted
  <2>3. /\ shifted \in IndexSets
        /\ \A t \in Nat : t \in shifted <=> t \notin {k} /\ Before({}, {k}, t) \in c.modifications
    <3>1. c.modifications \in IndexSets
      BY <1>2
    <3>2. {k} \in IndexSets /\ {} \in IndexSets
      BY <1>0
    <3> QED BY ONLY <2>2, <3>1, <3>2, Carried
  <2> QED BY <2>3
<1> HIDE DEF shifted, b
<1>15. /\ b \in ChangeSets /\ b.deletions = c.deletions /\ b.insertions = insert_at(c.insertions, {k})
       /\ b.moves = moves /\ b.modifications = shifted
  BY <1>2, <1>11, <1>12, <1>13, <1>14 DEF ChangeSets, shifted
<1>16. \A p \in Nat, t \in Nat : GoesOn(n, p, t) <=> t = Before({k}, {}, p)
  <2>1. DOMAIN n.moves = {}
    BY <1>3
  <2> QED BY <1>3, <2>1 DEF GoesOn
<1>17. MovesOfBoth(c, n, moves)
  <2>1. DOMAIN n.moves = {}
    BY <1>3
  <2>0. \A l \in DOMAIN c.moves, t \in Nat : GoesOn(n, c.moves[l].to, t) <=> t = place[l]
    <3> TAKE l \in DOMAIN c.moves, t \in Nat
    <3>1. c.moves[l].to \in Nat /\ place[l] = Before({k}, {}, c.moves[l].to)
      BY <1>2, <1>9
    <3> QED BY <1>16, <3>1
  <2>2. \A x \in DOMAIN moves : \E l \in DOMAIN c.moves :
          moves[x].from = c.moves[l].from /\ GoesOn(n, c.moves[l].to, moves[x].to)
    BY <1>9, <1>11, <2>0
  <2>3. DifferentMoves(moves)
    BY <1>2, <1>11 DEF DifferentMoves
  <2>4. \A l \in DOMAIN c.moves, t \in Nat : GoesOn(n, c.moves[l].to, t) =>
          \E x \in DOMAIN moves : moves[x] = [from |-> c.moves[l].from, to |-> t]
    <3> TAKE l \in DOMAIN c.moves, t \in Nat
    <3> HAVE GoesOn(n, c.moves[l].to, t)
    <3>1. t = place[l]
      BY <2>0
    <3>2. l \in DOMAIN moves /\ moves[l] = [from |-> c.moves[l].from, to |-> place[l]]
      BY <1>11
    <3> QED BY <3>1, <3>2
  <2> QED BY <2>1, <2>2, <2>3, <2>4 DEF MovesOfBoth
<1>18. IsBoth(c, n, b)
  BY <1>3, <1>13, <1>15, <1>17 DEF IsBoth
<1>19. Carries(c, n, b, new, M)
  <2>1. \A t \in Nat \ {k} : t \in b.modifications <=> Before({}, {k}, t) \in c.modifications
    BY <1>14, <1>15
  <2>2. k \notin b.modifications
    BY <1>0, <1>14, <1>15
  <2>3. \A t \in {k} : t \in b.modifications <=> new[t + 1] \in M
    BY <1>1, <2>2
  <2> QED BY <1>3, <2>1, <2>3 DEF Carries
<1>20. n.deletions \subseteq Indices(mid) /\ FollowsIndices(n.deletions, n.insertions, mid, new)
  BY <1>1, <1>3
<1>21. Records(b, old, new, M)
  BY <1>1, <1>3, <1>6, <1>7, <1>8, <1>18, <1>19, <1>20, RecordsOn
<1> QED BY <1>21 DEF b, new

(* Insertions that are none shift nothing. *)
LEMMA ErasedOnly ==
  ASSUME NEW S \in IndexSets, NEW P \in IndexSets
  PROVE  /\ erase_at(S, P) \in IndexSets
         /\ shift_for_insert_at(erase_at(S, P), {}) = erase_at(S, P)
         /\ insert_at(erase_at(S, P), {}) = erase_at(S, P)
<1>1. \A i \in erase_at(S, P) : i \in Nat
  <2>1. \A i \in S : i \in Nat
    BY DEF IndexSets
  <2>2. \A i \in Nat : unshift(P, i) \in Nat
    BY UnshiftSteps
  <2> QED BY <2>1, <2>2 DEF erase_at
<1>2. \A i \in erase_at(S, P) : shift({}, i) = i
  BY <1>1, NoIndex
<1>3. /\ shift_for_insert_at(erase_at(S, P), {}) = erase_at(S, P)
      /\ insert_at(erase_at(S, P), {}) = erase_at(S, P)
  BY <1>2 DEF insert_at, shift_for_insert_at
<1>4. {} \in IndexSets
  BY FS_EmptySet DEF IndexSets
<1>5. erase_at(S, P) \in IndexSets
  BY <1>3, <1>4, ErasedAndInserted
<1> QED BY <1>3, <1>5

(* The indices of a sequence are a set of indices. *)
LEMMA IndicesOf ==
  ASSUME NEW E, NEW s \in Seq(E), NEW S, S \subseteq 0 .. Len(s) - 1
  PROVE  S \in IndexSets
<1>1. 0 .. Len(s) - 1 \in SUBSET Nat /\ IsFiniteSet(0 .. Len(s) - 1)
  BY FS_Interval
<1> QED BY <1>1, FS_Subset DEF IndexSets

(* The rest of the old moves arrive at these places, the others nowhere.   *)
ArriveAt(c, n, S, rest, place) ==
  /\ DOMAIN n.moves = {}
  /\ c.moves \in Seq(Moves) /\ DifferentMoves(c.moves)
  /\ Remaining(rest, c.moves, S)
  /\ \A k \in DOMAIN rest : /\ place[k] \in Nat
                            /\ \A t \in Nat : GoesOn(n, rest[k].to, t) <=> t = place[k]
  /\ \A k \in DOMAIN c.moves, t \in Nat : k - 1 \in S => ~ GoesOn(n, c.moves[k].to, t)

(* They are the moves of both when the new changes have none.              *)
LEMMA OnlyOldMoves ==
  ASSUME NEW c, NEW n, NEW S, NEW rest, NEW place, ArriveAt(c, n, S, rest, place),
         NEW moves, AsPlaced(moves, rest, place)
  PROVE  MovesOfBoth(c, n, moves)
<1>0. /\ DOMAIN n.moves = {} /\ DifferentMoves(c.moves)
      /\ Remaining(rest, c.moves, S)
      /\ \A k \in DOMAIN rest : /\ place[k] \in Nat
                                /\ \A t \in Nat : GoesOn(n, rest[k].to, t) <=> t = place[k]
      /\ \A k \in DOMAIN c.moves, t \in Nat : k - 1 \in S => ~ GoesOn(n, c.moves[k].to, t)
  BY DEF ArriveAt
<1>1. /\ moves \in Seq(Moves) /\ DOMAIN moves = DOMAIN rest
      /\ \A k \in DOMAIN rest : /\ moves[k].from = rest[k].from
                                /\ moves[k].to = place[k]
                                /\ moves[k] = [from |-> rest[k].from, to |-> place[k]]
  BY DEF AsPlaced
<1>2. \A k \in DOMAIN rest : \E i \in DOMAIN c.moves : i - 1 \notin S /\ rest[k] = c.moves[i]
  BY <1>0 DEF Remaining
<1>3. \A i \in DOMAIN c.moves : i - 1 \notin S => \E k \in DOMAIN rest : rest[k] = c.moves[i]
  BY <1>0 DEF Remaining
<1>4. \A k \in DOMAIN moves : \E l \in DOMAIN c.moves :
        moves[k].from = c.moves[l].from /\ GoesOn(n, c.moves[l].to, moves[k].to)
  <2> TAKE k \in DOMAIN moves
  <2>1. PICK l \in DOMAIN c.moves : rest[k] = c.moves[l]
    BY <1>1, <1>2
  <2>2. GoesOn(n, rest[k].to, moves[k].to)
    BY <1>0, <1>1
  <2> QED BY <1>1, <2>1, <2>2
<1>5. DifferentMoves(moves)
  <2> SUFFICES ASSUME NEW k \in DOMAIN moves, NEW l \in DOMAIN moves, moves[k].from = moves[l].from
               PROVE  k = l
    BY DEF DifferentMoves
  <2>1. PICK i \in DOMAIN c.moves : rest[k] = c.moves[i]
    BY <1>1, <1>2
  <2>2. PICK j \in DOMAIN c.moves : rest[l] = c.moves[j]
    BY <1>1, <1>2
  <2>3. i = j
    BY <1>0, <1>1, <2>1, <2>2 DEF DifferentMoves
  <2>4. \A x \in DOMAIN c.moves : c.moves[x] = c.moves[i] => x = i
    BY <1>0 DEF DifferentMoves
  <2> QED BY <1>0, <1>1, <2>1, <2>2, <2>3, <2>4 DEF Remaining
<1>6. \A l \in DOMAIN c.moves, t \in Nat : GoesOn(n, c.moves[l].to, t) =>
        \E k \in DOMAIN moves : moves[k] = [from |-> c.moves[l].from, to |-> t]
  <2> TAKE l \in DOMAIN c.moves, t \in Nat
  <2> HAVE GoesOn(n, c.moves[l].to, t)
  <2>1. l - 1 \notin S
    BY <1>0
  <2>2. PICK k \in DOMAIN rest : rest[k] = c.moves[l]
    BY <1>3, <2>1
  <2>3. t = place[k]
    BY <1>0, <2>2
  <2> QED BY <1>1, <2>2, <2>3
<1> QED BY <1>0, <1>4, <1>5, <1>6 DEF MovesOfBoth

(* Entries are kept distinct, and come from the list before, but for one.  *)
LEMMA StaysDistinct ==
  ASSUME NEW E, NEW mid \in Seq(E), NEW new \in Seq(E), Distinct(mid),
         NEW D \in IndexSets, NEW I \in IndexSets, FollowsIndices(D, I, mid, new),
         \A i, j \in I : i = j, I \subseteq Indices(new),
         \A i \in I, j \in Indices(mid) \ D : new[i + 1] # mid[j + 1]
  PROVE  Distinct(new)
<1>1. \A i \in Indices(new) \ I : /\ Before(D, I, i) \in Indices(mid) \ D
                                  /\ Before(I, D, Before(D, I, i)) = i
                                  /\ mid[Before(D, I, i) + 1] = new[i + 1]
  BY KeptEntries
<1> SUFFICES ASSUME NEW x \in DOMAIN new, NEW y \in DOMAIN new, new[x] = new[y] PROVE x = y
  BY DEF Distinct
<1>2. x - 1 \in Indices(new) /\ y - 1 \in Indices(new) /\ (x - 1) + 1 = x /\ (y - 1) + 1 = y
      /\ x \in Nat /\ y \in Nat
  BY DEF Indices
<1>3. CASE x - 1 \in I \/ y - 1 \in I
  <2>1. x - 1 \in I /\ y - 1 \in I
    BY <1>1, <1>2, <1>3
  <2> QED BY <1>2, <2>1
<1>4. CASE x - 1 \notin I /\ y - 1 \notin I
  <2> DEFINE p == Before(D, I, x - 1)
             q == Before(D, I, y - 1)
  <2>1. p \in Indices(mid) /\ q \in Indices(mid) /\ mid[p + 1] = mid[q + 1]
        /\ Before(I, D, p) = x - 1 /\ Before(I, D, q) = y - 1
    BY <1>1, <1>2, <1>4
  <2> HIDE DEF p, q
  <2>2. p = q
    BY <2>1, DistinctIndices
  <2> QED BY <1>2, <2>1, <2>2
<1> QED BY <1>3, <1>4

(* CollectionChangeBuilder::erase: so does it when an entry goes, with the *)
(* move it was part of, and deleted only if it was there at first.         *)
THEOREM EraseRecords ==
  ASSUME NEW c, NEW E, NEW old \in Seq(E), NEW mid \in Seq(E), NEW M,
         Records(c, old, mid, M), Distinct(old), Distinct(mid), NEW k \in Indices(mid)
  PROVE  /\ Records(erase(c, k), old, RemoveAt(mid, k + 1), M)
         /\ RemoveAt(mid, k + 1) \in Seq(E) /\ Distinct(RemoveAt(mid, k + 1))
<1> DEFINE new == RemoveAt(mid, k + 1)
           n == Changes({k}, {}, << >>)
           b == erase(c, k)
           there == {x \in 0 .. Len(c.moves) - 1 : c.moves[x + 1].to = k}
           rest == Without(c.moves, there)
           place == [x \in DOMAIN rest |-> IF rest[x].to > k THEN rest[x].to - 1 ELSE rest[x].to]
           moves == Placed(rest, place)
<1>0. k \in Nat /\ {} \in IndexSets /\ {k} \in IndexSets /\ << >> \in Seq(Moves)
  BY NoIndex, OneIndex DEF Indices
<1>1. new \in Seq(E) /\ Len(new) = Len(mid) - 1 /\ FollowsIndices({k}, {}, mid, new)
  BY EntryRemoved
<1> HIDE DEF new
<1>2. /\ c \in ChangeSets /\ c.moves \in Seq(Moves)
      /\ c.deletions \in IndexSets /\ c.insertions \in IndexSets /\ c.modifications \in IndexSets
      /\ \A x \in DOMAIN c.moves :
           /\ c.moves[x] \in Moves /\ c.moves[x].from \in Nat /\ c.moves[x].to \in Nat
           /\ c.moves[x] = [from |-> c.moves[x].from, to |-> c.moves[x].to]
           /\ c.moves[x].from \in c.deletions /\ c.moves[x].to \in c.insertions
      /\ \A x, y \in DOMAIN c.moves : c.moves[x].from = c.moves[y].from => x = y
      /\ \A x, y \in DOMAIN c.moves : c.moves[x].to = c.moves[y].to => x = y
  BY RecordedMoves
<1>3. n \in ChangeSets /\ n.deletions = {k} /\ n.insertions = {} /\ n.moves = << >>
  <2> DEFINE D == {k}
             I == {}
             moved == << >>
  <2>1. D \in IndexSets /\ I \in IndexSets /\ moved \in Seq(Moves) /\ n = Changes(D, I, moved)
    BY <1>0
  <2> HIDE DEF D, I, moved, n
  <2>2. n \in ChangeSets /\ n.deletions = D /\ n.insertions = I /\ n.moves = moved
    BY ONLY <2>1, ChangesType
  <2> QED BY <2>2 DEF D, I, moved
<1> HIDE DEF n
<1>4. Distinct(new)
  <2>1. \A i, j \in {} : i = j
    OBVIOUS
  <2>2. \A i \in {}, j \in Indices(mid) \ {k} : new[i + 1] # mid[j + 1]
    OBVIOUS
  <2> QED BY <1>0, <1>1, <2>1, <2>2, StaysDistinct
<1>5. \A i \in Indices(new) \ {} : Before({k}, {}, i) \in Indices(mid)
                                   /\ mid[Before({k}, {}, i) + 1] = new[i + 1]
  BY <1>0, <1>1, KeptEntries
<1>6. NothingReturns(old, mid, new)
  BY <1>5 DEF NothingReturns
<1>7. MovesAreMoves(n, mid, new) /\ MovesAreTold(n, mid, new)
  <2>1. DOMAIN n.moves = {}
    BY <1>3
  <2> QED BY <1>3, <2>1 DEF MovesAreMoves, MovesAreTold
<1>8. there \in IndexSets
  <2>1. there \subseteq 0 .. Len(c.moves) - 1
    OBVIOUS
  <2> HIDE DEF there
  <2> QED BY <1>2, <2>1, IndicesOf
<1>9. rest \in Seq(Moves) /\ Remaining(rest, c.moves, there)
  BY <1>2, <1>8, WithoutLeaves
<1>10. \A x \in DOMAIN c.moves : x - 1 \in there <=> c.moves[x].to = k
  <2> TAKE x \in DOMAIN c.moves
  <2>1. x - 1 \in 0 .. Len(c.moves) - 1 /\ (x - 1) + 1 = x
    BY <1>2
  <2> QED BY <2>1
<1> HIDE DEF there, rest
<1>11. \A x \in DOMAIN rest : rest[x].to \in Nat \ {k}
  <2> TAKE x \in DOMAIN rest
  <2>1. PICK i \in DOMAIN c.moves : i - 1 \notin there /\ rest[x] = c.moves[i]
    BY <1>9 DEF Remaining
  <2> QED BY <1>2, <1>10, <2>1
<1>12. \A x \in DOMAIN rest : place[x] \in Nat /\ place[x] = Before({}, {k}, rest[x].to)
  <2> TAKE x \in DOMAIN rest
  <2>1. rest[x].to \in Nat
    BY <1>11
  <2>2. Before({}, {k}, rest[x].to) = IF rest[x].to > k THEN rest[x].to - 1 ELSE rest[x].to
    BY <1>0, <2>1, BeforeOne
  <2>3. place[x] = IF rest[x].to > k THEN rest[x].to - 1 ELSE rest[x].to
    OBVIOUS
  <2> HIDE DEF place
  <2> QED BY <1>0, <2>1, <2>2, <2>3
<1>13. [x \in DOMAIN rest |-> [rest[x] EXCEPT !.to = IF @ > k THEN @ - 1 ELSE @]] = moves
  BY DEF Placed
<1> HIDE DEF place
<1>14. AsPlaced(moves, rest, place)
  BY <1>9, <1>12, ReplacedMoves
<1>15. b = [c EXCEPT !.modifications = erase_at(@, {k}),
                     !.insertions = erase_at(@, {k}),
                     !.deletions = IF k \in c.insertions THEN @ ELSE @ \cup {Source(c, k)},
                     !.moves = moves]
  BY <1>13 DEF erase, MovedTo, rest, there
<1> HIDE DEF moves
<1> DEFINE I == erase_at(c.insertions, {k})
           changed == erase_at(c.modifications, {k})
           D == IF k \in c.insertions THEN c.deletions ELSE c.deletions \cup {Source(c, k)}
<1>16. /\ I \in IndexSets /\ I = insert_at(I, {})
  BY <1>0, <1>2, ErasedOnly
<1>17. /\ changed \in IndexSets
       /\ \A t \in Nat : t \in changed <=> Before({k}, {}, t) \in c.modifications
  <2> DEFINE shifted == shift_for_insert_at(changed, {})
  <2>1. shifted \in IndexSets
        /\ \A t \in Nat : t \in shifted <=> t \notin {} /\ Before({k}, {}, t) \in c.modifications
    BY <1>0, <1>2, Carried
  <2>2. shifted = changed
    BY <1>0, <1>2, ErasedOnly
  <2> QED BY <2>1, <2>2
<1>18. D \in IndexSets /\ D = add_shifted_by(c.deletions, c.insertions, {k})
  <2>1. D = add_shifted_by(c.deletions, c.insertions, {k})
    BY DEF add_shifted_by, Source
  <2>2. Source(c, k) \in Nat
    BY <1>0, <1>2, UnshiftSteps, ShiftFinds DEF Source
  <2>3. {Source(c, k)} \in IndexSets
    BY <2>2, FS_Singleton DEF IndexSets
  <2>4. D \in IndexSets
    BY <1>2, <2>3, FS_Union DEF IndexSets
  <2> QED BY <2>1, <2>4
<1> HIDE DEF I, changed, D, b
<1>19. /\ b \in ChangeSets /\ b.deletions = D /\ b.insertions = I
       /\ b.moves = moves /\ b.modifications = changed
  BY <1>2, <1>14, <1>15, <1>16, <1>17, <1>18 DEF ChangeSets, AsPlaced, I, changed, D
<1>20. \A p \in Nat, t \in Nat : GoesOn(n, p, t) <=> p # k /\ t = Before({}, {k}, p)
  <2>1. DOMAIN n.moves = {}
    BY <1>3
  <2> QED BY <1>3, <2>1 DEF GoesOn
<1>21. MovesOfBoth(c, n, moves)
  <2>1. DifferentMoves(c.moves)
    BY <1>2 DEF DifferentMoves
  <2>2. DOMAIN n.moves = {}
    BY <1>3
  <2>3. \A x \in DOMAIN rest : /\ place[x] \in Nat
                              /\ \A t \in Nat : GoesOn(n, rest[x].to, t) <=> t = place[x]
    BY <1>11, <1>12, <1>20
  <2>4. \A x \in DOMAIN c.moves, t \in Nat : x - 1 \in there => ~ GoesOn(n, c.moves[x].to, t)
    BY <1>2, <1>10, <1>20
  <2>5. c.moves \in Seq(Moves)
    BY <1>2
  <2>6. ArriveAt(c, n, there, rest, place)
    BY <1>9, <2>1, <2>2, <2>3, <2>4, <2>5 DEF ArriveAt
  <2> QED BY <1>14, <2>6, OnlyOldMoves
<1>22. IsBoth(c, n, b)
  BY <1>3, <1>16, <1>18, <1>19, <1>21 DEF IsBoth, I
<1>23. Carries(c, n, b, new, M)
  BY <1>3, <1>17, <1>19 DEF Carries
<1>24. n.deletions \subseteq Indices(mid) /\ FollowsIndices(n.deletions, n.insertions, mid, new)
  BY <1>1, <1>3
<1>25. Records(b, old, new, M)
  BY <1>1, <1>3, <1>4, <1>6, <1>7, <1>22, <1>23, <1>24, RecordsOn
<1> QED BY <1>1, <1>4, <1>25 DEF b, new

(* Where rows are when one has moved.                                      *)
LEMMA BeforeMove ==
  ASSUME NEW from \in Nat, NEW to \in Nat, NEW i \in Nat, i # from
  PROVE  Before({to}, {from}, i) = IF i >= to /\ i < from THEN i + 1
                                   ELSE IF i <= to /\ i > from THEN i - 1
                                   ELSE i
<1>1. unshift({from}, i) = IF i > from THEN i - 1 ELSE i
  BY OneIndex
<1>2. CASE i > from
  <2>1. i - 1 \in Nat /\ unshift({from}, i) = i - 1
    BY <1>1, <1>2
  <2>2. shift({to}, i - 1) = IF i - 1 >= to THEN (i - 1) + 1 ELSE i - 1
    BY <2>1, OneIndex
  <2> QED BY <1>2, <2>1, <2>2 DEF Before
<1>3. CASE i < from
  <2>1. unshift({from}, i) = i
    BY <1>1, <1>3
  <2>2. shift({to}, i) = IF i >= to THEN i + 1 ELSE i
    BY OneIndex
  <2> QED BY <1>3, <2>1, <2>2 DEF Before
<1> QED BY <1>2, <1>3

(* CollectionChangeBuilder::move: and when an entry moves, however often   *)
(* it has moved before and whether it was there at first or not.           *)
THEOREM MoveRecords ==
  ASSUME NEW c, NEW E, NEW old \in Seq(E), NEW mid \in Seq(E), NEW M,
         Records(c, old, mid, M), Distinct(old), Distinct(mid),
         NEW from \in Indices(mid), NEW to \in Indices(mid)
  PROVE  LET new == InsertAt(RemoveAt(mid, from + 1), to + 1, mid[from + 1])
         IN  Records(move(c, from, to), old, new, M) /\ new \in Seq(E) /\ Distinct(new)
<1> DEFINE new == InsertAt(RemoveAt(mid, from + 1), to + 1, mid[from + 1])
           n == Changes({from}, {to}, << Move(from, to) >>)
           b == move(c, from, to)
           place == [x \in DOMAIN c.moves |->
                       CASE c.moves[x].to = from                             -> to
                         [] c.moves[x].to >= to /\ c.moves[x].to < from -> c.moves[x].to + 1
                         [] c.moves[x].to <= to /\ c.moves[x].to > from -> c.moves[x].to - 1
                         [] OTHER                                            -> c.moves[x].to]
           kept == Placed(c.moves, place)
           again == \E x \in DOMAIN c.moves : c.moves[x].to = from
           source == Source(c, from)
           moves == IF from \notin c.insertions THEN Append(kept, Move(source, to)) ELSE kept
<1>0. /\ from \in Nat /\ to \in Nat
      /\ {from} \in IndexSets /\ {to} \in IndexSets /\ << Move(from, to) >> \in Seq(Moves)
  <2>1. from \in Nat /\ to \in Nat
    BY DEF Indices
  <2>2. Move(from, to) \in Moves
    BY <2>1 DEF Move, Moves
  <2> QED BY <2>1, <2>2, OneIndex
<1>1. /\ new \in Seq(E) /\ Len(new) = Len(mid) /\ new[to + 1] = mid[from + 1]
      /\ FollowsIndices({from}, {to}, mid, new)
  BY EntryMoved
<1> HIDE DEF new
<1>2. /\ c \in ChangeSets /\ c.moves \in Seq(Moves)
      /\ c.deletions \in IndexSets /\ c.insertions \in IndexSets /\ c.modifications \in IndexSets
      /\ \A x \in DOMAIN c.moves :
           /\ c.moves[x] \in Moves /\ c.moves[x].from \in Nat /\ c.moves[x].to \in Nat
           /\ c.moves[x] = [from |-> c.moves[x].from, to |-> c.moves[x].to]
           /\ c.moves[x].from \in c.deletions /\ c.moves[x].to \in c.insertions
      /\ \A x, y \in DOMAIN c.moves : c.moves[x].from = c.moves[y].from => x = y
      /\ \A x, y \in DOMAIN c.moves : c.moves[x].to = c.moves[y].to => x = y
  BY RecordedMoves
<1>3. /\ n \in ChangeSets /\ n.deletions = {from} /\ n.insertions = {to}
      /\ n.moves = << Move(from, to) >>
  <2> DEFINE D == {from}
             I == {to}
             moved == << Move(from, to) >>
  <2>1. D \in IndexSets /\ I \in IndexSets /\ moved \in Seq(Moves) /\ n = Changes(D, I, moved)
    BY <1>0
  <2> HIDE DEF D, I, moved, n
  <2>2. n \in ChangeSets /\ n.deletions = D /\ n.insertions = I /\ n.moves = moved
    BY ONLY <2>1, ChangesType
  <2> QED BY <2>2 DEF D, I, moved
<1> HIDE DEF n
<1>4. /\ DOMAIN n.moves = {1} /\ n.moves[1] = [from |-> from, to |-> to]
      /\ n.moves[1].from = from /\ n.moves[1].to = to
  BY <1>3 DEF Move
<1>5. \A i \in Indices(new) \ {to} : /\ Before({from}, {to}, i) \in Indices(mid)
                                     /\ mid[Before({from}, {to}, i) + 1] = new[i + 1]
  BY <1>0, <1>1, KeptEntries
<1>6. Distinct(new)
  <2>1. \A i, j \in {to} : i = j
    OBVIOUS
  <2>2. \A i \in {to}, j \in Indices(mid) \ {from} : new[i + 1] # mid[j + 1]
    BY <1>1, DistinctIndices
  <2>3. {to} \subseteq Indices(new)
    BY <1>1 DEF Indices
  <2> DEFINE D == {from}
             I == {to}
  <2>4. /\ mid \in Seq(E) /\ new \in Seq(E) /\ Distinct(mid) /\ D \in IndexSets /\ I \in IndexSets
        /\ FollowsIndices(D, I, mid, new) /\ (\A i, j \in I : i = j) /\ I \subseteq Indices(new)
        /\ \A i \in I, j \in Indices(mid) \ D : new[i + 1] # mid[j + 1]
    BY <1>0, <1>1, <2>1, <2>2, <2>3
  <2> HIDE DEF D, I
  <2> QED BY ONLY <2>4, StaysDistinct
<1>7. NothingReturns(old, mid, new)
  <2>1. \A i \in Indices(new) : \E p \in Indices(mid) : mid[p + 1] = new[i + 1]
    BY <1>1, <1>5
  <2> QED BY <2>1 DEF NothingReturns
<1>8. to \in Indices(new)
  BY <1>1 DEF Indices
<1>9. MovesAreMoves(n, mid, new) /\ MovesAreTold(n, mid, new)
  BY <1>1, <1>3, <1>4, <1>8 DEF MovesAreMoves, MovesAreTold
<1>10. \A p \in Nat, t \in Nat :
         GoesOn(n, p, t) <=> \/ p = from /\ t = to
                             \/ p # from /\ t = Before({to}, {from}, p)
  <2> TAKE p \in Nat, t \in Nat
  <2>1. (\E j \in DOMAIN n.moves : n.moves[j] = [from |-> p, to |-> t]) <=> p = from /\ t = to
    BY <1>4
  <2> QED BY <1>3, <2>1 DEF GoesOn
<1>11. \A x \in DOMAIN c.moves : /\ place[x] \in Nat
                                 /\ \A t \in Nat : GoesOn(n, c.moves[x].to, t) <=> t = place[x]
  <2> TAKE x \in DOMAIN c.moves
  <2> DEFINE p == c.moves[x].to
  <2>1. p \in Nat
    BY <1>2
  <2>2. place[x] = CASE p = from             -> to
                     [] p >= to /\ p < from -> p + 1
                     [] p <= to /\ p > from -> p - 1
                     [] OTHER                -> p
    OBVIOUS
  <2> HIDE DEF p, place
  <2>3. place[x] \in Nat
    BY <1>0, <2>1, <2>2
  <2>4. p = from => place[x] = to
    BY <1>0, <2>1, <2>2
  <2>5. ASSUME p # from PROVE place[x] = Before({to}, {from}, p)
    <3>1. place[x] = IF p >= to /\ p < from THEN p + 1
                     ELSE IF p <= to /\ p > from THEN p - 1
                     ELSE p
      BY <1>0, <2>1, <2>2, <2>5
    <3>2. Before({to}, {from}, p) = IF p >= to /\ p < from THEN p + 1
                                    ELSE IF p <= to /\ p > from THEN p - 1
                                    ELSE p
      BY <1>0, <2>1, <2>5, BeforeMove
    <3> QED BY <3>1, <3>2
  <2>6. \A t \in Nat : GoesOn(n, p, t) <=> t = place[x]
    BY <1>10, <2>1, <2>4, <2>5
  <2> QED BY <2>3, <2>6 DEF p
<1>12. kept = MovedTo(c.moves, LAMBDA i : CASE i = from            -> to
                                            [] i >= to /\ i < from -> i + 1
                                            [] i <= to /\ i > from -> i - 1
                                            [] OTHER               -> i)
  BY DEF Placed, MovedTo
<1> HIDE DEF place
<1>13. AsPlaced(kept, c.moves, place)
  BY <1>2, <1>11, ReplacedMoves
<1>14. again => from \in c.insertions
  BY <1>2
<1> DEFINE I == insert_at(erase_at(c.insertions, {from}), {to})
           D == IF from \notin c.insertions THEN c.deletions \cup {source} ELSE c.deletions
           shifted == shift_for_insert_at(erase_at(c.modifications, {from}), {to})
           changed == IF from \in c.modifications THEN shifted \cup {to} ELSE shifted
<1>15. b = [c EXCEPT !.insertions = I, !.deletions = D, !.moves = moves, !.modifications = changed]
  BY <1>12, <1>14 DEF move, MovedTo
<1> HIDE DEF again, kept
<1>16. I \in IndexSets
  BY <1>0, <1>2, ErasedAndInserted
<1>17. /\ changed \in IndexSets
       /\ \A t \in Nat \ {to} : t \in changed <=> Before({from}, {to}, t) \in c.modifications
       /\ to \in changed <=> from \in c.modifications
  <2>1. shifted \in IndexSets
        /\ \A t \in Nat : t \in shifted <=> t \notin {to} /\ Before({from}, {to}, t) \in c.modifications
    <3>1. c.modifications \in IndexSets /\ {from} \in IndexSets /\ {to} \in IndexSets
      BY <1>0, <1>2
    <3> QED BY ONLY <3>1, Carried
  <2> HIDE DEF shifted
  <2>2. changed \in IndexSets
    BY <1>0, <2>1, FS_Union DEF IndexSets
  <2> QED BY <1>0, <2>1, <2>2
<1>18. /\ D \in IndexSets /\ D = add_shifted_by(c.deletions, c.insertions, {from})
       /\ source \in Nat
       /\ from \notin c.insertions => source \notin c.deletions
  <2>1. D = add_shifted_by(c.deletions, c.insertions, {from})
    BY DEF add_shifted_by, Source
  <2>2. source = Before(c.deletions, c.insertions, from)
    BY DEF Source, Before
  <2>3. source \in Nat /\ source \notin c.deletions
    BY <1>0, <1>2, UnshiftSteps, ShiftFinds DEF Source
  <2>4. {source} \in IndexSets
    BY <2>3, FS_Singleton DEF IndexSets
  <2>5. D \in IndexSets
    BY <1>2, <2>4, FS_Union DEF IndexSets
  <2> QED BY <2>1, <2>3, <2>5
<1> HIDE DEF I, D, shifted, changed, b, source
<1>19. /\ kept \in Seq(Moves) /\ DOMAIN kept = DOMAIN c.moves
       /\ \A x \in DOMAIN c.moves : /\ kept[x].from = c.moves[x].from
                                    /\ kept[x].to = place[x]
                                    /\ kept[x] = [from |-> c.moves[x].from, to |-> place[x]]
  BY <1>13 DEF AsPlaced
<1>20. MovesOfBoth(c, n, kept) \/ from \notin c.insertions
  <2> SUFFICES ASSUME from \in c.insertions PROVE MovesOfBoth(c, n, kept)
    OBVIOUS
  <2>1. \A x \in DOMAIN kept : \E l \in DOMAIN c.moves :
          kept[x].from = c.moves[l].from /\ GoesOn(n, c.moves[l].to, kept[x].to)
    BY <1>11, <1>19
  <2>2. DifferentMoves(kept)
    BY <1>2, <1>19 DEF DifferentMoves
  <2>3. \A l \in DOMAIN c.moves, t \in Nat : GoesOn(n, c.moves[l].to, t) =>
          \E x \in DOMAIN kept : kept[x] = [from |-> c.moves[l].from, to |-> t]
    BY <1>11, <1>19
  <2>4. \A j \in DOMAIN n.moves : n.moves[j].from \in c.insertions
    BY <1>4
  <2> QED BY <2>1, <2>2, <2>3, <2>4 DEF MovesOfBoth
<1>21. ASSUME from \notin c.insertions
       PROVE  moves \in Seq(Moves) /\ MovesOfBoth(c, n, moves)
  <2> DEFINE m == Move(source, to)
  <2>1. m \in Moves /\ m = [from |-> source, to |-> to] /\ m.from = source /\ m.to = to
    BY <1>0, <1>18 DEF Move, Moves
  <2>2. moves = Append(kept, m)
    BY <1>21
  <2> HIDE DEF m, moves
  <2>3. /\ moves \in Seq(Moves)
        /\ \A x \in DOMAIN kept : x \in DOMAIN moves /\ moves[x] = kept[x]
        /\ Len(kept) + 1 \in DOMAIN moves /\ moves[Len(kept) + 1] = m
        /\ \A x \in DOMAIN moves : x \in DOMAIN kept \/ x = Len(kept) + 1
    BY <1>19, <2>1, <2>2
  <2>4. ASSUME NEW x \in DOMAIN moves
        PROVE  \/ \E l \in DOMAIN c.moves : /\ moves[x].from = c.moves[l].from
                                            /\ GoesOn(n, c.moves[l].to, moves[x].to)
               \/ \E j \in DOMAIN n.moves : /\ n.moves[j].from \notin c.insertions
                                            /\ moves[x].from = Source(c, n.moves[j].from)
                                            /\ moves[x].to = n.moves[j].to
    <3>1. CASE x \in DOMAIN kept
      BY <1>11, <1>19, <2>3, <3>1
    <3>2. CASE x = Len(kept) + 1
      BY <1>4, <1>21, <2>1, <2>3, <3>2 DEF source
    <3> QED BY <2>3, <3>1, <3>2
  <2>5. \A x \in DOMAIN kept : moves[x].from = c.moves[x].from /\ moves[x].from # source
    <3> TAKE x \in DOMAIN kept
    <3>1. x \in DOMAIN c.moves /\ moves[x] = kept[x] /\ kept[x].from = c.moves[x].from
      BY <1>19, <2>3
    <3>2. c.moves[x].from \in c.deletions
      BY <1>2, <3>1
    <3>3. source \notin c.deletions
      BY <1>18, <1>21
    <3> QED BY <3>1, <3>2, <3>3
  <2>6. DifferentMoves(moves)
    <3> SUFFICES ASSUME NEW x \in DOMAIN moves, NEW y \in DOMAIN moves, moves[x].from = moves[y].from
                 PROVE  x = y
      BY DEF DifferentMoves
    <3>1. CASE x \in DOMAIN kept /\ y \in DOMAIN kept
      BY <1>2, <1>19, <2>5, <3>1
    <3>2. CASE x = Len(kept) + 1 \/ y = Len(kept) + 1
      BY <2>1, <2>3, <2>5, <3>2
    <3> QED BY <2>3, <3>1, <3>2
  <2>7. \A l \in DOMAIN c.moves, t \in Nat : GoesOn(n, c.moves[l].to, t) =>
          \E x \in DOMAIN moves : moves[x] = [from |-> c.moves[l].from, to |-> t]
    <3> TAKE l \in DOMAIN c.moves, t \in Nat
    <3> HAVE GoesOn(n, c.moves[l].to, t)
    <3>1. t = place[l]
      BY <1>11
    <3>2. l \in DOMAIN moves /\ moves[l] = [from |-> c.moves[l].from, to |-> place[l]]
      BY <1>19, <2>3
    <3> QED BY <3>1, <3>2
  <2>8. \A j \in DOMAIN n.moves : n.moves[j].from \notin c.insertions =>
          \E x \in DOMAIN moves : moves[x] = [from |-> Source(c, n.moves[j].from),
                                              to   |-> n.moves[j].to]
    <3>1. \A j \in DOMAIN n.moves : Source(c, n.moves[j].from) = source /\ n.moves[j].to = to
      BY <1>4 DEF source
    <3>2. \E x \in DOMAIN moves : moves[x] = [from |-> source, to |-> to]
      BY <2>1, <2>3
    <3> QED BY <3>1, <3>2
  <2> QED BY <2>3, <2>4, <2>6, <2>7, <2>8 DEF MovesOfBoth
<1>22. moves \in Seq(Moves) /\ MovesOfBoth(c, n, moves)
  BY <1>19, <1>20, <1>21
<1> HIDE DEF moves
<1>23. /\ b \in ChangeSets /\ b.deletions = D /\ b.insertions = I
       /\ b.moves = moves /\ b.modifications = changed
  BY <1>2, <1>15, <1>16, <1>17, <1>18, <1>22 DEF ChangeSets
<1>24. IsBoth(c, n, b)
  BY <1>3, <1>18, <1>22, <1>23 DEF IsBoth, I
<1>25. Carries(c, n, b, new, M)
  <2>1. from \in c.modifications <=> new[to + 1] \in M
    BY <1>1 DEF Records
  <2> QED BY <1>3, <1>17, <1>23, <2>1 DEF Carries
<1>26. n.deletions \subseteq Indices(mid) /\ FollowsIndices(n.deletions, n.insertions, mid, new)
  BY <1>1, <1>3
<1>27. Records(b, old, new, M)
  BY <1>1, <1>3, <1>6, <1>7, <1>9, <1>24, <1>25, <1>26, RecordsOn
<1> QED BY <1>1, <1>6, <1>27 DEF b, new

(* All indices of a sequence are below its length. *)
LEMMA CountOfAll ==
  ASSUME NEW E, NEW s \in Seq(E), NEW S, S \subseteq Indices(s)
  PROVE  S \in IndexSets /\ Cardinality(S) \in Nat /\ count(S, Len(s)) = Cardinality(S)
<1>1. S \in IndexSets
  BY IndicesOf DEF Indices
<1>2. {i \in S : i < Len(s)} = S
  <2>1. \A i \in Indices(s) : i < Len(s)
    BY DEF Indices
  <2> QED BY <2>1
<1> QED BY <1>1, <1>2, FS_CardinalityType DEF IndexSets, count

(* All entries deleted: nothing is left. *)
LEMMA ToNothing ==
  ASSUME NEW E, NEW old \in Seq(E), NEW c, c = [NoChanges EXCEPT !.deletions = Indices(old)]
  PROVE  /\ c \in ChangeSets
         /\ Leads(c, old, << >>) /\ MovesAreMoves(c, old, << >>) /\ MovesAreTold(c, old, << >>)
<1>1. /\ Indices(old) \in IndexSets /\ Cardinality(Indices(old)) \in Nat
      /\ count(Indices(old), Len(old)) = Cardinality(Indices(old))
  BY CountOfAll
<1>2. /\ c.deletions = Indices(old) /\ c.insertions = {} /\ c.moves = << >>
      /\ c.modifications = {} /\ c.mapping = << >>
  BY DEF NoChanges
<1>3. {} \in IndexSets
  BY FS_EmptySet DEF IndexSets
<1>4. c \in ChangeSets
  <2>1. << >> \in Mappings
    <3>1. << >> \in [{} -> Nat]
      OBVIOUS
    <3> QED BY <1>3, <3>1 DEF Mappings
  <2>2. << >> \in Seq(Moves)
    OBVIOUS
  <2> QED BY <1>1, <1>3, <2>1, <2>2 DEF ChangeSets, NoChanges
<1>5. Place(Indices(old), Len(old)) = 0
  <2>1. {k \in 0 .. Len(old) - 1 : k \notin Indices(old)} = {}
    BY DEF Indices
  <2> QED BY <2>1, FS_EmptySet DEF Place
<1>6. Len(<< >>) = 0 /\ Indices(<< >>) = {} /\ Place({}, 0) = 0
  <2>1. {k \in 0 .. 0 - 1 : k \notin {}} = {}
    OBVIOUS
  <2> QED BY <2>1, FS_EmptySet DEF Place, Indices
<1>7. Leads(c, old, << >>)
  BY <1>2, <1>5, <1>6 DEF Leads
<1>8. DOMAIN c.moves = {}
  BY <1>2
<1> QED BY <1>2, <1>4, <1>6, <1>7, <1>8 DEF MovesAreMoves, MovesAreTold

(* CollectionChangeBuilder::clear: and when all go. The size before is     *)
(* found from the size now, and what was deleted and inserted.             *)
THEOREM ClearRecords ==
  ASSUME NEW c, NEW E, NEW old \in Seq(E), NEW mid \in Seq(E), NEW M, Records(c, old, mid, M)
  PROVE  Records(clear(c, Len(mid)), old, << >>, M)
<1> DEFINE D == c.deletions
           I == c.insertions
           b == clear(c, Len(mid))
<1>0. Len(old) \in Nat /\ Len(mid) \in Nat
  OBVIOUS
<1>1. Leads(c, old, mid) /\ D \subseteq Indices(old) /\ I \subseteq Indices(mid)
      /\ Place(D, Len(old)) = Place(I, Len(mid))
  BY DEF Records, Leads
<1>2. /\ D \in IndexSets /\ Cardinality(D) \in Nat /\ count(D, Len(old)) = Cardinality(D)
      /\ I \in IndexSets /\ Cardinality(I) \in Nat /\ count(I, Len(mid)) = Cardinality(I)
  BY <1>1, CountOfAll
<1>3. unshift(D, Len(old)) = unshift(I, Len(mid))
      /\ unshift(D, Len(old)) \in Nat /\ unshift(I, Len(mid)) \in Nat
  <2> HIDE DEF D, I
  <2>1. Place(D, Len(old)) = unshift(D, Len(old)) /\ unshift(D, Len(old)) \in Nat
    BY <1>0, <1>2, PlaceIsUnshift, UnshiftSteps
  <2>2. Place(I, Len(mid)) = unshift(I, Len(mid)) /\ unshift(I, Len(mid)) \in Nat
    BY <1>0, <1>2, PlaceIsUnshift, UnshiftSteps
  <2> QED BY <1>1, <2>1, <2>2
<1>4. Len(mid) + Cardinality(D) - Cardinality(I) = Len(old)
  BY <1>0, <1>2, <1>3 DEF unshift
<1>5. b = [NoChanges EXCEPT !.deletions = Indices(old)]
  BY <1>4 DEF clear, clear_table_of, Indices
<1> HIDE DEF b
<1>6. /\ b \in ChangeSets
      /\ Leads(b, old, << >>) /\ MovesAreMoves(b, old, << >>) /\ MovesAreTold(b, old, << >>)
  BY <1>5, ToNothing
<1>7. b.deletions = Indices(old)
  BY <1>5 DEF NoChanges
<1>8. Indices(<< >>) = {}
  BY DEF Indices
<1> QED BY <1>6, <1>7, <1>8 DEF Records, b

(* CollectionChangeBuilder::modify: and when an entry is modified. *)
THEOREM ModifyRecords ==
  ASSUME NEW c, NEW E, NEW old \in Seq(E), NEW new \in Seq(E), NEW M, Records(c, old, new, M),
         Distinct(new), NEW k \in Indices(new)
  PROVE  Records(modify(c, k), old, new, M \cup {new[k + 1]})
<1> DEFINE b == modify(c, k)
<1>1. /\ c \in ChangeSets /\ c.deletions \subseteq Indices(old)
      /\ Leads(c, old, new) /\ MovesAreMoves(c, old, new) /\ MovesAreTold(c, old, new)
      /\ \A i \in Indices(new) : i \in c.modifications <=> new[i + 1] \in M
  BY DEF Records
<1>2. k \in Nat /\ {k} \in IndexSets
  BY OneIndex DEF Indices
<1>3. c.modifications \cup {k} \in IndexSets
  BY <1>1, <1>2, FS_Union DEF IndexSets, ChangeSets
<1>4. /\ b \in ChangeSets /\ b.deletions = c.deletions /\ b.insertions = c.insertions
      /\ b.moves = c.moves /\ b.modifications = c.modifications \cup {k}
  BY <1>1, <1>3 DEF modify, ChangeSets
<1> HIDE DEF b
<1>5. Leads(b, old, new)
  BY <1>1, <1>4 DEF Leads
<1>6. MovesAreMoves(b, old, new) /\ MovesAreTold(b, old, new)
  BY <1>1, <1>4 DEF MovesAreMoves, MovesAreTold
<1>7. \A i \in Indices(new) : new[i + 1] = new[k + 1] <=> i = k
  BY DistinctIndices
<1> QED BY <1>1, <1>4, <1>5, <1>6, <1>7 DEF Records, b

(* Nothing has happened. *)
THEOREM NothingRecords ==
  ASSUME NEW E, NEW s \in Seq(E), NEW M, M \cap ToSet(s) = {}
  PROVE  Records(NoChanges, s, s, M)
<1>1. {} \in IndexSets
  BY FS_EmptySet DEF IndexSets
<1>2. NoChanges \in ChangeSets
  <2>1. << >> \in Mappings
    <3>1. << >> \in [{} -> Nat]
      OBVIOUS
    <3> QED BY <1>1, <3>1 DEF Mappings
  <2>2. << >> \in Seq(Moves)
    OBVIOUS
  <2> QED BY <1>1, <2>1, <2>2 DEF ChangeSets, NoChanges
<1>3. /\ NoChanges.deletions = {} /\ NoChanges.insertions = {} /\ NoChanges.modifications = {}
      /\ DOMAIN NoChanges.moves = {}
  BY DEF NoChanges
<1>4. FollowsIndices({}, {}, s, s)
  <2> SUFFICES ASSUME NEW i \in Nat PROVE Before({}, {}, i) = i
    BY DEF FollowsIndices
  <2> QED BY NoIndex DEF Before
<1>5. Leads(NoChanges, s, s)
  BY <1>1, <1>3, <1>4, LeadsIsFollowing
<1>6. \A i \in Indices(s) : s[i + 1] \notin M
  <2> TAKE i \in Indices(s)
  <2>1. i + 1 \in DOMAIN s
    BY DEF Indices
  <2> QED BY <2>1 DEF ToSet
<1>7. MovesAreMoves(NoChanges, s, s) /\ MovesAreTold(NoChanges, s, s)
  BY <1>3 DEF MovesAreMoves, MovesAreTold
<1> QED BY <1>2, <1>3, <1>5, <1>6, <1>7 DEF Records

-----------------------------------------------------------------------------
(* Tables: rows leave by the last one taking their place. Before the end   *)
(* of a transaction the rows that stay are those not inserted, and they    *)
(* stay where they are; the others that are old are in the mapping.        *)
RecordsTable(c, old, new, M) ==
  /\ c \in ChangeSets /\ c.moves = << >>
  /\ c.insertions \subseteq Indices(new) /\ c.modifications \subseteq Indices(new)
  /\ Indices(old) \ Indices(new) \subseteq c.deletions
  /\ \A i \in Indices(new) :
       /\ i \in c.insertions <=> i \in c.deletions \/ i \notin Indices(old)
       /\ i \notin c.insertions => old[i + 1] = new[i + 1]
       /\ i \in c.modifications <=> new[i + 1] \in M
  /\ DOMAIN c.mapping \subseteq c.insertions
  /\ \A i \in DOMAIN c.mapping : c.mapping[i] \in c.deletions \cap Indices(old)
  /\ \A i \in c.insertions, j \in Indices(old) :
       old[j + 1] = new[i + 1] <=> i \in DOMAIN c.mapping /\ c.mapping[i] = j

(* The indices of a set by how many are below. *)
LEMMA NthIndex ==
  ASSUME NEW n \in Nat, NEW S \in SUBSET (0 .. n - 1)
  PROVE  /\ S \in IndexSets /\ Cardinality(S) \in Nat
         /\ \A x \in S : count(S, x) \in 0 .. Cardinality(S) - 1
         /\ \A x, y \in S : count(S, x) = count(S, y) => x = y
         /\ \A k \in 0 .. Cardinality(S) - 1 : \E x \in S : count(S, x) = k
<1>1. S \in IndexSets /\ Cardinality(S) \in Nat
  <2>1. IsFiniteSet(0 .. n - 1)
    BY FS_Interval
  <2>2. IsFiniteSet(S)
    BY <2>1, FS_Subset
  <2>3. S \in SUBSET Nat
    OBVIOUS
  <2> QED BY <2>2, <2>3, FS_CardinalityType DEF IndexSets
<1>2. \A i \in Nat : /\ count(S, i) \in Nat /\ count(S, 0) = 0
                     /\ count(S, i + 1) = IF i \in S THEN count(S, i) + 1 ELSE count(S, i)
                     /\ count(S, i) <= Cardinality(S)
  BY <1>1, CountSteps
<1>3. \A x \in S : x \in Nat /\ x + 1 \in Nat /\ x < n
  OBVIOUS
<1>4. \A x \in S : count(S, x) \in 0 .. Cardinality(S) - 1
  <2> TAKE x \in S
  <2>1. count(S, x + 1) = count(S, x) + 1 /\ count(S, x + 1) <= Cardinality(S) /\ count(S, x) \in Nat
    BY <1>2, <1>3
  <2> QED BY <1>1, <2>1
<1>5. ASSUME NEW x \in Nat, NEW y \in Nat, x <= y PROVE count(S, x) <= count(S, y)
  <2>1. {k \in S : k < x} \subseteq {k \in S : k < y}
    <3>1. \A k \in S : k < x => k < y
      BY <1>3, <1>5
    <3> QED BY <3>1
  <2>2. IsFiniteSet({k \in S : k < y})
    BY <1>1, FS_Subset DEF IndexSets
  <2> QED BY <2>1, <2>2, FS_Subset DEF count
<1>6. ASSUME NEW x \in S, NEW y \in S, x < y PROVE count(S, x) < count(S, y)
  <2>1. count(S, x + 1) = count(S, x) + 1
    BY <1>2, <1>3
  <2>2. count(S, x + 1) <= count(S, y)
    BY <1>3, <1>5, <1>6
  <2> QED BY <1>2, <1>3, <2>1, <2>2
<1>7. ASSUME NEW x \in S, NEW y \in S, count(S, x) = count(S, y) PROVE x = y
  <2>1. count(S, x) \in Nat /\ ~ (x < y) /\ ~ (y < x)
    BY <1>2, <1>3, <1>6, <1>7
  <2> QED BY <1>3, <2>1
<1>8. ASSUME NEW k \in 0 .. Cardinality(S) - 1 PROVE \E x \in S : count(S, x) = k
  <2> DEFINE T == {i \in Nat : count(S, i) > k}
  <2>1. n \in T
    <3>1. {i \in S : i < n} = S
      BY <1>3
    <3>2. count(S, n) = Cardinality(S)
      BY <3>1 DEF count
    <3> QED BY <1>1, <3>2
  <2>2. PICK m \in T : \A x \in T : m <= x
    <3> HIDE DEF T
    <3>1. T \in SUBSET Nat
      BY DEF T
    <3> QED BY <2>1, <3>1, LeastNumber
  <2>3. m \in Nat /\ m # 0 /\ count(S, m) > k
    BY <1>2, <2>2
  <2>4. m - 1 \in Nat /\ (m - 1) + 1 = m /\ ~ (count(S, m - 1) > k)
    BY <2>2, <2>3
  <2>5. count(S, m) = IF m - 1 \in S THEN count(S, m - 1) + 1 ELSE count(S, m - 1)
    BY <1>2, <2>4
  <2>6. count(S, m - 1) \in Nat /\ count(S, m) \in Nat
    BY <1>2, <2>3, <2>4
  <2> QED BY <1>1, <2>3, <2>4, <2>5, <2>6
<1> QED BY <1>1, <1>4, <1>7, <1>8

(* std::sort in parse_complete: the same moves, each once. *)
LEMMA ByFromLists ==
  ASSUME NEW n \in Nat, NEW moves \in SUBSET [from : 0 .. n - 1, to : Nat],
         \A m, o \in moves : m.from = o.from => m = o
  PROVE  /\ ByFrom(moves) \in Seq(Moves)
         /\ \A k \in DOMAIN ByFrom(moves) : ByFrom(moves)[k] \in moves
         /\ \A m \in moves : \E k \in DOMAIN ByFrom(moves) : ByFrom(moves)[k] = m
         /\ \A k, l \in DOMAIN ByFrom(moves) : ByFrom(moves)[k].from = ByFrom(moves)[l].from => k = l
<1> DEFINE froms == {m.from : m \in moves}
           N == Cardinality(froms)
           Nth(k) == CHOOSE m \in moves : count(froms, m.from) = k - 1
           s == ByFrom(moves)
<1>1. s = [k \in 1 .. N |-> Nth(k)]
  BY DEF ByFrom
<1>2. froms \in SUBSET (0 .. n - 1)
  OBVIOUS
<1>3. /\ N \in Nat
      /\ \A x \in froms : count(froms, x) \in 0 .. N - 1
      /\ \A x, y \in froms : count(froms, x) = count(froms, y) => x = y
      /\ \A k \in 0 .. N - 1 : \E x \in froms : count(froms, x) = k
  <2> HIDE DEF froms
  <2> QED BY <1>2, NthIndex
<1>4. ASSUME NEW k \in 1 .. N PROVE Nth(k) \in moves /\ count(froms, Nth(k).from) = k - 1
  <2>1. k - 1 \in 0 .. N - 1
    BY <1>3
  <2>2. PICK x \in froms : count(froms, x) = k - 1
    BY <1>3, <2>1
  <2>3. \E m \in moves : count(froms, m.from) = k - 1
    BY <2>2
  <2> HIDE DEF froms
  <2> QED BY <2>3
<1>5. ASSUME NEW m \in moves PROVE \E k \in 1 .. N : Nth(k) = m
  <2> DEFINE k == count(froms, m.from) + 1
  <2>1. m.from \in froms
    OBVIOUS
  <2>2. count(froms, m.from) \in 0 .. N - 1
    BY <1>3, <2>1
  <2>3. k \in 1 .. N /\ k - 1 = count(froms, m.from)
    BY <1>3, <2>2
  <2> HIDE DEF k
  <2>4. Nth(k) \in moves /\ count(froms, Nth(k).from) = count(froms, m.from)
    BY <1>4, <2>3
  <2>5. Nth(k).from \in froms
    BY <2>4
  <2>6. Nth(k).from = m.from
    BY <1>3, <2>1, <2>4, <2>5
  <2>7. Nth(k) = m
    <3> HIDE DEF Nth
    <3> QED BY <2>4, <2>6
  <2> QED BY <2>3, <2>7
<1>6. ASSUME NEW k \in 1 .. N, NEW l \in 1 .. N, Nth(k).from = Nth(l).from PROVE k = l
  <2>1. k - 1 = l - 1
    BY <1>4, <1>6
  <2> QED BY <2>1
<1> HIDE DEF Nth, N, s
<1>7. DOMAIN s = 1 .. N /\ \A k \in 1 .. N : s[k] = Nth(k)
  BY <1>1
<1>8. s \in Seq(Moves)
  <2>1. \A k \in 1 .. N : Nth(k) \in Moves
    <3>1. moves \subseteq Moves
      BY DEF Moves
    <3> QED BY <1>4, <3>1
  <2> QED BY <1>1, <1>3, <2>1
<1>9. \A k \in DOMAIN s : s[k] \in moves
  BY <1>4, <1>7
<1>10. \A m \in moves : \E k \in DOMAIN s : s[k] = m
  BY <1>5, <1>7
<1>11. \A k, l \in DOMAIN s : s[k].from = s[l].from => k = l
  BY <1>6, <1>7
<1> QED BY <1>8, <1>9, <1>10, <1>11 DEF s

(* The old index of a row that has stayed where it is. *)
LEMMA SourceStays ==
  ASSUME NEW D \in IndexSets, NEW I \in IndexSets, NEW i \in Nat, i \notin D,
         \A j \in Nat : j < i => (j \in D <=> j \in I)
  PROVE  shift(D, unshift(I, i)) = i
<1>1. {k \in D : k < i} = {k \in I : k < i}
  <2>1. \A k \in D : k \in Nat
    BY DEF IndexSets
  <2>2. \A k \in I : k \in Nat
    BY DEF IndexSets
  <2> QED BY <2>1, <2>2
<1>2. unshift(I, i) = unshift(D, i)
  BY <1>1 DEF unshift, count
<1>3. shift(D, unshift(D, i)) = i
  BY ShiftIsUnique
<1> QED BY <1>2, <1>3

(* What the parts are. *)
LEMMA TableParts ==
  ASSUME NEW c, NEW old, NEW E, NEW new \in Seq(E), NEW M, RecordsTable(c, old, new, M)
  PROVE  /\ c \in ChangeSets /\ c.moves = << >> /\ c.insertions \in IndexSets
         /\ c.deletions \in IndexSets /\ c.modifications \in IndexSets /\ c.mapping \in Mappings
         /\ c.insertions \subseteq 0 .. Len(new) - 1
         /\ DOMAIN c.mapping \subseteq c.insertions
         /\ \A i \in Indices(new) : i \in Nat /\ {i} \in IndexSets
         /\ \A j \in Indices(new) :
              j \in c.insertions <=> j \in c.deletions \/ j \notin Indices(old)
<1>1. c \in ChangeSets /\ c.moves = << >> /\ c.insertions \subseteq Indices(new)
      /\ DOMAIN c.mapping \subseteq c.insertions
  BY DEF RecordsTable
<1>2. \A j \in Indices(new) :
        j \in c.insertions <=> j \in c.deletions \/ j \notin Indices(old)
  BY DEF RecordsTable
<1>3. \A i \in Indices(new) : i \in Nat /\ {i} \in IndexSets
  BY OneIndex DEF Indices
<1>4. /\ c.insertions \in IndexSets /\ c.deletions \in IndexSets
      /\ c.modifications \in IndexSets /\ c.mapping \in Mappings
  BY <1>1 DEF ChangeSets
<1>5. Indices(new) = 0 .. Len(new) - 1
  BY DEF Indices
<1> QED BY <1>1, <1>2, <1>3, <1>4, <1>5

(* Of a table: a row that is not inserted is. *)
LEMMA SourceInTable ==
  ASSUME NEW c, NEW E, NEW old \in Seq(E), NEW new \in Seq(E), NEW M,
         RecordsTable(c, old, new, M), NEW i \in Indices(new), i \notin c.insertions
  PROVE  Source(c, i) = i /\ i \in Indices(old) /\ i \notin c.deletions
<1>1. /\ c.deletions \in IndexSets /\ c.insertions \in IndexSets
      /\ \A j \in Indices(new) :
           j \in c.insertions <=> j \in c.deletions \/ j \notin Indices(old)
  BY DEF RecordsTable, ChangeSets
<1>2. i \in Nat /\ i \in Indices(old) /\ i \notin c.deletions
  BY <1>1 DEF Indices
<1>3. \A j \in Nat : j < i => j \in Indices(new) /\ j \in Indices(old)
  BY <1>2 DEF Indices
<1>4. \A j \in Nat : j < i => (j \in c.deletions <=> j \in c.insertions)
  BY <1>1, <1>3
<1>5. shift(c.deletions, unshift(c.insertions, i)) = i
  BY <1>1, <1>2, <1>4, SourceStays
<1> QED BY <1>2, <1>5 DEF Source

(* Indices below the one that goes or comes stay. *)
LEMMA OnlyTheLast ==
  ASSUME NEW k \in Nat, NEW S \in IndexSets
  PROVE  /\ S \subseteq 0 .. k => erase_at(S, {k}) = S \ {k}
         /\ S \subseteq 0 .. k - 1 => shift_for_insert_at(S, {k}) = S
<1>1. \A i \in S : i \in Nat
  BY DEF IndexSets
<1>2. ASSUME S \subseteq 0 .. k PROVE erase_at(S, {k}) = S \ {k}
  <2>1. \A i \in S \ {k} : unshift({k}, i) = i
    <3> TAKE i \in S \ {k}
    <3>1. i \in Nat /\ ~ (i > k)
      BY <1>1, <1>2
    <3> QED BY <3>1, OneIndex
  <2> QED BY <2>1 DEF erase_at
<1>3. ASSUME S \subseteq 0 .. k - 1 PROVE shift_for_insert_at(S, {k}) = S
  <2>1. \A i \in S : shift({k}, i) = i
    <3> TAKE i \in S
    <3>1. i \in Nat /\ ~ (i >= k)
      BY <1>1, <1>3
    <3> QED BY <3>1, OneIndex
  <2> QED BY <2>1 DEF shift_for_insert_at
<1> QED BY <1>2, <1>3

(* The mapping without an index, and with one. *)
LEMMA UnmappedChanges ==
  ASSUME NEW m \in Mappings, NEW i \in Nat
  PROVE  /\ Unmapped(m, i) \in Mappings /\ DOMAIN Unmapped(m, i) = DOMAIN m \ {i}
         /\ \A k \in DOMAIN m \ {i} : Unmapped(m, i)[k] = m[k]
<1>1. PICK S \in IndexSets : m \in [S -> Nat]
  BY DEF Mappings
<1>2. {i} \in IndexSets
  BY OneIndex
<1>3. S \ {i} \in IndexSets /\ DOMAIN m = S
  BY <1>1, <1>2, UnionIsFinite
<1>4. Unmapped(m, i) = [k \in S \ {i} |-> m[k]]
  BY <1>3 DEF Unmapped, Restrict
<1>5. Unmapped(m, i) \in [S \ {i} -> Nat]
  BY <1>1, <1>4
<1> QED BY <1>3, <1>4, <1>5 DEF Mappings

(* A mapping in which an index is mapped to another. *)
Maps(mapping, m, i, j) ==
  /\ mapping \in Mappings /\ DOMAIN mapping = DOMAIN m \cup {i} /\ mapping[i] = j
  /\ \A k \in DOMAIN m \ {i} : mapping[k] = m[k]

LEMMA MappedChanges ==
  ASSUME NEW m \in Mappings, NEW i \in Nat, NEW j \in Nat
  PROVE  Maps(Mapped(m, i, j), m, i, j)
<1>1. PICK S \in IndexSets : m \in [S -> Nat]
  BY DEF Mappings
<1>2. {i} \in IndexSets
  BY OneIndex
<1>3. S \cup {i} \in IndexSets /\ DOMAIN m = S
  BY <1>1, <1>2, UnionIsFinite
<1>4. Mapped(m, i, j) = [k \in S \cup {i} |-> IF k = i THEN j ELSE m[k]]
  BY <1>3 DEF Mapped
<1>5. Mapped(m, i, j) \in [S \cup {i} -> Nat]
  BY <1>1, <1>4
<1> QED BY <1>3, <1>4, <1>5 DEF Mappings, Maps

(* CollectionChangeBuilder::insert: a row is added at the end of a table. *)
THEOREM AddingRecordsTable ==
  ASSUME NEW c, NEW E, NEW old \in Seq(E), NEW mid \in Seq(E), NEW M,
         RecordsTable(c, old, mid, M), NEW e \in E,
         e \notin M, \A j \in DOMAIN old : old[j] # e
  PROVE  RecordsTable(insert(c, Len(mid)), old, Append(mid, e), M)
<1> DEFINE k == Len(mid)
           b == insert(c, k)
           new == Append(mid, e)
<1>0. /\ k \in Nat /\ Indices(mid) = 0 .. k - 1 /\ Indices(new) = 0 .. k
      /\ \A i \in Indices(mid) : new[i + 1] = mid[i + 1]
      /\ new[k + 1] = e /\ k \notin Indices(mid) /\ Indices(new) = Indices(mid) \cup {k}
  BY DEF Indices
<1>1. /\ c \in ChangeSets /\ c.moves = << >>
      /\ c.insertions \subseteq Indices(mid) /\ c.modifications \subseteq Indices(mid)
      /\ Indices(old) \ Indices(mid) \subseteq c.deletions
      /\ \A i \in Indices(mid) :
           /\ i \in c.insertions <=> i \in c.deletions \/ i \notin Indices(old)
           /\ i \notin c.insertions => old[i + 1] = mid[i + 1]
           /\ i \in c.modifications <=> mid[i + 1] \in M
      /\ DOMAIN c.mapping \subseteq c.insertions
      /\ \A i \in DOMAIN c.mapping : c.mapping[i] \in c.deletions \cap Indices(old)
      /\ \A i \in c.insertions, j \in Indices(old) :
           old[j + 1] = mid[i + 1] <=> i \in DOMAIN c.mapping /\ c.mapping[i] = j
  BY DEF RecordsTable
<1>2. c.insertions \in IndexSets /\ c.modifications \in IndexSets /\ {k} \in IndexSets
  BY <1>0, <1>1, OneIndex DEF ChangeSets
<1>3. /\ shift_for_insert_at(c.modifications, {k}) = c.modifications
      /\ insert_at(c.insertions, {k}) = c.insertions \cup {k}
  BY <1>0, <1>1, <1>2, OnlyTheLast DEF insert_at
<1>4. /\ b \in ChangeSets /\ b.moves = << >>
      /\ b.insertions = c.insertions \cup {k} /\ b.modifications = c.modifications
      /\ b.deletions = c.deletions /\ b.mapping = c.mapping
  <2>1. c.insertions \cup {k} \in IndexSets
    BY <1>2, UnionIsFinite
  <2>2. b.moves = << >>
    BY <1>1 DEF insert, ChangeSets, MovedTo
  <2> QED BY <1>1, <1>3, <2>1, <2>2 DEF insert, ChangeSets
<1>5. \A j \in Indices(old) : old[j + 1] # new[k + 1]
  BY <1>0 DEF Indices
<1>6. k \in Indices(old) => k \in c.deletions
  BY <1>0, <1>1
<1> HIDE DEF b, new, k
<1>7. b.insertions \subseteq Indices(new) /\ b.modifications \subseteq Indices(new)
  BY <1>0, <1>1, <1>4
<1>8. Indices(old) \ Indices(new) \subseteq b.deletions
  BY <1>0, <1>1, <1>4
<1>9. ASSUME NEW i \in Indices(new)
      PROVE  /\ i \in b.insertions <=> i \in b.deletions \/ i \notin Indices(old)
             /\ i \notin b.insertions => old[i + 1] = new[i + 1]
             /\ i \in b.modifications <=> new[i + 1] \in M
  <2>1. CASE i = k
    <3>1. k \in b.insertions /\ (k \in b.deletions \/ k \notin Indices(old))
      BY <1>4, <1>6
    <3>2. k \notin b.modifications /\ new[k + 1] \notin M
      BY <1>0, <1>1, <1>4
    <3> QED BY <2>1, <3>1, <3>2
  <2>2. CASE i \in Indices(mid)
    BY <1>0, <1>1, <1>4, <2>2
  <2> QED BY <1>0, <2>1, <2>2
<1>10. ASSUME NEW i \in b.insertions, NEW j \in Indices(old)
       PROVE  old[j + 1] = new[i + 1] <=> i \in DOMAIN b.mapping /\ b.mapping[i] = j
  <2>1. CASE i = k
    <3>1. k \notin DOMAIN c.mapping
      BY <1>0, <1>1
    <3> QED BY <1>4, <1>5, <2>1, <3>1
  <2>2. CASE i \in c.insertions
    BY <1>0, <1>1, <1>4, <2>2
  <2> QED BY <1>4, <2>1, <2>2
<1>11. /\ DOMAIN b.mapping \subseteq b.insertions
       /\ \A i \in DOMAIN b.mapping : b.mapping[i] \in b.deletions \cap Indices(old)
  BY <1>1, <1>4
<1>12. RecordsTable(b, old, new, M)
  BY <1>4, <1>7, <1>8, <1>9, <1>10, <1>11 DEF RecordsTable
<1> QED BY <1>12 DEF b, new, k

(* CollectionChangeBuilder::modify: a row is modified. *)
THEOREM ModifyRecordsTable ==
  ASSUME NEW c, NEW E, NEW old \in Seq(E), NEW new \in Seq(E), NEW M,
         RecordsTable(c, old, new, M), Distinct(new), NEW k \in Indices(new)
  PROVE  RecordsTable(modify(c, k), old, new, M \cup {new[k + 1]})
<1> DEFINE b == modify(c, k)
<1>1. c \in ChangeSets /\ \A i \in Indices(new) : i \in c.modifications <=> new[i + 1] \in M
  BY DEF RecordsTable
<1>2. k \in Nat /\ {k} \in IndexSets
  BY OneIndex DEF Indices
<1>3. c.modifications \cup {k} \in IndexSets
  BY <1>1, <1>2, UnionIsFinite DEF ChangeSets
<1>4. /\ b \in ChangeSets /\ b.deletions = c.deletions /\ b.insertions = c.insertions
      /\ b.moves = c.moves /\ b.modifications = c.modifications \cup {k}
      /\ b.mapping = c.mapping
  BY <1>1, <1>3 DEF modify, ChangeSets
<1>5. \A i \in Indices(new) : new[i + 1] = new[k + 1] <=> i = k
  BY DistinctIndices
<1> HIDE DEF b
<1>6. \A i \in Indices(new) : i \in b.modifications <=> new[i + 1] \in M \cup {new[k + 1]}
  BY <1>1, <1>4, <1>5
<1>7. RecordsTable(b, old, new, M \cup {new[k + 1]})
  BY <1>4, <1>6 DEF RecordsTable
<1> QED BY <1>7 DEF b

(* The last entry takes the place of another, or just goes. *)
LEMMA LastTakesPlace ==
  ASSUME NEW E, NEW s \in Seq(E), NEW k \in DOMAIN s
  PROVE  LET r == Front(ReplaceAt(s, k, Last(s)))
         IN  /\ r \in Seq(E) /\ Len(r) = Len(s) - 1
             /\ \A i \in 1 .. Len(s) - 1 : r[i] = IF i = k THEN s[Len(s)] ELSE s[i]
<1> DEFINE n == Len(s)
           t == ReplaceAt(s, k, Last(s))
           r == Front(t)
<1>0. n \in Nat /\ n > 0 /\ k \in 1 .. n /\ DOMAIN s = 1 .. n /\ s[n] \in E
  OBVIOUS
<1>1. t \in Seq(E) /\ Len(t) = n /\ \A i \in 1 .. n : t[i] = IF i = k THEN s[n] ELSE s[i]
  BY DEF ReplaceAt, Last
<1> HIDE DEF t
<1>2. r \in Seq(E) /\ Len(r) = n - 1 /\ \A i \in 1 .. n - 1 : r[i] = t[i]
  BY <1>0, <1>1 DEF Front
<1> HIDE DEF r, n
<1>3. \A i \in 1 .. n - 1 : r[i] = IF i = k THEN s[n] ELSE s[i]
  BY <1>0, <1>1, <1>2
<1> QED BY <1>2, <1>3 DEF r, t, n

(* What removeLast makes of c. *)
LastGone(c, b, row) ==
  /\ b \in ChangeSets /\ b.moves = << >>
  /\ b.insertions = c.insertions \ {row}
  /\ b.deletions = IF row \in c.insertions THEN c.deletions ELSE c.deletions \cup {row}
  /\ b.modifications = c.modifications \ {row}
  /\ DOMAIN b.mapping = DOMAIN c.mapping \ {row}
  /\ \A i \in DOMAIN c.mapping \ {row} : b.mapping[i] = c.mapping[i]

LEMMA RemoveLastSets ==
  ASSUME NEW c, NEW E, NEW old \in Seq(E), NEW mid \in Seq(E), NEW M,
         RecordsTable(c, old, mid, M), NEW row \in Indices(mid), row = Len(mid) - 1
  PROVE  LastGone(c, removeLast(c, row), row)
<1>1. /\ c \in ChangeSets /\ c.moves = << >> /\ c.insertions \in IndexSets
      /\ c.deletions \in IndexSets /\ c.modifications \in IndexSets /\ c.mapping \in Mappings
      /\ c.insertions \subseteq 0 .. row /\ row \in Nat /\ {row} \in IndexSets
  BY TableParts
<1>2. erase_at(c.insertions, {row}) = c.insertions \ {row}
  BY <1>1, OnlyTheLast
<1>3. row \notin c.insertions => Source(c, row) = row
  BY SourceInTable
<1>4. /\ Unmapped(c.mapping, row) \in Mappings
      /\ DOMAIN Unmapped(c.mapping, row) = DOMAIN c.mapping \ {row}
      /\ \A i \in DOMAIN c.mapping \ {row} : Unmapped(c.mapping, row)[i] = c.mapping[i]
  BY <1>1, UnmappedChanges
<1>5. /\ c.insertions \ {row} \in IndexSets /\ c.modifications \ {row} \in IndexSets
      /\ c.deletions \cup {row} \in IndexSets
  BY <1>1, UnionIsFinite
<1> DEFINE D == IF row \in c.insertions THEN c.deletions ELSE c.deletions \cup {row}
<1>6. removeLast(c, row) = [c EXCEPT !.insertions = c.insertions \ {row},
                                     !.deletions = D,
                                     !.mapping = Unmapped(c.mapping, row),
                                     !.modifications = c.modifications \ {row}]
  BY <1>1, <1>2, <1>3 DEF removeLast, ChangeSets
<1>7. D \in IndexSets
  BY <1>1, <1>5
<1> HIDE DEF D
<1>8. /\ removeLast(c, row) \in ChangeSets
      /\ removeLast(c, row).insertions = c.insertions \ {row}
      /\ removeLast(c, row).deletions = D
      /\ removeLast(c, row).modifications = c.modifications \ {row}
      /\ removeLast(c, row).moves = << >>
      /\ removeLast(c, row).mapping = Unmapped(c.mapping, row)
  BY <1>1, <1>4, <1>5, <1>6, <1>7 DEF ChangeSets
<1> QED BY <1>4, <1>8 DEF D, LastGone

(* What move_over does when the last row takes the place of another: it is *)
(* then known as inserted and, if it is an old one, as moved from where it *)
(* was.                                                                    *)
LastMoved(c, b, row, last) ==
  LET D == IF last \in c.insertions THEN c.deletions ELSE c.deletions \cup {last}
  IN  /\ b \in ChangeSets /\ b.moves = << >>
      /\ b.insertions = (c.insertions \ {last}) \cup {row}
      /\ b.deletions = IF row \in c.insertions THEN D ELSE D \cup {row}
      /\ b.modifications = IF last \in c.modifications
                           THEN (c.modifications \ {last}) \cup {row}
                           ELSE c.modifications \ {row}
      /\ DOMAIN b.mapping = IF last \notin c.insertions \/ last \in DOMAIN c.mapping
                            THEN (DOMAIN c.mapping \ {last}) \cup {row}
                            ELSE DOMAIN c.mapping \ {row}
      /\ \A i \in DOMAIN b.mapping :
           b.mapping[i] = IF i # row THEN c.mapping[i]
                          ELSE IF last \notin c.insertions THEN last ELSE c.mapping[last]

LEMMA MoveOverSets ==
  ASSUME NEW c, NEW E, NEW old \in Seq(E), NEW mid \in Seq(E), NEW M,
         RecordsTable(c, old, mid, M), NEW row \in Indices(mid), NEW last \in Nat,
         last = Len(mid) - 1, row # last
  PROVE  LastMoved(c, move_over(c, row, last), row, last)
<1> DEFINE b == move_over(c, row, last)
           D == IF last \in c.insertions THEN c.deletions ELSE c.deletions \cup {last}
           I == c.insertions \ {last}
           m == IF last \notin c.insertions THEN Mapped(c.mapping, row, last)
                ELSE IF last \in DOMAIN c.mapping THEN Remapped(c.mapping, last, row)
                ELSE Unmapped(c.mapping, row)
           moved == [c EXCEPT !.insertions = I, !.deletions = D, !.mapping = m]
           Dn == IF row \in c.insertions THEN D ELSE D \cup {row}
           N == IF last \in c.modifications THEN (c.modifications \ {last}) \cup {row}
                                            ELSE c.modifications \ {row}
<1>0. last \in Indices(mid) /\ row \in Nat /\ row < last
  BY DEF Indices
<1>1. /\ c \in ChangeSets /\ c.moves = << >> /\ c.insertions \in IndexSets
      /\ c.deletions \in IndexSets /\ c.modifications \in IndexSets /\ c.mapping \in Mappings
      /\ row \in Nat /\ row < last /\ {row} \in IndexSets /\ {last} \in IndexSets
      /\ last \in Indices(mid) /\ DOMAIN c.mapping \subseteq c.insertions
      /\ \A j \in Indices(mid) :
           j \in c.insertions <=> j \in c.deletions \/ j \notin Indices(old)
  BY <1>0, TableParts
<1>2. last \notin c.insertions => Source(c, last) = last
  BY <1>1, SourceInTable
<1>3. I \in IndexSets /\ D \in IndexSets /\ Dn \in IndexSets /\ N \in IndexSets
      /\ I \cup {row} \in IndexSets
  <2>1. \A S \in IndexSets : /\ S \cup {row} \in IndexSets /\ S \ {row} \in IndexSets
                             /\ S \cup {last} \in IndexSets /\ S \ {last} \in IndexSets
    BY <1>1, UnionIsFinite
  <2> QED BY <1>1, <2>1
<1>4. row \notin c.insertions => Source(moved, row) = row
  <2> SUFFICES ASSUME row \notin c.insertions PROVE Source(moved, row) = row
    OBVIOUS
  <2>1. row \in Indices(old) /\ row \notin c.deletions
    BY SourceInTable
  <2>2. moved.deletions = D /\ moved.insertions = I
    BY <1>1 DEF ChangeSets
  <2>3. \A j \in Nat : j < row => j \in Indices(mid) /\ j \in Indices(old) /\ j # last
    BY <1>1, <2>1 DEF Indices
  <2>4. \A j \in Nat : j < row => (j \in D <=> j \in I)
    BY <1>1, <2>3
  <2>5. row \notin D
    BY <1>1, <2>1
  <2> HIDE DEF D, I, moved
  <2>6. shift(D, unshift(I, row)) = row
    BY <1>1, <1>3, <2>4, <2>5, SourceStays
  <2> QED BY <2>2, <2>6 DEF Source
<1>5. /\ m \in Mappings
      /\ DOMAIN m = IF last \notin c.insertions \/ last \in DOMAIN c.mapping
                    THEN (DOMAIN c.mapping \ {last}) \cup {row}
                    ELSE DOMAIN c.mapping \ {row}
      /\ \A i \in DOMAIN m :
           m[i] = IF i # row THEN c.mapping[i]
                  ELSE IF last \notin c.insertions THEN last ELSE c.mapping[last]
  <2>1. CASE last \notin c.insertions
    <3>1. /\ Mapped(c.mapping, row, last) \in Mappings
          /\ DOMAIN Mapped(c.mapping, row, last) = DOMAIN c.mapping \cup {row}
          /\ Mapped(c.mapping, row, last)[row] = last
          /\ \A k \in DOMAIN c.mapping \ {row} : Mapped(c.mapping, row, last)[k] = c.mapping[k]
      <4>1. c.mapping \in Mappings /\ row \in Nat /\ last \in Nat
        BY <1>1
      <4>2. Maps(Mapped(c.mapping, row, last), c.mapping, row, last)
        BY ONLY <4>1, MappedChanges
      <4> QED BY ONLY <4>2 DEF Maps
    <3>2. last \notin DOMAIN c.mapping
      BY <1>1, <2>1
    <3> QED BY <2>1, <3>1, <3>2
  <2>2. CASE last \in c.insertions /\ last \in DOMAIN c.mapping
    <3> DEFINE u == Unmapped(c.mapping, last)
               x == c.mapping[last]
    <3>1. /\ u \in Mappings /\ DOMAIN u = DOMAIN c.mapping \ {last}
          /\ \A k \in DOMAIN c.mapping \ {last} : u[k] = c.mapping[k]
      BY <1>1, UnmappedChanges
    <3>2. x \in Nat
      BY <1>1, <2>2 DEF Mappings
    <3> HIDE DEF u, x
    <3>3. /\ Mapped(u, row, x) \in Mappings /\ DOMAIN Mapped(u, row, x) = DOMAIN u \cup {row}
          /\ Mapped(u, row, x)[row] = x
          /\ \A k \in DOMAIN u \ {row} : Mapped(u, row, x)[k] = u[k]
      <4>1. u \in Mappings /\ row \in Nat /\ x \in Nat
        BY <1>1, <3>1, <3>2
      <4>2. Maps(Mapped(u, row, x), u, row, x)
        BY ONLY <4>1, MappedChanges
      <4> QED BY ONLY <4>2 DEF Maps
    <3>4. m = Mapped(u, row, x)
      BY <2>2 DEF Remapped, u, x
    <3>5. /\ DOMAIN m = (DOMAIN c.mapping \ {last}) \cup {row}
          /\ \A k \in DOMAIN m : m[k] = IF k = row THEN x ELSE c.mapping[k]
      BY <3>1, <3>3, <3>4
    <3> HIDE DEF m
    <3> QED BY <2>2, <3>3, <3>4, <3>5 DEF x
  <2>3. CASE last \in c.insertions /\ last \notin DOMAIN c.mapping
    <3>1. /\ Unmapped(c.mapping, row) \in Mappings
          /\ DOMAIN Unmapped(c.mapping, row) = DOMAIN c.mapping \ {row}
          /\ \A k \in DOMAIN c.mapping \ {row} : Unmapped(c.mapping, row)[k] = c.mapping[k]
      BY <1>1, UnmappedChanges
    <3>2. m = Unmapped(c.mapping, row)
      BY <2>3
    <3> HIDE DEF m
    <3> QED BY <2>3, <3>1, <3>2
  <2> QED BY <2>1, <2>2, <2>3
<1>6. b = [moved EXCEPT !.insertions = I \cup {row}, !.deletions = Dn, !.modifications = N]
  <2>1. moved = [c EXCEPT !.insertions = c.insertions \ {last},
                          !.deletions = IF last \in c.insertions THEN c.deletions
                                        ELSE c.deletions \cup {Source(c, last)},
                          !.mapping =
                             IF last \notin c.insertions THEN Mapped(c.mapping, row, Source(c, last))
                             ELSE IF last \in DOMAIN c.mapping THEN Remapped(c.mapping, last, row)
                             ELSE Unmapped(c.mapping, row)]
    BY <1>2
  <2>2. /\ moved.insertions = I /\ moved.deletions = D /\ moved.modifications = c.modifications
    BY <1>1 DEF ChangeSets
  <2>3. b = [moved EXCEPT !.insertions = moved.insertions \cup {row},
                          !.deletions = IF row \in c.insertions THEN moved.deletions
                                        ELSE moved.deletions \cup {Source(moved, row)},
                          !.modifications = IF last \in moved.modifications
                                            THEN (moved.modifications \ {last}) \cup {row}
                                            ELSE moved.modifications \ {row}]
    <3> HIDE DEF moved
    <3> QED BY <1>1, <2>1 DEF move_over
  <2> HIDE DEF moved, I, D
  <2> QED BY <1>4, <2>2, <2>3
<1>7. /\ moved \in ChangeSets /\ moved.moves = << >> /\ moved.mapping = m
  <2> HIDE DEF D, I, m
  <2> QED BY <1>1, <1>3, <1>5 DEF ChangeSets
<1>8. b \in ChangeSets
  <2> HIDE DEF b, D, Dn, I, N, m, moved
  <2> QED BY <1>3, <1>6, <1>7 DEF ChangeSets
<1>9. b.deletions = Dn /\ b.insertions = I \cup {row} /\ b.modifications = N
       /\ b.moves = << >> /\ b.mapping = m
  <2> HIDE DEF b, D, Dn, I, N, m, moved
  <2> QED BY <1>6, <1>7 DEF ChangeSets
<1> HIDE DEF b, m
<1>10. LastMoved(c, b, row, last)
  BY <1>5, <1>8, <1>9 DEF LastMoved
<1> QED BY <1>10 DEF b

(* CollectionChangeBuilder::move_over, of the last row: it goes. *)
LEMMA LastRowGoes ==
  ASSUME NEW c, NEW E, NEW old \in Seq(E), NEW mid \in Seq(E), NEW M,
         RecordsTable(c, old, mid, M), NEW row \in Indices(mid), row = Len(mid) - 1,
         NEW new \in Seq(E), Len(new) = row, \A i \in 1 .. row : new[i] = mid[i]
  PROVE  RecordsTable(removeLast(c, row), old, new, M)
<1> DEFINE b == removeLast(c, row)
<1>0. /\ row \in Nat /\ row \in Indices(mid) /\ Indices(mid) = Indices(new) \cup {row}
      /\ row \notin Indices(new)
      /\ \A i \in Indices(new) : new[i + 1] = mid[i + 1]
  BY DEF Indices
<1>1. LastGone(c, b, row)
  BY RemoveLastSets
<1>2. /\ c.insertions \subseteq Indices(mid) /\ c.modifications \subseteq Indices(mid)
      /\ Indices(old) \ Indices(mid) \subseteq c.deletions
      /\ \A i \in Indices(mid) :
           /\ i \in c.insertions <=> i \in c.deletions \/ i \notin Indices(old)
           /\ i \notin c.insertions => old[i + 1] = mid[i + 1]
           /\ i \in c.modifications <=> mid[i + 1] \in M
      /\ DOMAIN c.mapping \subseteq c.insertions
      /\ \A i \in DOMAIN c.mapping : c.mapping[i] \in c.deletions \cap Indices(old)
      /\ \A i \in c.insertions, j \in Indices(old) :
           old[j + 1] = mid[i + 1] <=> i \in DOMAIN c.mapping /\ c.mapping[i] = j
  BY DEF RecordsTable
<1> HIDE DEF b
<1>3. b.insertions \subseteq Indices(new) /\ b.modifications \subseteq Indices(new)
  BY <1>0, <1>1, <1>2 DEF LastGone
<1>4. Indices(old) \ Indices(new) \subseteq b.deletions
  BY <1>0, <1>1, <1>2 DEF LastGone
<1>5. ASSUME NEW i \in Indices(new)
      PROVE  /\ i \in b.insertions <=> i \in b.deletions \/ i \notin Indices(old)
             /\ i \notin b.insertions => old[i + 1] = new[i + 1]
             /\ i \in b.modifications <=> new[i + 1] \in M
  <2>1. i \in Indices(mid) /\ i # row
    BY <1>0
  <2> QED BY <1>0, <1>1, <1>2, <2>1 DEF LastGone
<1>6. /\ DOMAIN b.mapping \subseteq b.insertions
      /\ \A i \in DOMAIN b.mapping : b.mapping[i] \in b.deletions \cap Indices(old)
  BY <1>1, <1>2 DEF LastGone
<1>7. ASSUME NEW i \in b.insertions, NEW j \in Indices(old)
      PROVE  old[j + 1] = new[i + 1] <=> i \in DOMAIN b.mapping /\ b.mapping[i] = j
  <2>1. i \in c.insertions /\ i # row /\ i \in Indices(new) /\ new[i + 1] = mid[i + 1]
    BY <1>0, <1>1, <1>3 DEF LastGone
  <2>2. i \in DOMAIN b.mapping <=> i \in DOMAIN c.mapping
    BY <1>1, <2>1 DEF LastGone
  <2>3. i \in DOMAIN b.mapping => b.mapping[i] = c.mapping[i]
    BY <1>1 DEF LastGone
  <2> QED BY <1>2, <2>1, <2>2, <2>3
<1>8. RecordsTable(b, old, new, M)
  BY <1>1, <1>3, <1>4, <1>5, <1>6, <1>7 DEF RecordsTable, LastGone
<1> QED BY <1>8 DEF b

(* And of another: the last row takes its place. *)
LEMMA LastRowMoves ==
  ASSUME NEW c, NEW E, NEW old \in Seq(E), NEW mid \in Seq(E), NEW M,
         RecordsTable(c, old, mid, M), Distinct(old),
         NEW row \in Indices(mid), NEW last \in Nat, last = Len(mid) - 1, row # last,
         NEW new \in Seq(E), Len(new) = last,
         \A i \in 1 .. last : new[i] = IF i = row + 1 THEN mid[last + 1] ELSE mid[i]
  PROVE  RecordsTable(move_over(c, row, last), old, new, M)
<1> DEFINE b == move_over(c, row, last)
           D == IF last \in c.insertions THEN c.deletions ELSE c.deletions \cup {last}
<1>0. /\ row \in Nat /\ row < last /\ last \in Indices(mid)
      /\ Indices(mid) = Indices(new) \cup {last} /\ last \notin Indices(new)
      /\ row \in Indices(new)
      /\ new[row + 1] = mid[last + 1]
      /\ \A i \in Indices(new) : i # row => new[i + 1] = mid[i + 1]
  BY DEF Indices
<1>1. LastMoved(c, b, row, last)
  BY MoveOverSets
<1>2. /\ c.insertions \subseteq Indices(mid) /\ c.modifications \subseteq Indices(mid)
      /\ Indices(old) \ Indices(mid) \subseteq c.deletions
      /\ \A i \in Indices(mid) :
           /\ i \in c.insertions <=> i \in c.deletions \/ i \notin Indices(old)
           /\ i \notin c.insertions => old[i + 1] = mid[i + 1]
           /\ i \in c.modifications <=> mid[i + 1] \in M
      /\ DOMAIN c.mapping \subseteq c.insertions
      /\ \A i \in DOMAIN c.mapping : c.mapping[i] \in c.deletions \cap Indices(old)
      /\ \A i \in c.insertions, j \in Indices(old) :
           old[j + 1] = mid[i + 1] <=> i \in DOMAIN c.mapping /\ c.mapping[i] = j
  BY DEF RecordsTable
<1>3. \A i, j \in Indices(old) : old[i + 1] = old[j + 1] => i = j
  BY DistinctIndices
<1> HIDE DEF b
<1>4. /\ c.deletions \subseteq b.deletions /\ (row \in Indices(old) => row \in b.deletions)
      /\ (last \in Indices(old) => last \in b.deletions)
      /\ \A i : i # row /\ i # last => (i \in b.deletions <=> i \in c.deletions)
  BY <1>0, <1>1, <1>2 DEF LastMoved
<1> HIDE DEF D
<1>5. b.insertions \subseteq Indices(new) /\ b.modifications \subseteq Indices(new)
  BY <1>0, <1>1, <1>2 DEF LastMoved
<1>6. Indices(old) \ Indices(new) \subseteq b.deletions
  BY <1>0, <1>2, <1>4
<1>7. ASSUME NEW i \in Indices(new)
      PROVE  /\ i \in b.insertions <=> i \in b.deletions \/ i \notin Indices(old)
             /\ i \notin b.insertions => old[i + 1] = new[i + 1]
             /\ i \in b.modifications <=> new[i + 1] \in M
  <2>1. i \in Indices(mid) /\ i # last
    BY <1>0
  <2>2. CASE i = row
    <3>1. row \in b.modifications <=> last \in c.modifications
      BY <1>0, <1>1 DEF LastMoved
    <3> QED BY <1>0, <1>1, <1>2, <1>4, <2>2, <3>1 DEF LastMoved
  <2>3. CASE i # row
    <3>1. i \in b.modifications <=> i \in c.modifications
      BY <1>1, <2>1, <2>3 DEF LastMoved
    <3>2. i \in b.insertions <=> i \in c.insertions
      BY <1>1, <2>1, <2>3 DEF LastMoved
    <3> QED BY <1>0, <1>2, <1>4, <2>1, <2>3, <3>1, <3>2
  <2> QED BY <2>2, <2>3
<1>8. ASSUME NEW i \in DOMAIN b.mapping
      PROVE  i \in b.insertions /\ b.mapping[i] \in b.deletions \cap Indices(old)
  <2>1. CASE i # row
    <3>1. i \in DOMAIN c.mapping /\ i # last /\ b.mapping[i] = c.mapping[i]
      BY <1>1, <1>2, <2>1 DEF LastMoved
    <3> QED BY <1>1, <1>2, <1>4, <3>1 DEF LastMoved
  <2>2. CASE i = row /\ last \notin c.insertions
    <3>1. last \in Indices(old)
      BY <1>0, <1>2, <2>2
    <3> QED BY <1>1, <1>4, <2>2, <3>1 DEF LastMoved
  <2>3. CASE i = row /\ last \in c.insertions
    <3>1. last \in DOMAIN c.mapping
      BY <1>1, <2>3 DEF LastMoved
    <3>2. b.mapping[i] = c.mapping[last]
      BY <1>1, <2>3 DEF LastMoved
    <3> QED BY <1>1, <1>2, <1>4, <2>3, <3>1, <3>2 DEF LastMoved
  <2> QED BY <2>1, <2>2, <2>3
<1>9. ASSUME NEW i \in b.insertions, NEW j \in Indices(old)
      PROVE  old[j + 1] = new[i + 1] <=> i \in DOMAIN b.mapping /\ b.mapping[i] = j
  <2>1. CASE i # row
    <3>1. i \in c.insertions /\ i # last /\ i \in Indices(new) /\ new[i + 1] = mid[i + 1]
      BY <1>0, <1>1, <1>5, <2>1 DEF LastMoved
    <3>2. i \in DOMAIN b.mapping <=> i \in DOMAIN c.mapping
      BY <1>1, <2>1, <3>1 DEF LastMoved
    <3>3. i \in DOMAIN b.mapping => b.mapping[i] = c.mapping[i]
      BY <1>1, <2>1 DEF LastMoved
    <3> QED BY <1>2, <3>1, <3>2, <3>3
  <2>2. CASE i = row /\ last \notin c.insertions
    <3>1. last \in Indices(old) /\ old[last + 1] = mid[last + 1]
      BY <1>0, <1>2, <2>2
    <3>2. old[j + 1] = mid[last + 1] <=> j = last
      BY <1>3, <3>1
    <3>3. row \in DOMAIN b.mapping /\ b.mapping[row] = last
      BY <1>1, <2>2 DEF LastMoved
    <3> QED BY <1>0, <2>2, <3>2, <3>3
  <2>3. CASE i = row /\ last \in c.insertions
    <3>1. old[j + 1] = mid[last + 1] <=> last \in DOMAIN c.mapping /\ c.mapping[last] = j
      BY <1>2, <2>3
    <3>2. row \in DOMAIN b.mapping <=> last \in DOMAIN c.mapping
      BY <1>1, <2>3 DEF LastMoved
    <3>3. row \in DOMAIN b.mapping => b.mapping[row] = c.mapping[last]
      BY <1>1, <2>3 DEF LastMoved
    <3> QED BY <1>0, <2>3, <3>1, <3>2, <3>3
  <2> QED BY <2>1, <2>2, <2>3
<1>10. DOMAIN b.mapping \subseteq b.insertions
  BY <1>8
<1>11. RecordsTable(b, old, new, M)
  BY <1>1, <1>5, <1>6, <1>7, <1>8, <1>9, <1>10 DEF RecordsTable, LastMoved
<1> QED BY <1>11 DEF b

(* CollectionChangeBuilder::move_over: a row is deleted from a table by    *)
(* moving the last one over it. What is recorded stays exact.              *)
THEOREM MoveOverRecordsTable ==
  ASSUME NEW c, NEW E, NEW old \in Seq(E), NEW mid \in Seq(E), NEW M,
         RecordsTable(c, old, mid, M), Distinct(old), NEW row \in Indices(mid)
  PROVE  RecordsTable(move_over(c, row, Len(mid) - 1), old,
                      Front(ReplaceAt(mid, row + 1, Last(mid))), M)
<1> DEFINE last == Len(mid) - 1
           new == Front(ReplaceAt(mid, row + 1, Last(mid)))
<1>1. row \in Nat /\ row + 1 \in DOMAIN mid /\ last \in Nat /\ Len(mid) = last + 1
  BY DEF Indices
<1>2. /\ new \in Seq(E) /\ Len(new) = last
      /\ \A i \in 1 .. last : new[i] = IF i = row + 1 THEN mid[last + 1] ELSE mid[i]
  <2>1. new \in Seq(E) /\ Len(new) = Len(mid) - 1
        /\ \A i \in 1 .. Len(mid) - 1 : new[i] = IF i = row + 1 THEN mid[Len(mid)] ELSE mid[i]
    BY <1>1, LastTakesPlace
  <2> HIDE DEF new, last
  <2> QED BY <1>1, <2>1
<1> HIDE DEF new, last
<1>3. CASE row = last
  <2>1. \A i \in 1 .. last : new[i] = mid[i]
    BY <1>1, <1>2, <1>3
  <2>2. RecordsTable(removeLast(c, row), old, new, M)
    BY <1>1, <1>2, <1>3, <2>1, LastRowGoes
  <2> QED BY <1>3, <2>2 DEF move_over, new, last
<1>4. CASE row # last
  <2>1. RecordsTable(move_over(c, row, last), old, new, M)
    BY <1>1, <1>2, <1>4, LastRowMoves
  <2> QED BY <2>1 DEF new, last
<1> QED BY <1>3, <1>4

(* clear_table does not know how many rows there were. *)
THEOREM ClearRecordsTable ==
  ASSUME NEW E, NEW old \in Seq(E), NEW size \in Nat, Len(old) <= size, NEW M
  PROVE  RecordsTable(clear_table_of(size), old, << >>, M)
<1> DEFINE c == clear_table_of(size)
<1>1. 0 .. size - 1 \in IndexSets
  <2>1. IsFiniteSet(0 .. size - 1)
    BY FS_Interval
  <2> QED BY <2>1 DEF IndexSets
<1>2. /\ c.deletions = 0 .. size - 1 /\ c.insertions = {} /\ c.modifications = {}
      /\ c.moves = << >> /\ c.mapping = << >> /\ DOMAIN c.mapping = {}
      /\ c = [NoChanges EXCEPT !.deletions = 0 .. size - 1]
  BY DEF clear_table_of, NoChanges
<1>3. c \in ChangeSets
  <2> HIDE DEF c
  <2>1. NoChanges \in ChangeSets
    <3>1. {} \in IndexSets /\ << >> \in [{} -> Nat] /\ << >> \in Seq(Moves)
      BY FS_EmptySet DEF IndexSets
    <3> QED BY <3>1 DEF ChangeSets, NoChanges, Mappings
  <2> QED BY <1>1, <1>2, <2>1 DEF ChangeSets
<1>4. Indices(<< >>) = {} /\ Indices(old) \subseteq 0 .. size - 1
  BY DEF Indices
<1> HIDE DEF c
<1>5. RecordsTable(c, old, << >>, M)
  BY <1>2, <1>3, <1>4 DEF RecordsTable
<1> QED BY <1>5 DEF c

(* Nothing has happened. *)
THEOREM NothingRecordsTable ==
  ASSUME NEW E, NEW s \in Seq(E)
  PROVE  RecordsTable(NoChanges, s, s, {})
<1>1. NoChanges \in ChangeSets
  <2>1. {} \in IndexSets /\ << >> \in [{} -> Nat] /\ << >> \in Seq(Moves)
    BY FS_EmptySet DEF IndexSets
  <2> QED BY <2>1 DEF ChangeSets, NoChanges, Mappings
<1>2. /\ NoChanges.deletions = {} /\ NoChanges.insertions = {} /\ NoChanges.modifications = {}
      /\ NoChanges.moves = << >> /\ DOMAIN NoChanges.mapping = {}
  BY DEF NoChanges
<1> QED BY <1>1, <1>2 DEF RecordsTable

(* The entries at the indices recorded as modified. *)
LEMMA ModifiedEntries ==
  ASSUME NEW E, NEW new \in Seq(E), NEW S, NEW M,
         \A i \in Indices(new) : i \in S <=> new[i + 1] \in M
  PROVE  At(new, S) = ToSet(new) \cap M
<1>1. ASSUME NEW e \in At(new, S) PROVE e \in ToSet(new) \cap M
  <2>1. PICK i \in S \cap Indices(new) : e = new[i + 1]
    BY <1>1 DEF At
  <2>2. i + 1 \in DOMAIN new
    BY <2>1 DEF Indices
  <2> QED BY <2>1, <2>2 DEF ToSet
<1>2. ASSUME NEW e \in ToSet(new) \cap M PROVE e \in At(new, S)
  <2>1. PICK k \in DOMAIN new : e = new[k]
    BY <1>2 DEF ToSet
  <2>2. k - 1 \in Indices(new) /\ (k - 1) + 1 = k
    BY <2>1 DEF Indices
  <2>3. k - 1 \in S
    BY <1>2, <2>1, <2>2
  <2> QED BY <2>1, <2>2, <2>3 DEF At
<1> QED BY <1>1, <1>2

(* Where the same indices stay, with the same entries, they keep their     *)
(* places.                                                                 *)
LEMMA SameIndicesLead ==
  ASSUME NEW c, c.deletions \in IndexSets, c.insertions \in IndexSets,
         NEW E, NEW old \in Seq(E), NEW new \in Seq(E),
         c.insertions \subseteq Indices(new),
         NEW S, S = Indices(old) \ c.deletions, S = Indices(new) \ c.insertions,
         \A i \in S : old[i + 1] = new[i + 1]
  PROVE  Leads(c, old, new)
<1> DEFINE D == c.deletions
           I == c.insertions
<1>0. Indices(old) = 0 .. Len(old) - 1 /\ Indices(new) = 0 .. Len(new) - 1
      /\ Len(old) \in Nat /\ Len(new) \in Nat
  BY DEF Indices
<1>1. Place(D, Len(old)) = Cardinality(S) /\ Place(I, Len(new)) = Cardinality(S)
  <2>1. {k \in 0 .. Len(old) - 1 : k \notin D} = S /\ {k \in 0 .. Len(new) - 1 : k \notin I} = S
    BY <1>0
  <2> QED BY <2>1 DEF Place
<1>2. ASSUME NEW i \in S PROVE Place(D, i) = Place(I, i) /\ i \in Nat /\ i \notin D /\ i \notin I
  <2>1. {k \in 0 .. i - 1 : k \notin D} = {k \in 0 .. i - 1 : k \notin I}
    <3>1. \A k \in 0 .. i - 1 : k \in Indices(old) /\ k \in Indices(new)
      BY <1>0
    <3> QED BY <3>1
  <2>2. i \in Indices(old) /\ i \notin D /\ i \notin I
    OBVIOUS
  <2>3. i \in Nat
    BY <1>0, <2>2
  <2>4. Place(D, i) = Place(I, i)
    BY <2>1 DEF Place
  <2> QED BY <2>2, <2>3, <2>4
<1>3. ASSUME NEW i \in S, NEW j \in S, Place(D, i) = Place(I, j) PROVE i = j
  <2>1. Place(D, i) = Place(D, j) /\ i \in Nat \ D /\ j \in Nat \ D
    BY <1>2, <1>3
  <2>2. unshift(D, i) = unshift(D, j)
    BY <2>1, PlaceIsUnshift
  <2> QED BY <2>1, <2>2, UnshiftInjective
<1>4. \A i \in Indices(old) \ D, j \in Indices(new) \ I : Place(D, i) = Place(I, j) => old[i + 1] = new[j + 1]
  BY <1>3
<1> QED BY <1>1, <1>4 DEF Leads

(* CollectionChangeBuilder::parse_complete: at the end of a transaction    *)
(* the change set of a table makes the new rows of the old ones, and all   *)
(* that have changed places are moves, but for those back where they were. *)
THEOREM ParseIsExact ==
  ASSUME NEW c, NEW E, NEW old \in Seq(E), NEW new \in Seq(E), NEW M,
         RecordsTable(c, old, new, M), Distinct(old), Distinct(new)
  PROVE  LET b == parse_complete(c)
         IN  /\ b \in ChangeSets
             /\ Leads(b, old, new) /\ MovesAreMoves(b, old, new) /\ MovesAreTold(b, old, new)
             /\ At(new, b.modifications) = ToSet(new) \cap M
<1> DEFINE b == parse_complete(c)
           same == {i \in DOMAIN c.mapping : c.mapping[i] = i}
           real == DOMAIN c.mapping \ same
           moves == {Move(c.mapping[i], i) : i \in real}
<1>1. /\ c \in ChangeSets /\ c.moves = << >> /\ c.insertions \in IndexSets
      /\ c.deletions \in IndexSets /\ c.modifications \in IndexSets
      /\ DOMAIN c.mapping \subseteq c.insertions
  BY TableParts
<1>2. /\ c.insertions \subseteq Indices(new)
      /\ Indices(old) \ Indices(new) \subseteq c.deletions
      /\ \A i \in Indices(new) :
           /\ i \in c.insertions <=> i \in c.deletions \/ i \notin Indices(old)
           /\ i \notin c.insertions => old[i + 1] = new[i + 1]
           /\ i \in c.modifications <=> new[i + 1] \in M
      /\ \A i \in DOMAIN c.mapping : c.mapping[i] \in c.deletions \cap Indices(old)
      /\ \A i \in c.insertions, j \in Indices(old) :
           old[j + 1] = new[i + 1] <=> i \in DOMAIN c.mapping /\ c.mapping[i] = j
  BY DEF RecordsTable
<1>3. /\ \A i, j \in Indices(old) : old[i + 1] = old[j + 1] => i = j
      /\ \A i, j \in Indices(new) : new[i + 1] = new[j + 1] => i = j
      /\ \A i \in Indices(new) : i \in Nat
      /\ Indices(old) = 0 .. Len(old) - 1 /\ Len(old) \in Nat
  BY DistinctIndices DEF Indices
<1>4. \A i \in DOMAIN c.mapping : /\ i \in Indices(new) /\ c.mapping[i] \in Indices(old)
                                  /\ old[c.mapping[i] + 1] = new[i + 1]
  BY <1>1, <1>2
<1>5. \A i, j \in DOMAIN c.mapping : c.mapping[i] = c.mapping[j] => i = j
  BY <1>3, <1>4
<1>6. /\ moves \in SUBSET [from : 0 .. Len(old) - 1, to : Nat]
      /\ \A m, o \in moves : m.from = o.from => m = o
  <2>1. \A i \in real : c.mapping[i] \in 0 .. Len(old) - 1 /\ i \in Nat
    BY <1>3, <1>4
  <2> QED BY <1>5, <2>1 DEF Move
<1>7. c.deletions \ same \in IndexSets /\ c.insertions \ same \in IndexSets
  <2>1. same \in IndexSets
    <3>1. same \subseteq c.insertions
      BY <1>1
    <3> HIDE DEF same
    <3> QED BY <1>1, <3>1, FS_Subset DEF IndexSets
  <2> QED BY <1>1, <2>1, UnionIsFinite
<1>8. /\ ByFrom(moves) \in Seq(Moves)
      /\ \A k \in DOMAIN ByFrom(moves) : ByFrom(moves)[k] \in moves
      /\ \A m \in moves : \E k \in DOMAIN ByFrom(moves) : ByFrom(moves)[k] = m
      /\ \A k, l \in DOMAIN ByFrom(moves) :
           ByFrom(moves)[k].from = ByFrom(moves)[l].from => k = l
  <2> HIDE DEF moves
  <2> QED BY <1>3, <1>6, ByFromLists
<1>9. << >> \in Mappings
  <2>1. {} \in IndexSets /\ << >> \in [{} -> Nat]
    BY FS_EmptySet DEF IndexSets
  <2> QED BY <2>1 DEF Mappings
<1>10. /\ b \in ChangeSets
       /\ b.deletions = c.deletions \ same /\ b.insertions = c.insertions \ same
       /\ b.modifications = c.modifications /\ b.moves = ByFrom(moves)
  <2>1. b = [c EXCEPT !.deletions = c.deletions \ same, !.insertions = c.insertions \ same,
                      !.moves = ByFrom(moves), !.mapping = << >>]
    BY <1>1 DEF parse_complete, ChangeSets
  <2> HIDE DEF b, same, moves
  <2> QED BY <1>1, <1>7, <1>8, <1>9, <2>1 DEF ChangeSets
<1>11. \A i \in same : i \in Indices(new) /\ i \in Indices(old) /\ old[i + 1] = new[i + 1]
                       /\ i \in c.deletions /\ i \in c.insertions
  BY <1>1, <1>2, <1>4
<1>12. /\ \A i \in real : Move(c.mapping[i], i) \in moves
       /\ \A m \in moves : \E i \in real : m = Move(c.mapping[i], i)
  OBVIOUS
<1>13. /\ \A i \in real : /\ i \in DOMAIN c.mapping /\ c.mapping[i] # i /\ i \notin same
       /\ \A i \in c.insertions : i \in DOMAIN c.mapping => i \in real \/ (i \in same /\ c.mapping[i] = i)
       /\ \A i \in same : i \in DOMAIN c.mapping /\ c.mapping[i] = i
  OBVIOUS
<1> HIDE DEF b, same, real, moves
<1>14. Leads(b, old, new)
  <2> DEFINE S == Indices(old) \ b.deletions
  <2>1. S = Indices(new) \ b.insertions
    <3>1. ASSUME NEW i \in S PROVE i \in Indices(new) /\ i \notin b.insertions
      BY <1>2, <1>10, <1>11, <3>1
    <3>2. ASSUME NEW i \in Indices(new), i \notin b.insertions PROVE i \in S
      BY <1>2, <1>10, <1>11, <3>2
    <3> QED BY <3>1, <3>2
  <2>2. \A i \in S : old[i + 1] = new[i + 1]
    BY <1>2, <1>10, <1>11, <2>1
  <2>3. b.insertions \subseteq Indices(new) /\ b.deletions \in IndexSets /\ b.insertions \in IndexSets
    BY <1>2, <1>7, <1>10
  <2> HIDE DEF S
  <2> QED BY <2>1, <2>2, <2>3, SameIndicesLead DEF S
<1>15. ASSUME NEW k \in DOMAIN b.moves
       PROVE  /\ b.moves[k].from \in b.deletions \cap Indices(old)
              /\ b.moves[k].to \in b.insertions \cap Indices(new)
              /\ old[b.moves[k].from + 1] = new[b.moves[k].to + 1]
              /\ \A l \in DOMAIN b.moves \ {k} : b.moves[l].from # b.moves[k].from
  <2>1. PICK i \in real : b.moves[k] = Move(c.mapping[i], i)
    BY <1>8, <1>10, <1>12
  <2>2. b.moves[k].from = c.mapping[i] /\ b.moves[k].to = i
    BY <2>1 DEF Move
  <2>3. c.mapping[i] \notin same
    <3> SUFFICES ASSUME c.mapping[i] \in same PROVE FALSE
      OBVIOUS
    <3>1. c.mapping[c.mapping[i]] = c.mapping[i] /\ c.mapping[i] \in DOMAIN c.mapping
      BY <1>13
    <3> QED BY <1>5, <1>13, <3>1
  <2> QED BY <1>1, <1>2, <1>4, <1>8, <1>10, <1>13, <2>2, <2>3
<1>16. ASSUME NEW from \in b.deletions \cap Indices(old), NEW to \in b.insertions \cap Indices(new),
              old[from + 1] = new[to + 1]
       PROVE  \E k \in DOMAIN b.moves : b.moves[k] = [from |-> from, to |-> to]
  <2>1. to \in c.insertions /\ to \notin same
    BY <1>10
  <2>2. to \in DOMAIN c.mapping /\ c.mapping[to] = from
    BY <1>2, <1>16, <2>1
  <2>3. Move(c.mapping[to], to) \in moves
    BY <1>12, <1>13, <2>1, <2>2
  <2> QED BY <1>8, <1>10, <2>2, <2>3 DEF Move
<1>17. MovesAreMoves(b, old, new) /\ MovesAreTold(b, old, new)
  BY <1>15, <1>16 DEF MovesAreMoves, MovesAreTold
<1>18. At(new, b.modifications) = ToSet(new) \cap M
  BY <1>2, <1>10, ModifiedEntries
<1> QED BY <1>10, <1>14, <1>17, <1>18 DEF b
-----------------------------------------------------------------------------
(* The search of the deep change checker. *)

(* A function that takes its values at two smaller arguments, where there  *)
(* are any, is there: a recursive definition takes it with CHOOSE.         *)
Solves(g, D, none, hasLeft, hasRight, left, right, F) ==
  \A d \in D : g[d] = F[<<d, IF hasLeft[d] THEN g[left[d]] ELSE none,
                             IF hasRight[d] THEN g[right[d]] ELSE none>>]

Solvable(D, V, none, hasLeft, hasRight, left, right, F) ==
  \E g \in [D -> V] : Solves(g, D, none, hasLeft, hasRight, left, right, F)

(* Each argument has a size, and where it goes on there is less left. *)
GoesDown(D, size, has, next) ==
  \A d \in D : has[d] => next[d] \in D /\ size[next[d]] < size[d]

(* Then there is a function that solves the equations. *)
LEMMA RecursionIsThere ==
  ASSUME NEW D, NEW V, NEW none \in V, NEW size \in [D -> Nat], NEW n \in Nat,
         NEW hasLeft \in [D -> BOOLEAN], NEW hasRight \in [D -> BOOLEAN],
         NEW left, NEW right,
         GoesDown(D, size, hasLeft, left), GoesDown(D, size, hasRight, right),
         \A d \in D : size[d] < n,
         NEW F \in [D \X V \X V -> V]
  PROVE  Solvable(D, V, none, hasLeft, hasRight, left, right, F)
<1>0. /\ \A d \in D : hasLeft[d] => left[d] \in D /\ size[left[d]] < size[d]
      /\ \A d \in D : hasRight[d] => right[d] \in D /\ size[right[d]] < size[d]
  BY DEF GoesDown
<1> DEFINE Of(g, d) == F[<<d, IF hasLeft[d] THEN g[left[d]] ELSE none,
                              IF hasRight[d] THEN g[right[d]] ELSE none>>]
           There(k) == \E g \in [D -> V] : \A d \in D : size[d] < k => g[d] = Of(g, d)
           T == {k \in Nat : There(k)}
<1>1. 0 \in T
  <2>1. [d \in D |-> none] \in [D -> V]
    OBVIOUS
  <2>2. \A d \in D : ~ (size[d] < 0)
    OBVIOUS
  <2> QED BY <2>1, <2>2
<1>2. ASSUME NEW k \in Nat, k \in T PROVE k + 1 \in T
  <2>1. PICK g \in [D -> V] : \A d \in D : size[d] < k => g[d] = Of(g, d)
    BY <1>2
  <2> DEFINE h == [d \in D |-> Of(g, d)]
  <2>2. \A d \in D : Of(g, d) \in V
    <3> TAKE d \in D
    <3>1. /\ (IF hasLeft[d] THEN g[left[d]] ELSE none) \in V
          /\ (IF hasRight[d] THEN g[right[d]] ELSE none) \in V
      BY <1>0
    <3> QED BY <3>1
  <2>3. h \in [D -> V]
    <3> HIDE DEF Of
    <3> QED BY <2>2
  <2>4. \A d \in D : h[d] = Of(g, d)
    OBVIOUS
  <2> HIDE DEF h
  <2>5. ASSUME NEW d \in D, size[d] < k + 1 PROVE h[d] = Of(h, d)
    <3>1. ASSUME hasLeft[d] PROVE h[left[d]] = g[left[d]]
      <4>1. left[d] \in D /\ size[left[d]] < size[d]
        BY <1>0, <3>1
      <4>2. size[left[d]] \in Nat /\ size[d] \in Nat
        BY <4>1
      <4>3. size[left[d]] < k
        BY <2>5, <4>1, <4>2
      <4>4. g[left[d]] = Of(g, left[d])
        BY <2>1, <4>1, <4>3
      <4>5. h[left[d]] = Of(g, left[d])
        BY <2>4, <4>1
      <4> QED BY <4>4, <4>5
    <3>2. ASSUME hasRight[d] PROVE h[right[d]] = g[right[d]]
      <4>1. right[d] \in D /\ size[right[d]] < size[d]
        BY <1>0, <3>2
      <4>2. size[right[d]] \in Nat /\ size[d] \in Nat
        BY <4>1
      <4>3. size[right[d]] < k
        BY <2>5, <4>1, <4>2
      <4>4. g[right[d]] = Of(g, right[d])
        BY <2>1, <4>1, <4>3
      <4>5. h[right[d]] = Of(g, right[d])
        BY <2>4, <4>1
      <4> QED BY <4>4, <4>5
    <3>3. h[d] = Of(g, d)
      BY <2>4
    <3>4. Of(h, d) = Of(g, d)
      <4>1. (IF hasLeft[d] THEN h[left[d]] ELSE none) = (IF hasLeft[d] THEN g[left[d]] ELSE none)
        BY <3>1
      <4>2. (IF hasRight[d] THEN h[right[d]] ELSE none) = (IF hasRight[d] THEN g[right[d]] ELSE none)
        BY <3>2
      <4> QED BY <4>1, <4>2
    <3> QED BY <3>3, <3>4
  <2>6. There(k + 1)
    <3> HIDE DEF Of
    <3> QED BY <2>3, <2>5
  <2> HIDE DEF There
  <2> QED BY <2>6
<1>3. n \in T
  <2> HIDE DEF T
  <2>1. Nat \subseteq T
    BY <1>1, <1>2, Induction
  <2> QED BY <2>1
<1>4. PICK g \in [D -> V] : \A d \in D : size[d] < n => g[d] = Of(g, d)
  BY <1>3
<1>5. \A d \in D : g[d] = Of(g, d)
  BY <1>4
<1> QED BY <1>5 DEF Solves, Solvable

(* Rows with links: the links of each row, and the rows in each column.  *)
AreLinks(links) == \A r \in DOMAIN links : links[r] \in Seq(Seq(DOMAIN links))

(* A row links to another, in a column that is not to be avoided. *)
LinksTo(links, avoid, r, x) ==
  \E col \in DOMAIN links[r] : <<r, col>> \notin avoid /\ x \in ToSet(links[r][col])

(* A way of n links along links that are not to be avoided. *)
IsWay(links, avoid, p, n) ==
  /\ p \in [0 .. n -> DOMAIN links]
  /\ \A i \in 0 .. n - 1 : LinksTo(links, avoid, p[i], p[i + 1])

(* A row is reached from another along at most n such links. *)
Reaches(links, avoid, row, n, x) ==
  \E m \in 0 .. n : \E p : IsWay(links, avoid, p, m) /\ p[0] = row /\ p[m] = x

(* A row is reached from itself. *)
LEMMA ReachesItself ==
  ASSUME NEW links, NEW avoid, NEW row \in DOMAIN links, NEW n \in Nat
  PROVE  Reaches(links, avoid, row, n, row)
<1> DEFINE p == [i \in 0 .. 0 |-> row]
<1>1. IsWay(links, avoid, p, 0) /\ p[0] = row
  BY DEF IsWay
<1> QED BY <1>1 DEF Reaches

(* More is reached along more links, with fewer to avoid. *)
LEMMA ReachesMore ==
  ASSUME NEW links, NEW avoid, NEW less, less \subseteq avoid, NEW row, NEW x,
         NEW n \in Int, NEW k \in Int, n <= k, Reaches(links, avoid, row, n, x)
  PROVE  Reaches(links, less, row, k, x)
<1>0. PICK m \in 0 .. n : \E p : IsWay(links, avoid, p, m) /\ p[0] = row /\ p[m] = x
  BY DEF Reaches
<1>1. PICK p : IsWay(links, avoid, p, m) /\ p[0] = row /\ p[m] = x
  BY <1>0
<1>2. m \in 0 .. k
  OBVIOUS
<1>3. IsWay(links, less, p, m)
  BY <1>1 DEF IsWay, LinksTo
<1> QED BY <1>1, <1>2, <1>3 DEF Reaches

(* A row reached from another is reached from one that is linked to in a   *)
(* column which is not needed again.                                       *)
LEMMA ReachedFromLink ==
  ASSUME NEW links, NEW avoid, NEW row, NEW n \in Int, NEW x, x # row,
         Reaches(links, avoid, row, n, x)
  PROVE  \E col \in DOMAIN links[row] : \E dst \in ToSet(links[row][col]) :
            <<row, col>> \notin avoid
            /\ Reaches(links, avoid \cup {<<row, col>>}, dst, n - 1, x)
<1>0. PICK m \in 0 .. n : \E p : IsWay(links, avoid, p, m) /\ p[0] = row /\ p[m] = x
  BY DEF Reaches
<1>1. PICK p : IsWay(links, avoid, p, m) /\ p[0] = row /\ p[m] = x
  BY <1>0
<1>2. /\ p \in [0 .. m -> DOMAIN links]
      /\ \A i \in 0 .. m - 1 : LinksTo(links, avoid, p[i], p[i + 1])
  BY <1>1 DEF IsWay
<1>3. PICK i \in 0 .. m : p[i] = row /\ \A j \in 0 .. m : p[j] = row => j <= i
  <2> DEFINE T == {k \in Nat : m - k \in 0 .. m /\ p[m - k] = row}
  <2>1. m \in T
    BY <1>1
  <2>2. PICK k \in T : \A j \in T : k <= j
    <3> HIDE DEF T
    <3>1. T \in SUBSET Nat
      BY DEF T
    <3> QED BY <2>1, <3>1, LeastNumber
  <2>3. m - k \in 0 .. m /\ p[m - k] = row
    BY <2>2
  <2>4. ASSUME NEW j \in 0 .. m, p[j] = row PROVE j <= m - k
    <3>1. m - j \in Nat /\ m - (m - j) = j
      OBVIOUS
    <3>2. m - j \in T
      BY <2>4, <3>1
    <3>3. k <= m - j /\ k \in Nat
      BY <2>2, <3>2
    <3> QED BY <3>3
  <2> QED BY <2>3, <2>4
<1>4. i < m
  BY <1>1, <1>3
<1>5. i \in 0 .. m - 1
  BY <1>4
<1>6. PICK col \in DOMAIN links[row] :
        <<row, col>> \notin avoid /\ p[i + 1] \in ToSet(links[row][col])
  BY <1>2, <1>3, <1>5 DEF LinksTo
<1> DEFINE k == m - i - 1
           q == [j \in 0 .. k |-> p[i + 1 + j]]
           more == avoid \cup {<<row, col>>}
<1>7. k \in 0 .. n - 1
  BY <1>4
<1>8. \A j \in 0 .. k : i + 1 + j \in 0 .. m /\ p[i + 1 + j] # row
  <2> TAKE j \in 0 .. k
  <2>1. i + 1 + j \in 0 .. m /\ ~ (i + 1 + j <= i)
    OBVIOUS
  <2> QED BY <1>3, <2>1
<1>9. q \in [0 .. k -> DOMAIN links] /\ q[0] = p[i + 1] /\ q[k] = x
  <2>1. 0 \in 0 .. k /\ k \in 0 .. k /\ i + 1 + 0 = i + 1 /\ i + 1 + k = m
    BY <1>7
  <2>2. \A j \in 0 .. k : p[i + 1 + j] \in DOMAIN links
    BY <1>2, <1>8
  <2> HIDE DEF k
  <2> QED BY <1>1, <2>1, <2>2
<1>10. ASSUME NEW j \in 0 .. k - 1 PROVE LinksTo(links, more, q[j], q[j + 1])
  <2>1. /\ j \in 0 .. k /\ j + 1 \in 0 .. k /\ i + 1 + j \in 0 .. m - 1
        /\ i + 1 + (j + 1) = (i + 1 + j) + 1
    BY <1>7
  <2>2. q[j] = p[i + 1 + j] /\ q[j + 1] = p[(i + 1 + j) + 1]
    BY <2>1
  <2>3. LinksTo(links, avoid, q[j], q[j + 1]) /\ q[j] # row
    BY <1>2, <1>8, <2>1, <2>2
  <2> HIDE DEF q
  <2>4. PICK c \in DOMAIN links[q[j]] : /\ <<q[j], c>> \notin avoid
                                         /\ q[j + 1] \in ToSet(links[q[j]][c])
    BY <2>3 DEF LinksTo
  <2>5. <<q[j], c>> # <<row, col>>
    BY <2>3
  <2> QED BY <2>4, <2>5 DEF LinksTo
<1>11. IsWay(links, more, q, k)
  BY <1>9, <1>10 DEF IsWay
<1>12. Reaches(links, more, p[i + 1], n - 1, x)
  <2> HIDE DEF q, k
  <2> QED BY <1>7, <1>9, <1>11 DEF Reaches
<1> QED BY <1>6, <1>12

(* One link before a way. *)
LEMMA ReachedFurther ==
  ASSUME NEW links, NEW row \in DOMAIN links, NEW dst, LinksTo(links, {}, row, dst),
         NEW n \in Int, NEW x, Reaches(links, {}, dst, n, x)
  PROVE  Reaches(links, {}, row, n + 1, x)
<1>0. PICK m \in 0 .. n : \E p : IsWay(links, {}, p, m) /\ p[0] = dst /\ p[m] = x
  BY DEF Reaches
<1>1. PICK p : IsWay(links, {}, p, m) /\ p[0] = dst /\ p[m] = x
  BY <1>0
<1>2. /\ p \in [0 .. m -> DOMAIN links]
      /\ \A i \in 0 .. m - 1 : LinksTo(links, {}, p[i], p[i + 1])
  BY <1>1 DEF IsWay
<1> DEFINE q == [j \in 0 .. m + 1 |-> IF j = 0 THEN row ELSE p[j - 1]]
<1>3. m + 1 \in 0 .. n + 1
  OBVIOUS
<1>4. q \in [0 .. m + 1 -> DOMAIN links]
  <2>1. \A j \in 0 .. m + 1 : j # 0 => j - 1 \in 0 .. m
    OBVIOUS
  <2> QED BY <1>2, <2>1
<1>5. q[0] = row /\ q[m + 1] = x
  <2>1. 0 \in 0 .. m + 1 /\ m + 1 \in 0 .. m + 1 /\ m + 1 # 0 /\ (m + 1) - 1 = m
    OBVIOUS
  <2> QED BY <1>1, <2>1
<1>6. ASSUME NEW j \in 0 .. (m + 1) - 1 PROVE LinksTo(links, {}, q[j], q[j + 1])
  <2>1. j \in 0 .. m + 1 /\ j + 1 \in 0 .. m + 1 /\ j + 1 # 0 /\ (j + 1) - 1 = j
    OBVIOUS
  <2>2. q[j + 1] = p[j]
    BY <2>1
  <2>3. CASE j = 0
    BY <1>1, <2>1, <2>2, <2>3
  <2>4. CASE j # 0
    <3>1. q[j] = p[j - 1] /\ j - 1 \in 0 .. m - 1 /\ (j - 1) + 1 = j
      BY <2>1, <2>4
    <3> QED BY <1>2, <2>2, <3>1
  <2> QED BY <2>3, <2>4
<1>7. IsWay(links, {}, q, m + 1)
  BY <1>4, <1>6 DEF IsWay
<1> HIDE DEF q
<1> QED BY <1>3, <1>5, <1>7 DEF Reaches

(* One link after a way; the way without its last link. *)
LEMMA ReachedNext ==
  ASSUME NEW links, AreLinks(links), NEW row \in DOMAIN links, NEW n \in Nat, NEW x
  PROVE  Reaches(links, {}, row, n + 1, x)
           <=> \/ Reaches(links, {}, row, n, x)
               \/ \E y \in DOMAIN links : Reaches(links, {}, row, n, y) /\ LinksTo(links, {}, y, x)
<1>1. ASSUME Reaches(links, {}, row, n, x) PROVE Reaches(links, {}, row, n + 1, x)
  <2>1. n \in Int /\ n + 1 \in Int /\ n <= n + 1 /\ {} \subseteq {}
    OBVIOUS
  <2> QED BY <1>1, <2>1, ReachesMore
<1>2. ASSUME NEW y \in DOMAIN links, Reaches(links, {}, row, n, y), LinksTo(links, {}, y, x)
      PROVE  Reaches(links, {}, row, n + 1, x)
  <2>0. PICK m \in 0 .. n : \E p : IsWay(links, {}, p, m) /\ p[0] = row /\ p[m] = y
    BY <1>2 DEF Reaches
  <2>1. PICK p : IsWay(links, {}, p, m) /\ p[0] = row /\ p[m] = y
    BY <2>0
  <2>2. /\ p \in [0 .. m -> DOMAIN links]
        /\ \A i \in 0 .. m - 1 : LinksTo(links, {}, p[i], p[i + 1])
    BY <2>1 DEF IsWay
  <2>3. x \in DOMAIN links
    <3>1. PICK col \in DOMAIN links[y] : x \in ToSet(links[y][col])
      BY <1>2 DEF LinksTo
    <3>2. links[y][col] \in Seq(DOMAIN links)
      <4> DEFINE R == DOMAIN links
                 c == links[y]
      <4>1. c \in Seq(Seq(R)) /\ col \in DOMAIN c
        BY <3>1 DEF AreLinks
      <4> HIDE DEF R, c
      <4>2. c[col] \in Seq(R)
        BY <4>1, ElementOfSeq
      <4> QED BY <4>2 DEF R, c
    <3> QED BY <3>1, <3>2, ElementOfSeq DEF ToSet
  <2> DEFINE q == [j \in 0 .. m + 1 |-> IF j = m + 1 THEN x ELSE p[j]]
  <2>4. q \in [0 .. m + 1 -> DOMAIN links] /\ q[0] = row /\ q[m + 1] = x
    <3>1. \A j \in 0 .. m + 1 : j # m + 1 => j \in 0 .. m
      OBVIOUS
    <3>2. 0 \in 0 .. m + 1 /\ m + 1 \in 0 .. m + 1 /\ 0 # m + 1
      OBVIOUS
    <3> QED BY <2>1, <2>2, <2>3, <3>1, <3>2
  <2>5. ASSUME NEW j \in 0 .. (m + 1) - 1 PROVE LinksTo(links, {}, q[j], q[j + 1])
    <3>1. j \in 0 .. m + 1 /\ j + 1 \in 0 .. m + 1 /\ j # m + 1
      OBVIOUS
    <3>2. q[j] = p[j]
      BY <3>1
    <3>3. CASE j = m
      <4>1. q[j + 1] = x
        BY <3>3
      <4> QED BY <1>2, <2>1, <3>2, <3>3, <4>1
    <3>4. CASE j # m
      <4>1. j \in 0 .. m - 1 /\ j + 1 # m + 1
        BY <3>4
      <4>2. q[j + 1] = p[j + 1]
        BY <3>1, <4>1
      <4> QED BY <2>2, <3>2, <4>1, <4>2
    <3> QED BY <3>3, <3>4
  <2>6. IsWay(links, {}, q, m + 1) /\ m + 1 \in 0 .. n + 1
    BY <2>4, <2>5 DEF IsWay
  <2> HIDE DEF q
  <2> QED BY <2>4, <2>6 DEF Reaches
<1>3. ASSUME Reaches(links, {}, row, n + 1, x), ~ Reaches(links, {}, row, n, x)
      PROVE  \E y \in DOMAIN links : Reaches(links, {}, row, n, y) /\ LinksTo(links, {}, y, x)
  <2>0. PICK m \in 0 .. n + 1 : \E p : IsWay(links, {}, p, m) /\ p[0] = row /\ p[m] = x
    BY <1>3 DEF Reaches
  <2>1. PICK p : IsWay(links, {}, p, m) /\ p[0] = row /\ p[m] = x
    BY <2>0
  <2>2. /\ p \in [0 .. m -> DOMAIN links]
        /\ \A i \in 0 .. m - 1 : LinksTo(links, {}, p[i], p[i + 1])
    BY <2>1 DEF IsWay
  <2>3. m = n + 1
    <3>1. ~ (m \in 0 .. n)
      BY <1>3, <2>1 DEF Reaches
    <3> QED BY <3>1
  <2> DEFINE q == [j \in 0 .. n |-> p[j]]
  <2>4. IsWay(links, {}, q, n) /\ q[0] = row /\ q[n] = p[n]
    <3>1. \A j \in 0 .. n : j \in 0 .. m
      BY <2>3
    <3>2. \A j \in 0 .. n - 1 : j \in 0 .. m - 1 /\ j \in 0 .. n /\ j + 1 \in 0 .. n
      BY <2>3
    <3>3. q \in [0 .. n -> DOMAIN links]
      BY <2>2, <3>1
    <3>4. \A j \in 0 .. n - 1 : LinksTo(links, {}, q[j], q[j + 1])
      BY <2>2, <3>2
    <3>5. 0 \in 0 .. n /\ n \in 0 .. n
      OBVIOUS
    <3>6. IsWay(links, {}, q, n)
      BY <3>3, <3>4 DEF IsWay
    <3>7. q[0] = row /\ q[n] = p[n]
      BY <2>1, <3>5
    <3> QED BY <3>6, <3>7
  <2> HIDE DEF q
  <2>5. Reaches(links, {}, row, n, p[n])
    BY <2>4 DEF Reaches
  <2>6. n \in 0 .. m /\ n \in 0 .. m - 1
    BY <2>3
  <2> QED BY <2>1, <2>2, <2>3, <2>5, <2>6
<1> QED BY <1>1, <1>2, <1>3

(* What the search is to find: a row that has changed, beyond so many      *)
(* links.                                                                  *)
ChangedBeyond(links, changes, row) ==
  \E x \in changes : Reaches(links, {}, row, MaxDepth - 1, x)

(* What some rows link to are rows. *)
LEMMA RowsBeyond ==
  ASSUME NEW links, AreLinks(links), NEW rows \in SUBSET DOMAIN links
  PROVE  /\ Beyond(links, rows) \subseteq DOMAIN links
         /\ \A x : x \in Beyond(links, rows) <=> \E y \in rows : LinksTo(links, {}, y, x)
<1>1. \A x : x \in Beyond(links, rows) <=> \E y \in rows : LinksTo(links, {}, y, x)
  BY DEF Beyond, LinksTo
<1>2. ASSUME NEW y \in rows, NEW x, LinksTo(links, {}, y, x) PROVE x \in DOMAIN links
  <2> DEFINE R == DOMAIN links
             c == links[y]
  <2>1. PICK col \in DOMAIN c : x \in ToSet(c[col])
    BY <1>2 DEF LinksTo
  <2>2. c \in Seq(Seq(R))
    BY DEF AreLinks
  <2> HIDE DEF R, c
  <2>3. c[col] \in Seq(R)
    BY <2>1, <2>2, ElementOfSeq
  <2>4. x \in R
    BY <2>1, <2>3, ElementOfSeq DEF ToSet
  <2> QED BY <2>4 DEF R
<1> QED BY <1>1, <1>2

(* The rows reached step by step are those of the ways: what HasChanged    *)
(* finds is what is beyond.                                                *)
LEMMA HasChangedIs ==
  ASSUME NEW links, AreLinks(links), NEW changes, NEW row \in DOMAIN links
  PROVE  HasChanged(links, changes, row) <=> ChangedBeyond(links, changes, row)
<1> DEFINE R == DOMAIN links
           N == 0 .. MaxDepth - 1
           Found(g) == g = [k \in N |-> IF k = 0 THEN {row}
                                        ELSE g[k - 1] \cup Beyond(links, g[k - 1])]
           h == [k \in N |-> {x \in R : Reaches(links, {}, row, k, x)}]
           reached == CHOOSE g : Found(g)
<1>0. MaxDepth \in Nat \ {0}
  BY MaxDepthAssumption
<1>1. ASSUME NEW k \in Nat, NEW x, Reaches(links, {}, row, k, x) PROVE x \in R
  <2>1. PICK m \in 0 .. k : \E p : IsWay(links, {}, p, m) /\ p[0] = row /\ p[m] = x
    BY <1>1 DEF Reaches
  <2>2. PICK p : IsWay(links, {}, p, m) /\ p[0] = row /\ p[m] = x
    BY <2>1
  <2> QED BY <2>2 DEF IsWay
<1>2. \A x : Reaches(links, {}, row, 0, x) <=> x = row
  <2>1. ASSUME NEW x, Reaches(links, {}, row, 0, x) PROVE x = row
    <3>1. PICK m \in 0 .. 0 : \E p : IsWay(links, {}, p, m) /\ p[0] = row /\ p[m] = x
      BY <2>1 DEF Reaches
    <3> QED BY <3>1
  <2>2. Reaches(links, {}, row, 0, row)
    BY ReachesItself
  <2> QED BY <2>1, <2>2
<1>3. Found(h)
  <2>1. ASSUME NEW k \in N
        PROVE  h[k] = IF k = 0 THEN {row} ELSE h[k - 1] \cup Beyond(links, h[k - 1])
    <3>1. CASE k = 0
      BY <1>2, <3>1
    <3>2. CASE k # 0
      <4>1. k - 1 \in N /\ k - 1 \in Nat /\ k \in Nat /\ (k - 1) + 1 = k
        BY <1>0, <3>2
      <4> DEFINE j == k - 1
                 before == {x \in R : Reaches(links, {}, row, j, x)}
      <4>2. h[k] = {x \in R : Reaches(links, {}, row, k, x)} /\ h[k - 1] = before
        BY <4>1
      <4>3. \A x : Reaches(links, {}, row, k, x)
                     <=> \/ Reaches(links, {}, row, j, x)
                         \/ \E y \in R : Reaches(links, {}, row, j, y) /\ LinksTo(links, {}, y, x)
        BY <4>1, ReachedNext
      <4> HIDE DEF j, h
      <4>4. /\ Beyond(links, before) \subseteq R
            /\ \A x : x \in Beyond(links, before) <=> \E y \in before : LinksTo(links, {}, y, x)
        <5>1. before \in SUBSET R
          OBVIOUS
        <5> HIDE DEF before
        <5> QED BY <5>1, RowsBeyond
      <4>5. {x \in R : Reaches(links, {}, row, k, x)} = before \cup Beyond(links, before)
        <5> HIDE DEF R
        <5> QED BY <4>3, <4>4
      <4> QED BY <3>2, <4>2, <4>5
    <3> QED BY <3>1, <3>2
  <2>2. h = [k \in N |-> h[k]]
    OBVIOUS
  <2> HIDE DEF h, N
  <2> QED BY <2>1, <2>2
<1>4. Found(reached)
  <2> HIDE DEF Found, h
  <2> QED BY <1>3
<1>5. \A k \in N : reached[k] = h[k]
  <2> DEFINE T == {k \in Nat : k \in N => reached[k] = h[k]}
  <2> HIDE DEF reached, h
  <2>1. 0 \in T
    <3>1. 0 \in N
      BY <1>0
    <3> QED BY <1>3, <1>4, <3>1
  <2>2. ASSUME NEW k \in Nat, k \in T PROVE k + 1 \in T
    <3>1. k + 1 \in N => k \in N /\ k + 1 # 0 /\ (k + 1) - 1 = k
      BY <1>0
    <3>2. ASSUME k + 1 \in N PROVE reached[k + 1] = h[k + 1]
      <4>1. reached[k + 1] = reached[k] \cup Beyond(links, reached[k])
        BY <1>4, <3>1, <3>2
      <4>2. h[k + 1] = h[k] \cup Beyond(links, h[k])
        BY <1>3, <3>1, <3>2
      <4> QED BY <2>2, <3>1, <3>2, <4>1, <4>2
    <3> QED BY <3>2
  <2>3. Nat \subseteq T
    <3> HIDE DEF T
    <3> QED BY <2>1, <2>2, Induction
  <2>4. N \subseteq Nat
    BY <1>0
  <2> QED BY <2>3, <2>4
<1>6. MaxDepth - 1 \in N /\ MaxDepth - 1 \in Nat
  BY <1>0
<1>7. HasChanged(links, changes, row) <=> changes # {} /\ reached[MaxDepth - 1] \cap changes # {}
  BY DEF HasChanged
<1> HIDE DEF reached
<1>8. reached[MaxDepth - 1] = {x \in R : Reaches(links, {}, row, MaxDepth - 1, x)}
  BY <1>5, <1>6
<1> HIDE DEF N, h
<1> QED BY <1>1, <1>6, <1>7, <1>8 DEF ChangedBeyond

(* What is remembered has not changed. *)
Remembers(links, changes, s) == \A r \in s.not_modified : ~ ChangedBeyond(links, changes, r)

(* A checker that is asked, and has found nothing yet. *)
Searching(links, changes, s) ==
  s \in Checkers(DOMAIN links) /\ ~ s.found /\ Remembers(links, changes, s)

(* The path down to a depth, on which the search may have been cut short.  *)
KeepsPath(s, t, depth) ==
  \A d \in 0 .. depth - 1 :
    /\ t.path[d].row = s.path[d].row /\ t.path[d].col = s.path[d].col
    /\ s.path[d].depth_exceeded => t.path[d].depth_exceeded

(* The columns followed on the path, from one depth to another. *)
FollowedFrom(t, j, depth) == {<<t.path[d].row, t.path[d].col>> : d \in j .. depth - 1}

(* How far the search has looked from a row at some depth: by the row at j *)
(* above it, unless it has been cut short there, as far as it has to.      *)
Deep(j, depth) == IF j = 0 THEN MaxDepth - 1 - depth ELSE MaxDepth - 1

(* From a row nothing that has changed is reached but through what is      *)
(* followed from depth j on, unless the search was cut short there.        *)
NothingBeyond(links, changes, t, depth, j, row) ==
  j = 0 \/ ~ t.path[j - 1].depth_exceeded =>
    \A x \in changes : ~ Reaches(links, FollowedFrom(t, j, depth), row, Deep(j, depth), x)

(* That is so from every depth of the path on. *)
NothingFound(links, changes, t, depth, row) ==
  \A j \in 0 .. depth : NothingBeyond(links, changes, t, depth, j, row)

(* A row that has changed is reached with the steps that are left. *)
SomethingFound(links, changes, depth, row) ==
  \E x \in changes : Reaches(links, {}, row, MaxDepth - 1 - depth, x)

(* What a checker has come to with a row. *)
Searched(links, changes, s, t, depth, row) ==
  /\ t \in Checkers(DOMAIN links)
  /\ Remembers(links, changes, t)
  /\ KeepsPath(s, t, depth)
  /\ t.found => SomethingFound(links, changes, depth, row)
  /\ ~ t.found => NothingFound(links, changes, t, depth, row)

(* What is found from a row by a checker, one step further. *)
Searches(links) == [(DOMAIN links) \X Checkers(DOMAIN links) -> Checkers(DOMAIN links)]

(* It comes to what it has to with every row and checker. *)
Works(links, changes, deeper, depth) ==
  /\ deeper \in Searches(links)
  /\ \A row \in DOMAIN links, s \in Checkers(DOMAIN links) :
       /\ depth = 0 => row \notin changes
       /\ Searching(links, changes, s)
       => Searched(links, changes, s, deeper[row, s], depth, row)

(* The parts of a checker. *)
LEMMA CheckerParts ==
  ASSUME NEW R, NEW s \in Checkers(R)
  PROVE  /\ s.found \in BOOLEAN /\ s.not_modified \in SUBSET R
         /\ s.path \in [Path -> [row : R \cup {0}, col : Nat, depth_exceeded : BOOLEAN]]
         /\ \A d \in Path : s.path[d].depth_exceeded \in BOOLEAN
BY DEF Checkers

(* The search has been cut short. *)
LEMMA ExceededIs ==
  ASSUME NEW R, NEW s \in Checkers(R), NEW first, NEW end, NEW t, t = Exceeded(s, first, end)
  PROVE  /\ t \in Checkers(R) /\ t.found = s.found /\ t.not_modified = s.not_modified
         /\ \A d \in Path : /\ t.path[d].row = s.path[d].row /\ t.path[d].col = s.path[d].col
                            /\ t.path[d].depth_exceeded
                                 <=> s.path[d].depth_exceeded \/ (first <= d /\ d < end)
<1> DEFINE p == [d \in Path |-> IF first <= d /\ d < end
                               THEN [s.path[d] EXCEPT !.depth_exceeded = TRUE] ELSE s.path[d]]
           Steps == [row : R \cup {0}, col : Nat, depth_exceeded : BOOLEAN]
<1>1. t = [s EXCEPT !.path = p]
  BY DEF Exceeded
<1>2. s.path \in [Path -> Steps]
  BY CheckerParts
<1>3. ASSUME NEW d \in Path
      PROVE  /\ p[d] \in Steps /\ p[d].row = s.path[d].row /\ p[d].col = s.path[d].col
             /\ p[d].depth_exceeded <=> s.path[d].depth_exceeded \/ (first <= d /\ d < end)
  <2>1. p[d] = IF first <= d /\ d < end
               THEN [s.path[d] EXCEPT !.depth_exceeded = TRUE] ELSE s.path[d]
    OBVIOUS
  <2>2. s.path[d] \in Steps
    BY <1>2
  <2> HIDE DEF p
  <2>3. CASE first <= d /\ d < end
    <3>1. p[d] = [s.path[d] EXCEPT !.depth_exceeded = TRUE]
      BY <2>1, <2>3
    <3> QED BY <2>2, <2>3, <3>1
  <2>4. CASE ~ (first <= d /\ d < end)
    <3>1. p[d] = s.path[d]
      BY <2>1, <2>4
    <3> QED BY <2>2, <2>4, <3>1
  <2> QED BY <2>3, <2>4
<1>4. p \in [Path -> Steps]
  <2>1. p = [d \in Path |-> p[d]]
    OBVIOUS
  <2> HIDE DEF p, Steps
  <2> QED BY <1>3, <2>1
<1> HIDE DEF p
<1>5. t \in Checkers(R) /\ t.found = s.found /\ t.not_modified = s.not_modified /\ t.path = p
  BY <1>1, <1>4 DEF Checkers
<1> QED BY <1>3, <1>5

(* A path that is kept is the same path above. *)
LEMMA PathKept ==
  ASSUME NEW s, NEW t, NEW k \in Nat, KeepsPath(s, t, k)
  PROVE  /\ \A depth \in 0 .. k : \A j \in 0 .. depth : FollowedFrom(t, j, depth) = FollowedFrom(s, j, depth)
         /\ \A u : KeepsPath(t, u, k) => KeepsPath(s, u, k)
         /\ \A depth \in 0 .. k : KeepsPath(s, t, depth)
<1>0. \A d \in 0 .. k - 1 :
        /\ t.path[d].row = s.path[d].row /\ t.path[d].col = s.path[d].col
        /\ s.path[d].depth_exceeded => t.path[d].depth_exceeded
  BY DEF KeepsPath
<1>1. ASSUME NEW depth \in 0 .. k, NEW j \in 0 .. depth
      PROVE  FollowedFrom(t, j, depth) = FollowedFrom(s, j, depth)
  <2>1. \A d \in j .. depth - 1 : d \in 0 .. k - 1
    OBVIOUS
  <2>2. \A d \in j .. depth - 1 : <<t.path[d].row, t.path[d].col>> = <<s.path[d].row, s.path[d].col>>
    BY <1>0, <2>1
  <2> QED BY <2>2 DEF FollowedFrom
<1>2. \A u : KeepsPath(t, u, k) => KeepsPath(s, u, k)
  BY <1>0 DEF KeepsPath
<1>3. ASSUME NEW depth \in 0 .. k PROVE KeepsPath(s, t, depth)
  <2>1. \A d \in 0 .. depth - 1 : d \in 0 .. k - 1
    OBVIOUS
  <2> QED BY <1>0, <2>1 DEF KeepsPath
<1> QED BY <1>1, <1>2, <1>3

(* A path keeps itself. *)
LEMMA SamePath ==
  ASSUME NEW s, NEW t, NEW k, \A d \in 0 .. k - 1 : t.path[d] = s.path[d]
  PROVE  KeepsPath(s, t, k)
BY DEF KeepsPath

(* What has been looked through stays so. *)
LEMMA StillNothing ==
  ASSUME NEW links, NEW changes, NEW s, NEW t, NEW k \in Nat, KeepsPath(s, t, k),
         NEW depth \in 0 .. k, NEW j \in 0 .. depth, NEW row,
         NothingBeyond(links, changes, s, depth, j, row)
  PROVE  NothingBeyond(links, changes, t, depth, j, row)
<1>1. FollowedFrom(t, j, depth) = FollowedFrom(s, j, depth)
  BY PathKept
<1>2. ASSUME j # 0, ~ t.path[j - 1].depth_exceeded PROVE ~ s.path[j - 1].depth_exceeded
  <2>1. j - 1 \in 0 .. k - 1
    BY <1>2
  <2> QED BY <1>2, <2>1 DEF KeepsPath
<1> QED BY <1>1, <1>2 DEF NothingBeyond

-----------------------------------------------------------------------------
(* The rows that a column links to, one after another. *)
Looked(links, changes, s, t, depth, row, col, n) ==
  /\ t \in Checkers(DOMAIN links)
  /\ Remembers(links, changes, t)
  /\ KeepsPath(s, t, depth)
  /\ t.path[depth].row = row /\ t.path[depth].col = col
  /\ t.found => SomethingFound(links, changes, depth, row)
  /\ ~ t.found => \A i \in 1 .. n, j \in 0 .. depth :
                    NothingBeyond(links, changes, t, depth + 1, j, links[row][col][i])

(* One row more of a column is looked through. *)
LEMMA LookFurther ==
  ASSUME NEW links, AreLinks(links), NEW changes, NEW depth \in 0 .. MaxDepth - 1,
         NEW deeper, Works(links, changes, deeper, depth + 1),
         NEW s \in Checkers(DOMAIN links), NEW row \in DOMAIN links, NEW col \in DOMAIN links[row],
         NEW n \in Nat, n + 1 \in DOMAIN links[row][col],
         NEW t, Looked(links, changes, s, t, depth, row, col, n),
         NEW u, u = IF t.found THEN t ELSE deeper[links[row][col][n + 1], t]
  PROVE  Looked(links, changes, s, u, depth, row, col, n + 1)
<1> DEFINE dst == links[row][col][n + 1]
<1>0. MaxDepth \in Nat /\ depth \in Nat /\ depth + 1 \in Nat /\ depth + 1 # 0
  BY ONLY MaxDepthAssumption, depth \in 0 .. MaxDepth - 1
<1>1. dst \in DOMAIN links /\ LinksTo(links, {}, row, dst)
  <2> DEFINE R == DOMAIN links
             c == links[row]
  <2>1. c \in Seq(Seq(R))
    BY DEF AreLinks
  <2>2. c[col] \in Seq(R)
    <3> HIDE DEF R
    <3> DEFINE S == Seq(R)
    <3>1. col \in DOMAIN c /\ c \in Seq(S)
      BY <2>1
    <3> HIDE DEF c, S
    <3>2. c[col] \in S
      BY ONLY <3>1, ElementOfSeq
    <3> QED BY <3>2 DEF S
  <2>3. c[col][n + 1] \in R /\ c[col][n + 1] \in ToSet(c[col])
    <3> DEFINE k == n + 1
    <3>1. k \in DOMAIN c[col]
      OBVIOUS
    <3> HIDE DEF R, c, k
    <3>2. c[col][k] \in R /\ c[col][k] \in ToSet(c[col])
      BY ONLY <2>2, <3>1, ElementOfSeq DEF ToSet
    <3> QED BY <3>2 DEF k
  <2> QED BY <2>3 DEF LinksTo
<1>2. /\ t \in Checkers(DOMAIN links) /\ Remembers(links, changes, t) /\ KeepsPath(s, t, depth)
      /\ t.path[depth].row = row /\ t.path[depth].col = col
      /\ t.found => SomethingFound(links, changes, depth, row)
      /\ ~ t.found => \A i \in 1 .. n, j \in 0 .. depth :
                        NothingBeyond(links, changes, t, depth + 1, j, links[row][col][i])
  BY DEF Looked
<1>3. CASE t.found
  BY <1>2, <1>3 DEF Looked
<1>4. CASE ~ t.found
  <2>1. u = deeper[dst, t]
    BY <1>4
  <2>2. Searching(links, changes, t)
    BY <1>2, <1>4 DEF Searching
  <2> HIDE DEF dst
  <2>3. Searched(links, changes, t, u, depth + 1, dst)
    BY <1>0, <1>1, <1>2, <2>1, <2>2 DEF Works
  <2>4. /\ u \in Checkers(DOMAIN links) /\ Remembers(links, changes, u)
        /\ KeepsPath(t, u, depth + 1)
        /\ u.found => SomethingFound(links, changes, depth + 1, dst)
        /\ ~ u.found => NothingFound(links, changes, u, depth + 1, dst)
    BY <2>3 DEF Searched
  <2>5. KeepsPath(s, u, depth)
    <3>1. depth \in 0 .. depth + 1
      BY ONLY <1>0
    <3>2. KeepsPath(t, u, depth)
      BY <1>0, <2>4, <3>1, PathKept
    <3> QED BY <1>0, <1>2, <3>2, PathKept
  <2>6. u.path[depth].row = row /\ u.path[depth].col = col
    <3>1. depth \in 0 .. (depth + 1) - 1
      BY ONLY <1>0
    <3> QED BY <1>2, <2>4, <3>1 DEF KeepsPath
  <2>7. ASSUME u.found PROVE SomethingFound(links, changes, depth, row)
    <3>1. PICK x \in changes : Reaches(links, {}, dst, MaxDepth - 1 - (depth + 1), x)
      BY <2>4, <2>7 DEF SomethingFound
    <3>2. MaxDepth - 1 - (depth + 1) \in Int /\ (MaxDepth - 1 - (depth + 1)) + 1 = MaxDepth - 1 - depth
      BY ONLY <1>0
    <3>3. Reaches(links, {}, row, (MaxDepth - 1 - (depth + 1)) + 1, x)
      BY <1>1, <3>1, <3>2, ReachedFurther
    <3> QED BY <3>2, <3>3 DEF SomethingFound
  <2>8. ASSUME ~ u.found, NEW i \in 1 .. n + 1, NEW j \in 0 .. depth
        PROVE  NothingBeyond(links, changes, u, depth + 1, j, links[row][col][i])
    <3>1. j \in 0 .. depth + 1 /\ depth + 1 \in 0 .. depth + 1
      BY ONLY <1>0, j \in 0 .. depth
    <3>2. CASE i = n + 1
      BY <2>4, <2>8, <3>1, <3>2 DEF NothingFound, dst
    <3>3. CASE i # n + 1
      <4>1. i \in 1 .. n
        BY ONLY <3>3, i \in 1 .. n + 1, n \in Nat
      <4>2. NothingBeyond(links, changes, t, depth + 1, j, links[row][col][i])
        BY <1>2, <1>4, <4>1
      <4> QED BY <1>0, <2>4, <3>1, <4>2, StillNothing
    <3> QED BY <3>2, <3>3
  <2> QED BY <2>4, <2>5, <2>6, <2>7, <2>8 DEF Looked
<1> QED BY <1>3, <1>4

(* One row of a column, unless something has been found. *)
Object(deeper, t, dst) == IF t.found THEN t ELSE deeper[dst, t]

(* The rows, one by one. *)
LinkByLink(h, deeper, base, dsts) ==
  /\ h[0] = base
  /\ \A k \in 1 .. Len(dsts) : h[k] = Object(deeper, h[k - 1], dsts[k])
  /\ LET One(t, dst) == IF t.found THEN t ELSE deeper[dst, t]
     IN  FoldLeft(One, base, dsts) = h[Len(dsts)]

(* The rows of a column are looked through in order. *)
LEMMA LinksOneByOne ==
  ASSUME NEW links, NEW deeper \in Searches(links), NEW base \in Checkers(DOMAIN links),
         NEW dsts \in Seq(DOMAIN links)
  PROVE  \E h : LinkByLink(h, deeper, base, dsts)
<1> DEFINE z == Len(dsts)
           A == Checkers(DOMAIN links)
           One(t, dst) == IF t.found THEN t ELSE deeper[dst, t]
           Folds(g) == g = [s \in SUBSET DOMAIN dsts |->
                             IF s = {} THEN base ELSE One(g[s \ {Max(s)}], dsts[Max(s)])]
           F == [p \in A \X (1 .. z) |-> One(p[1], dsts[p[2]])]
<1>0. z \in Nat /\ DOMAIN dsts = 1 .. z
  OBVIOUS
<1>2. F \in [A \X (1 .. z) -> A]
  <2>1. ASSUME NEW d \in A, NEW k \in 1 .. z PROVE One(d, dsts[k]) \in A
    <3>1. dsts[k] \in DOMAIN links
      BY <1>0, ElementOfSeq
    <3> QED BY <3>1 DEF Searches
  <2> HIDE DEF One, z, A
  <2> QED BY <2>1
<1>3. \E g : Folds(g)
  <2> HIDE DEF One, z, A
  <2>1. PICK g \in [SUBSET (1 .. z) -> A] : Folded(g, z, base, F)
    <3> HIDE DEF F
    <3>1. base \in A
      BY DEF A
    <3> QED BY <1>0, <1>2, <3>1, FoldIsThere
  <2>2. ASSUME NEW s \in SUBSET (1 .. z), s # {}
        PROVE  F[<<g[s \ {Max(s)}], Max(s)>>] = One(g[s \ {Max(s)}], dsts[Max(s)])
    <3>1. Max(s) \in 1 .. z
      BY <1>0, <2>2, LastOfInitial
    <3>2. g[s \ {Max(s)}] \in A
      BY <2>1
    <3> QED BY <3>1, <3>2
  <2>3. g = [s \in SUBSET (1 .. z) |->
               IF s = {} THEN base ELSE One(g[s \ {Max(s)}], dsts[Max(s)])]
    <3> HIDE DEF F
    <3> QED BY <2>1, <2>2 DEF Folded
  <2> QED BY <1>0, <2>3
<1> DEFINE f == CHOOSE g : Folds(g)
           h == [k \in 0 .. z |-> f[1 .. k]]
<1>4. FoldLeft(One, base, dsts) = f[DOMAIN dsts]
  BY DEF FoldLeft, MapThenFoldSet
<1>5. Folds(f)
  <2> HIDE DEF Folds
  <2> QED BY <1>3
<1> HIDE DEF f, z
<1>6. f[{}] = base
  BY <1>5
<1>7. \A k \in 1 .. z : f[1 .. k] = Object(deeper, f[1 .. k - 1], dsts[k])
  <2> TAKE k \in 1 .. z
  <2>1. k \in Nat \ {0} /\ 1 .. k \in SUBSET DOMAIN dsts
    BY <1>0
  <2>2. 1 .. k # {} /\ Max(1 .. k) = k /\ (1 .. k) \ {k} = 1 .. k - 1
    BY <2>1, InitialSegments
  <2> QED BY <1>5, <2>1, <2>2 DEF Object
<1>8. h[0] = base
  BY <1>0, <1>6
<1>9. \A k \in 1 .. z : h[k] = Object(deeper, h[k - 1], dsts[k])
  BY <1>0, <1>7
<1>10. FoldLeft(One, base, dsts) = h[z]
  <2>1. z \in 0 .. z /\ h[z] = f[1 .. z]
    BY <1>0
  <2> HIDE DEF h, One
  <2> QED BY <1>0, <1>4, <2>1
<1>11. LinkByLink(h, deeper, base, dsts)
  <2> HIDE DEF h
  <2> QED BY ONLY <1>8, <1>9, <1>10 DEF LinkByLink, z
<1> QED BY <1>11

(* Nothing has been found beyond a column, other than by itself. *)
Nowhere(links, changes, t, depth, row, col) ==
  \A j \in 0 .. depth :
    /\ j = 0 \/ ~ t.path[j - 1].depth_exceeded
    /\ <<row, col>> \notin FollowedFrom(t, j, depth)
    => \A dst \in ToSet(links[row][col]), x \in changes :
         ~ Reaches(links, FollowedFrom(t, j, depth) \cup {<<row, col>>}, dst, Deep(j, depth) - 1, x)

(* Nothing is found in a column, still, when the search goes on. *)
LEMMA NowhereStill ==
  ASSUME NEW links, NEW changes, NEW t, NEW u, NEW depth \in Nat, KeepsPath(t, u, depth),
         NEW row, NEW col, Nowhere(links, changes, t, depth, row, col)
  PROVE  Nowhere(links, changes, u, depth, row, col)
<1> SUFFICES ASSUME NEW j \in 0 .. depth, j = 0 \/ ~ u.path[j - 1].depth_exceeded,
                    <<row, col>> \notin FollowedFrom(u, j, depth),
                    NEW dst \in ToSet(links[row][col]), NEW x \in changes
             PROVE  ~ Reaches(links, FollowedFrom(u, j, depth) \cup {<<row, col>>}, dst,
                              Deep(j, depth) - 1, x)
  BY DEF Nowhere
<1>1. depth \in 0 .. depth
  OBVIOUS
<1>2. FollowedFrom(u, j, depth) = FollowedFrom(t, j, depth)
  BY <1>1, PathKept
<1>3. j = 0 \/ ~ t.path[j - 1].depth_exceeded
  <2>1. j # 0 => j - 1 \in 0 .. depth - 1
    OBVIOUS
  <2> QED BY <2>1 DEF KeepsPath
<1> QED BY <1>2, <1>3 DEF Nowhere

(* The columns of a row, one after another. *)
ColumnsLooked(links, changes, s, t, depth, row, n) ==
  /\ t \in Checkers(DOMAIN links)
  /\ Remembers(links, changes, t)
  /\ KeepsPath(s, t, depth)
  /\ t.found => SomethingFound(links, changes, depth, row)
  /\ ~ t.found => \A col \in 1 .. n : Nowhere(links, changes, t, depth, row, col)

(* A column that is being followed further up. *)
CutShort(links, changes, t, u, depth, row, col) ==
  /\ u \in Checkers(DOMAIN links) /\ u.found = t.found /\ u.not_modified = t.not_modified
  /\ KeepsPath(t, u, depth)
  /\ Nowhere(links, changes, u, depth, row, col)

(* What is followed below a depth, and the column at it. *)
LEMMA FollowedAbove ==
  ASSUME NEW links, NEW changes, NEW depth \in 0 .. MaxDepth - 1,
         NEW t \in Checkers(DOMAIN links), NEW row, NEW col,
         NEW d \in 0 .. depth - 1, t.path[d].row = row, t.path[d].col = col,
         NEW u, u = Exceeded(t, d, depth)
  PROVE  CutShort(links, changes, t, u, depth, row, col)
<1>0. MaxDepth \in Nat /\ depth \in Nat /\ d \in Nat /\ d < depth
  BY ONLY MaxDepthAssumption, depth \in 0 .. MaxDepth - 1, d \in 0 .. depth - 1
<1>1. /\ u \in Checkers(DOMAIN links) /\ u.found = t.found /\ u.not_modified = t.not_modified
      /\ \A e \in Path : /\ u.path[e].row = t.path[e].row /\ u.path[e].col = t.path[e].col
                         /\ u.path[e].depth_exceeded
                              <=> t.path[e].depth_exceeded \/ (d <= e /\ e < depth)
  BY ExceededIs
<1>2. \A e \in 0 .. depth - 1 : e \in Path
  BY ONLY <1>0, depth \in 0 .. MaxDepth - 1 DEF Path
<1>3. KeepsPath(t, u, depth)
  BY <1>1, <1>2 DEF KeepsPath
<1>4. ASSUME NEW j \in 0 .. depth, j = 0 \/ ~ u.path[j - 1].depth_exceeded
      PROVE  <<row, col>> \in FollowedFrom(u, j, depth)
  <2>1. j <= d
    <3> SUFFICES ASSUME d < j PROVE FALSE
      BY <1>0
    <3>1. j # 0 /\ j - 1 \in 0 .. depth - 1 /\ d <= j - 1 /\ j - 1 < depth
      BY ONLY <1>0, d < j, j \in 0 .. depth
    <3> QED BY <1>1, <1>2, <1>4, <3>1
  <2>2. d \in j .. depth - 1
    BY ONLY <1>0, <2>1, j \in 0 .. depth
  <2>3. u.path[d].row = row /\ u.path[d].col = col
    BY <1>1, <1>2
  <2> QED BY <2>2, <2>3 DEF FollowedFrom
<1>5. Nowhere(links, changes, u, depth, row, col)
  BY <1>4 DEF Nowhere
<1> QED BY <1>1, <1>3, <1>5 DEF CutShort

(* How far the search looks from a depth, and from the next. *)
LEMMA DeeperBy ==
  ASSUME NEW depth \in 0 .. MaxDepth - 1, NEW j \in 0 .. depth
  PROVE  /\ Deep(j, depth) \in Int /\ Deep(j, depth + 1) \in Int
         /\ Deep(j, depth) - 1 <= Deep(j, depth + 1)
         /\ Deep(j, depth) \in Nat /\ Deep(j, depth) <= MaxDepth - 1
BY MaxDepthAssumption DEF Deep

(* What a column links to, looked through from the row. *)
LEMMA LookedThrough ==
  ASSUME NEW links, NEW changes, NEW depth \in 0 .. MaxDepth - 1,
         NEW t, NEW row, NEW col, t.path[depth].row = row, t.path[depth].col = col,
         \A i \in DOMAIN links[row][col], j \in 0 .. depth :
            NothingBeyond(links, changes, t, depth + 1, j, links[row][col][i])
  PROVE  Nowhere(links, changes, t, depth, row, col)
<1> SUFFICES ASSUME NEW j \in 0 .. depth, j = 0 \/ ~ t.path[j - 1].depth_exceeded,
                    <<row, col>> \notin FollowedFrom(t, j, depth),
                    NEW dst \in ToSet(links[row][col]), NEW x \in changes
             PROVE  ~ Reaches(links, FollowedFrom(t, j, depth) \cup {<<row, col>>}, dst,
                              Deep(j, depth) - 1, x)
  BY DEF Nowhere
<1>1. PICK i \in DOMAIN links[row][col] : links[row][col][i] = dst
  BY DEF ToSet
<1>2. NothingBeyond(links, changes, t, depth + 1, j, dst)
  BY <1>1
<1>3. ~ Reaches(links, FollowedFrom(t, j, depth + 1), dst, Deep(j, depth + 1), x)
  BY <1>2 DEF NothingBeyond
<1>4. FollowedFrom(t, j, depth + 1) = FollowedFrom(t, j, depth) \cup {<<row, col>>}
  <2>1. \A d : d \in j .. (depth + 1) - 1 <=> d \in j .. depth - 1 \/ d = depth
    BY ONLY depth \in 0 .. MaxDepth - 1, j \in 0 .. depth, MaxDepthAssumption
  <2> QED BY <2>1 DEF FollowedFrom
<1>5. /\ Deep(j, depth) - 1 \in Int /\ Deep(j, depth + 1) \in Int
      /\ Deep(j, depth) - 1 <= Deep(j, depth + 1)
  BY DeeperBy
<1> DEFINE a == FollowedFrom(t, j, depth) \cup {<<row, col>>}
           n == Deep(j, depth) - 1
           k == Deep(j, depth + 1)
<1>6. ~ Reaches(links, a, dst, k, x)
  BY <1>3, <1>4
<1>7. n \in Int /\ k \in Int /\ n <= k /\ a \subseteq a
  BY <1>5
<1> HIDE DEF a, n, k
<1>8. ~ Reaches(links, a, dst, n, x)
  BY <1>6, <1>7, ReachesMore
<1> QED BY <1>8 DEF a, n

(* One column more of a row is looked through. *)
LEMMA LookColumn ==
  ASSUME NEW links, AreLinks(links), NEW changes, NEW depth \in 0 .. MaxDepth - 1,
         NEW deeper, Works(links, changes, deeper, depth + 1),
         NEW s \in Checkers(DOMAIN links), NEW row \in DOMAIN links,
         NEW n \in Nat, n + 1 \in DOMAIN links[row],
         NEW t, ColumnsLooked(links, changes, s, t, depth, row, n),
         NEW u, u = check_column(links, deeper, depth, row, t, n + 1)
  PROVE  ColumnsLooked(links, changes, s, u, depth, row, n + 1)
<1> DEFINE col == n + 1
           already == {d \in 0 .. depth - 1 : t.path[d].row = row /\ t.path[d].col = col}
           base == [t EXCEPT !.path[depth] = [row |-> row, col |-> col, depth_exceeded |-> FALSE]]
           dsts == links[row][col]
           R == DOMAIN links
<1>0. MaxDepth \in Nat /\ depth \in Nat /\ depth + 1 \in Nat /\ depth \in Path /\ col \in Nat
  BY ONLY MaxDepthAssumption, depth \in 0 .. MaxDepth - 1, n \in Nat DEF Path
<1>1. /\ t \in Checkers(DOMAIN links) /\ Remembers(links, changes, t) /\ KeepsPath(s, t, depth)
      /\ t.found => SomethingFound(links, changes, depth, row)
      /\ ~ t.found => \A c \in 1 .. n : Nowhere(links, changes, t, depth, row, c)
  BY DEF ColumnsLooked
<1>2. CASE t.found
  <2>1. u = t
    BY <1>2 DEF check_column
  <2> QED BY <1>1, <1>2, <2>1 DEF ColumnsLooked
<1>3. ASSUME ~ t.found, u \in Checkers(DOMAIN links), Remembers(links, changes, u),
             KeepsPath(t, u, depth), u.found => SomethingFound(links, changes, depth, row),
             ~ u.found => Nowhere(links, changes, u, depth, row, col)
      PROVE  ColumnsLooked(links, changes, s, u, depth, row, n + 1)
  <2>1. KeepsPath(s, u, depth)
    BY <1>0, <1>1, <1>3, PathKept
  <2>2. ASSUME ~ u.found, NEW c \in 1 .. n + 1 PROVE Nowhere(links, changes, u, depth, row, c)
    <3>1. CASE c = n + 1
      BY <1>3, <2>2, <3>1
    <3>2. CASE c # n + 1
      <4>1. c \in 1 .. n
        BY ONLY <3>2, c \in 1 .. n + 1, n \in Nat
      <4> QED BY <1>0, <1>1, <1>3, <4>1, NowhereStill
    <3> QED BY <3>1, <3>2
  <2> QED BY <1>3, <2>1, <2>2 DEF ColumnsLooked
<1>4. CASE ~ t.found /\ already # {}
  <2> DEFINE d == CHOOSE e \in already : TRUE
  <2>1. d \in 0 .. depth - 1 /\ t.path[d].row = row /\ t.path[d].col = col
    BY <1>4
  <2>2. u = Exceeded(t, d, depth)
    BY <1>4 DEF check_column
  <2> HIDE DEF d, already, col
  <2>3. /\ u \in Checkers(DOMAIN links) /\ u.found = t.found /\ u.not_modified = t.not_modified
        /\ KeepsPath(t, u, depth)
        /\ Nowhere(links, changes, u, depth, row, col)
    <3>1. t \in Checkers(DOMAIN links)
      BY <1>1
    <3>2. d \in 0 .. depth - 1
      BY <2>1
    <3>3. t.path[d].row = row /\ t.path[d].col = col
      BY <2>1
    <3>4. CutShort(links, changes, t, u, depth, row, col)
      BY ONLY <2>2, <3>1, <3>2, <3>3, depth \in 0 .. MaxDepth - 1, FollowedAbove
    <3> QED BY <3>4 DEF CutShort
  <2>4. Remembers(links, changes, u)
    BY <1>1, <2>3 DEF Remembers
  <2> QED BY <1>3, <1>4, <2>3, <2>4
<1>5. CASE ~ t.found /\ already = {}
  <2>1. u = LET One(v, dst) == IF v.found THEN v ELSE deeper[dst, v]
            IN  FoldLeft(One, base, dsts)
    BY <1>5 DEF check_column
  <2>2. dsts \in Seq(R)
    <3> DEFINE c == links[row]
               S == Seq(R)
    <3>1. c \in Seq(S) /\ col \in DOMAIN c
      BY DEF AreLinks
    <3> HIDE DEF R, S, c, col
    <3>2. c[col] \in S
      BY ONLY <3>1, ElementOfSeq
    <3> QED BY <3>2 DEF S, c
  <2>3. /\ base \in Checkers(R) /\ base.found = t.found /\ base.not_modified = t.not_modified
        /\ base.path[depth].row = row /\ base.path[depth].col = col
        /\ \A d \in 0 .. depth - 1 : base.path[d] = t.path[d]
    <3> DEFINE St == [row : R \cup {0}, col : Nat, depth_exceeded : BOOLEAN]
               here == [row |-> row, col |-> col, depth_exceeded |-> FALSE]
               p == [t.path EXCEPT ![depth] = here]
    <3>1. t.path \in [Path -> St] /\ t \in Checkers(R)
      BY <1>1, CheckerParts
    <3>2. here \in St /\ here.row = row /\ here.col = col
      BY <1>0
    <3> HIDE DEF St, here
    <3>3. /\ p \in [Path -> St] /\ p[depth] = here
          /\ \A d \in 0 .. depth - 1 : p[d] = t.path[d]
      <4>1. \A d \in 0 .. depth - 1 : d \in Path /\ d # depth
        BY ONLY <1>0, depth \in 0 .. MaxDepth - 1 DEF Path
      <4> QED BY <1>0, <3>1, <3>2, <4>1
    <3>4. base = [t EXCEPT !.path = p]
      BY DEF here
    <3> HIDE DEF base, p
    <3>5. base \in Checkers(R) /\ base.found = t.found /\ base.not_modified = t.not_modified /\ base.path = p
      BY <3>1, <3>3, <3>4 DEF Checkers, St
    <3> QED BY <3>2, <3>3, <3>5
  <2> HIDE DEF base
  <2>4. deeper \in Searches(links)
    BY DEF Works
  <2>5. PICK h : LinkByLink(h, deeper, base, dsts)
    <3> HIDE DEF dsts
    <3> QED BY <2>2, <2>3, <2>4, LinksOneByOne DEF R
  <2>6. /\ h[0] = base /\ u = h[Len(dsts)]
        /\ \A k \in 1 .. Len(dsts) : h[k] = Object(deeper, h[k - 1], dsts[k])
    <3> HIDE DEF dsts
    <3> QED BY <2>1, <2>5 DEF LinkByLink
  <2>7. Looked(links, changes, t, base, depth, row, col, 0)
    <3>1. Remembers(links, changes, base)
      BY <1>1, <2>3 DEF Remembers
    <3>2. KeepsPath(t, base, depth)
      BY <2>3, SamePath
    <3>3. 1 .. 0 = {}
      OBVIOUS
    <3> QED BY <1>5, <2>3, <3>1, <3>2, <3>3 DEF Looked, R
  <2> DEFINE z == Len(dsts)
             T == {k \in Nat : k <= z => Looked(links, changes, t, h[k], depth, row, col, k)}
  <2>8. z \in Nat /\ DOMAIN dsts = 1 .. z
    <3> HIDE DEF dsts
    <3> QED BY <2>2
  <2> HIDE DEF z
  <2>9. ASSUME NEW k \in Nat, k \in T PROVE k + 1 \in T
    <3> SUFFICES ASSUME k + 1 <= z PROVE Looked(links, changes, t, h[k + 1], depth, row, col, k + 1)
      OBVIOUS
    <3>1. k <= z /\ k + 1 \in 1 .. z /\ (k + 1) - 1 = k
      BY ONLY <2>8, k + 1 <= z, k \in Nat
    <3>2. Looked(links, changes, t, h[k], depth, row, col, k)
      BY <2>9, <3>1
    <3>3. h[k + 1] = IF h[k].found THEN h[k] ELSE deeper[links[row][col][k + 1], h[k]]
      BY <2>6, <3>1 DEF z, Object
    <3>4. k + 1 \in DOMAIN links[row][col]
      BY <2>8, <3>1
    <3>5. col \in DOMAIN links[row]
      OBVIOUS
    <3> HIDE DEF T, col, dsts
    <3> QED BY <1>1, <3>2, <3>3, <3>4, <3>5, LookFurther
  <2>10. Looked(links, changes, t, u, depth, row, col, z)
    <3>1. 0 \in T
      BY <2>6, <2>7
    <3>2. Nat \subseteq T
      <4> HIDE DEF T
      <4> QED BY <2>9, <3>1, Induction
    <3> QED BY <2>6, <2>8, <3>2 DEF z
  <2>11. /\ u \in Checkers(DOMAIN links) /\ Remembers(links, changes, u) /\ KeepsPath(t, u, depth)
         /\ u.path[depth].row = row /\ u.path[depth].col = col
         /\ u.found => SomethingFound(links, changes, depth, row)
         /\ ~ u.found => \A i \in 1 .. z, j \in 0 .. depth :
                           NothingBeyond(links, changes, u, depth + 1, j, links[row][col][i])
    BY <2>10 DEF Looked
  <2>12. ~ u.found => Nowhere(links, changes, u, depth, row, col)
    <3> HIDE DEF col
    <3> QED BY <2>8, <2>11, LookedThrough
  <2> QED BY <1>3, <1>5, <2>11, <2>12
<1> QED BY <1>2, <1>4, <1>5

(* A column leaves a checker. *)
LEMMA CheckColumnType ==
  ASSUME NEW links, AreLinks(links), NEW depth \in 0 .. MaxDepth - 1,
         NEW deeper \in Searches(links), NEW row \in DOMAIN links, NEW col \in DOMAIN links[row],
         NEW t \in Checkers(DOMAIN links)
  PROVE  check_column(links, deeper, depth, row, t, col) \in Checkers(DOMAIN links)
<1> DEFINE R == DOMAIN links
           already == {d \in 0 .. depth - 1 : t.path[d].row = row /\ t.path[d].col = col}
           base == [t EXCEPT !.path[depth] = [row |-> row, col |-> col, depth_exceeded |-> FALSE]]
           dsts == links[row][col]
           u == check_column(links, deeper, depth, row, t, col)
<1>1. CASE t.found
  BY <1>1 DEF check_column
<1>2. CASE ~ t.found /\ already # {}
  <2>1. u = Exceeded(t, CHOOSE d \in already : TRUE, depth)
    BY <1>2 DEF check_column
  <2> DEFINE d == CHOOSE e \in already : TRUE
  <2>2. u = Exceeded(t, d, depth)
    BY <2>1
  <2> HIDE DEF d, u, already
  <2>3. u \in Checkers(DOMAIN links)
    BY ONLY <2>2, t \in Checkers(DOMAIN links), ExceededIs
  <2> QED BY <2>3 DEF u
<1>3. CASE ~ t.found /\ already = {}
  <2>1. u = LET One(v, dst) == IF v.found THEN v ELSE deeper[dst, v]
            IN  FoldLeft(One, base, dsts)
    BY <1>3 DEF check_column
  <2>2. dsts \in Seq(R) /\ col \in Nat
    <3> DEFINE c == links[row]
               S == Seq(R)
    <3>1. c \in Seq(S) /\ col \in DOMAIN c
      BY DEF AreLinks
    <3> HIDE DEF R, S, c
    <3>2. c[col] \in S /\ col \in Nat
      BY ONLY <3>1, ElementOfSeq
    <3> QED BY <3>2 DEF S, c
  <2>3. base \in Checkers(R)
    <3>1. depth \in Path
      BY DEF Path
    <3> QED BY <2>2, <3>1 DEF Checkers
  <2> HIDE DEF base, dsts
  <2>4. PICK h : LinkByLink(h, deeper, base, dsts)
    BY <2>2, <2>3, LinksOneByOne DEF R
  <2>5. /\ h[0] = base /\ u = h[Len(dsts)]
        /\ \A k \in 1 .. Len(dsts) : h[k] = Object(deeper, h[k - 1], dsts[k])
    BY <2>1, <2>4 DEF LinkByLink
  <2> DEFINE z == Len(dsts)
             T == {k \in Nat : k <= z => h[k] \in Checkers(R)}
  <2>6. z \in Nat /\ DOMAIN dsts = 1 .. z
    BY <2>2
  <2> HIDE DEF z, u
  <2>7. ASSUME NEW k \in Nat, k \in T, k + 1 <= z PROVE h[k + 1] \in Checkers(R)
    <3>1. k <= z /\ k + 1 \in 1 .. z /\ (k + 1) - 1 = k
      BY ONLY <2>6, <2>7
    <3>2. h[k] \in Checkers(R)
      BY <2>7, <3>1
    <3>3. dsts[k + 1] \in R
      BY <2>2, <2>6, <3>1, ElementOfSeq
    <3>4. h[k + 1] = IF h[k].found THEN h[k] ELSE deeper[dsts[k + 1], h[k]]
      BY <2>5, <3>1 DEF z, Object
    <3> QED BY <3>2, <3>3, <3>4 DEF Searches, R
  <2>8. 0 \in T /\ \A k \in Nat : k \in T => k + 1 \in T
    BY <2>3, <2>5, <2>7
  <2>9. Nat \subseteq T
    <3> HIDE DEF T
    <3> QED BY <2>8, Induction
  <2>10. h[z] \in Checkers(R)
    BY <2>6, <2>9
  <2> QED BY <2>5, <2>10 DEF z, R, u
<1> QED BY <1>1, <1>2, <1>3

(* The columns, one by one. *)
ColumnByColumn(h, links, deeper, depth, row, s) ==
  /\ h[0] = s
  /\ \A k \in 1 .. Len(links[row]) : h[k] = check_column(links, deeper, depth, row, h[k - 1], k)
  /\ check_outgoing_links(links, deeper, depth, row, s) = h[Len(links[row])]

(* The columns of a row are looked through in order. *)
LEMMA ColumnsOneByOne ==
  ASSUME NEW links, AreLinks(links), NEW depth \in 0 .. MaxDepth - 1,
         NEW deeper \in Searches(links), NEW row \in DOMAIN links,
         NEW base \in Checkers(DOMAIN links)
  PROVE  \E h : ColumnByColumn(h, links, deeper, depth, row, base)
<1> DEFINE z == Len(links[row])
           A == Checkers(DOMAIN links)
           cols == [col \in DOMAIN links[row] |-> col]
           One(t, col) == check_column(links, deeper, depth, row, t, col)
           Folds(g) == g = [s \in SUBSET DOMAIN cols |->
                             IF s = {} THEN base ELSE One(g[s \ {Max(s)}], cols[Max(s)])]
           F == [p \in A \X (1 .. z) |-> One(p[1], p[2])]
<1>0. z \in Nat /\ DOMAIN links[row] = 1 .. z /\ DOMAIN cols = 1 .. z
  <2> DEFINE c == links[row]
             S == Seq(DOMAIN links)
  <2>1. c \in Seq(S)
    BY DEF AreLinks
  <2> HIDE DEF c, S
  <2>2. Len(c) \in Nat /\ DOMAIN c = 1 .. Len(c)
    BY ONLY <2>1
  <2> QED BY <2>2 DEF c
<1>1. \A k \in 1 .. z : cols[k] = k
  BY <1>0
<1> HIDE DEF cols
<1>2. F \in [A \X (1 .. z) -> A]
  <2>1. ASSUME NEW d \in A, NEW k \in 1 .. z PROVE One(d, k) \in A
    <3>1. k \in DOMAIN links[row]
      BY <1>0
    <3> QED BY <3>1, CheckColumnType
  <2> HIDE DEF One, z, A
  <2> QED BY <2>1
<1>3. \E g : Folds(g)
  <2> HIDE DEF One, z, A
  <2>1. PICK g \in [SUBSET (1 .. z) -> A] : Folded(g, z, base, F)
    <3> HIDE DEF F
    <3>1. base \in A
      BY DEF A
    <3> QED BY <1>0, <1>2, <3>1, FoldIsThere
  <2>2. ASSUME NEW s \in SUBSET (1 .. z), s # {}
        PROVE  F[<<g[s \ {Max(s)}], Max(s)>>] = One(g[s \ {Max(s)}], cols[Max(s)])
    <3>1. Max(s) \in 1 .. z
      BY <1>0, <2>2, LastOfInitial
    <3>2. g[s \ {Max(s)}] \in A
      BY <2>1
    <3> QED BY <1>1, <3>1, <3>2
  <2>3. g = [s \in SUBSET (1 .. z) |->
               IF s = {} THEN base ELSE One(g[s \ {Max(s)}], cols[Max(s)])]
    <3> HIDE DEF F
    <3> QED BY <2>1, <2>2 DEF Folded
  <2> QED BY <1>0, <2>3
<1> DEFINE f == CHOOSE g : Folds(g)
           h == [k \in 0 .. z |-> f[1 .. k]]
<1>4. check_outgoing_links(links, deeper, depth, row, base) = f[DOMAIN cols]
  BY DEF check_outgoing_links, FoldLeft, MapThenFoldSet, cols
<1>5. Folds(f)
  <2> HIDE DEF Folds
  <2> QED BY <1>3
<1> HIDE DEF f, One, z
<1>6. f[{}] = base
  BY <1>5
<1>7. \A k \in 1 .. z : f[1 .. k] = One(f[1 .. k - 1], k)
  <2> TAKE k \in 1 .. z
  <2>1. k \in Nat \ {0} /\ 1 .. k \in SUBSET DOMAIN cols
    BY <1>0
  <2>2. 1 .. k # {} /\ Max(1 .. k) = k /\ (1 .. k) \ {k} = 1 .. k - 1
    BY <2>1, InitialSegments
  <2>3. f[1 .. k] = One(f[(1 .. k) \ {Max(1 .. k)}], cols[Max(1 .. k)])
    BY <1>5, <2>1, <2>2
  <2> QED BY <1>1, <2>2, <2>3
<1>8. h[0] = base
  BY <1>0, <1>6
<1>9. \A k \in 1 .. z : h[k] = One(h[k - 1], k)
  BY <1>0, <1>7
<1>10. check_outgoing_links(links, deeper, depth, row, base) = h[z]
  <2>1. z \in 0 .. z /\ h[z] = f[1 .. z]
    BY <1>0
  <2> HIDE DEF h
  <2> QED BY <1>0, <1>4, <2>1
<1>11. ColumnByColumn(h, links, deeper, depth, row, base)
  <2> HIDE DEF h
  <2> QED BY ONLY <1>8, <1>9, <1>10 DEF ColumnByColumn, One, z
<1> QED BY <1>11

(* All columns. *)
LEMMA LookEverywhere ==
  ASSUME NEW links, AreLinks(links), NEW changes, NEW depth \in 0 .. MaxDepth - 1,
         NEW deeper, Works(links, changes, deeper, depth + 1),
         NEW s, Searching(links, changes, s), NEW row \in DOMAIN links,
         NEW u, u = check_outgoing_links(links, deeper, depth, row, s)
  PROVE  ColumnsLooked(links, changes, s, u, depth, row, Len(links[row]))
<1> DEFINE z == Len(links[row])
<1>0. z \in Nat /\ DOMAIN links[row] = 1 .. z
  <2> DEFINE c == links[row]
             S == Seq(DOMAIN links)
  <2>1. c \in Seq(S)
    BY DEF AreLinks
  <2> HIDE DEF c, S
  <2>2. Len(c) \in Nat /\ DOMAIN c = 1 .. Len(c)
    BY ONLY <2>1
  <2> QED BY <2>2 DEF c
<1>1. /\ s \in Checkers(DOMAIN links) /\ ~ s.found /\ Remembers(links, changes, s)
      /\ deeper \in Searches(links)
  BY DEF Searching, Works
<1>2. PICK h : ColumnByColumn(h, links, deeper, depth, row, s)
  BY <1>1, ColumnsOneByOne
<1>3. /\ h[0] = s /\ u = h[z]
      /\ \A k \in 1 .. z : h[k] = check_column(links, deeper, depth, row, h[k - 1], k)
  BY <1>2 DEF ColumnByColumn
<1> HIDE DEF z
<1> DEFINE T == {k \in Nat : k <= z => ColumnsLooked(links, changes, s, h[k], depth, row, k)}
<1>4. ColumnsLooked(links, changes, s, s, depth, row, 0)
  <2>1. KeepsPath(s, s, depth) /\ 1 .. 0 = {}
    BY SamePath
  <2> QED BY <1>1, <2>1 DEF ColumnsLooked
<1>5. ASSUME NEW k \in Nat, k \in T PROVE k + 1 \in T
  <2> SUFFICES ASSUME k + 1 <= z PROVE ColumnsLooked(links, changes, s, h[k + 1], depth, row, k + 1)
    OBVIOUS
  <2>1. k <= z /\ k + 1 \in 1 .. z /\ (k + 1) - 1 = k
    BY ONLY <1>0, k + 1 <= z, k \in Nat
  <2>2. ColumnsLooked(links, changes, s, h[k], depth, row, k)
    BY <1>5, <2>1
  <2>3. h[k + 1] = check_column(links, deeper, depth, row, h[k], k + 1)
    BY <1>3, <2>1
  <2>4. k + 1 \in DOMAIN links[row]
    BY <1>0, <2>1
  <2> HIDE DEF T
  <2> QED BY <1>1, <2>2, <2>3, <2>4, LookColumn
<1>6. 0 \in T
  BY <1>3, <1>4
<1>7. Nat \subseteq T
  <2> HIDE DEF T
  <2> QED BY <1>5, <1>6, Induction
<1>8. ColumnsLooked(links, changes, s, u, depth, row, z)
  BY <1>0, <1>3, <1>7
<1> QED BY <1>8 DEF z

(* The links of a row leave a checker. *)
LEMMA OutgoingLinksType ==
  ASSUME NEW links, AreLinks(links), NEW depth \in 0 .. MaxDepth - 1,
         NEW deeper \in Searches(links), NEW row \in DOMAIN links, NEW s \in Checkers(DOMAIN links)
  PROVE  check_outgoing_links(links, deeper, depth, row, s) \in Checkers(DOMAIN links)
<1> DEFINE z == Len(links[row])
           C == Checkers(DOMAIN links)
<1>0. z \in Nat /\ DOMAIN links[row] = 1 .. z
  <2> DEFINE c == links[row]
             S == Seq(DOMAIN links)
  <2>1. c \in Seq(S)
    BY DEF AreLinks
  <2> HIDE DEF c, S
  <2>2. Len(c) \in Nat /\ DOMAIN c = 1 .. Len(c)
    BY ONLY <2>1
  <2> QED BY <2>2 DEF c
<1>1. PICK h : ColumnByColumn(h, links, deeper, depth, row, s)
  BY ColumnsOneByOne
<1>2. /\ h[0] = s /\ check_outgoing_links(links, deeper, depth, row, s) = h[z]
      /\ \A k \in 1 .. z : h[k] = check_column(links, deeper, depth, row, h[k - 1], k)
  BY <1>1 DEF ColumnByColumn
<1> HIDE DEF z, C
<1> DEFINE T == {k \in Nat : k <= z => h[k] \in C}
<1>3. ASSUME NEW k \in Nat, k \in T PROVE k + 1 \in T
  <2> SUFFICES ASSUME k + 1 <= z PROVE h[k + 1] \in C
    OBVIOUS
  <2>1. k <= z /\ k + 1 \in 1 .. z /\ (k + 1) - 1 = k
    BY ONLY <1>0, k + 1 <= z, k \in Nat
  <2>2. h[k] \in C
    BY <1>3, <2>1
  <2>3. h[k + 1] = check_column(links, deeper, depth, row, h[k], k + 1)
    BY <1>2, <2>1
  <2>4. k + 1 \in DOMAIN links[row]
    BY <1>0, <2>1
  <2> HIDE DEF T
  <2> QED BY <2>2, <2>3, <2>4, CheckColumnType DEF C
<1>4. 0 \in T
  BY <1>2 DEF C
<1>5. Nat \subseteq T
  <2> HIDE DEF T
  <2> QED BY <1>3, <1>4, Induction
<1>6. h[z] \in C
  BY <1>0, <1>5
<1> QED BY <1>2, <1>6 DEF C

(* At the limit of depth. *)
LEMMA LimitSearched ==
  ASSUME NEW links, NEW changes, NEW s, Searching(links, changes, s), NEW row,
         NEW t, t = Exceeded(s, 0, MaxDepth)
  PROVE  Searched(links, changes, s, t, MaxDepth, row)
<1>0. MaxDepth \in Nat \ {0} /\ Path = 0 .. MaxDepth - 1
  BY MaxDepthAssumption DEF Path
<1>1. s \in Checkers(DOMAIN links) /\ ~ s.found /\ Remembers(links, changes, s)
  BY DEF Searching
<1>2. /\ t \in Checkers(DOMAIN links) /\ t.found = s.found /\ t.not_modified = s.not_modified
      /\ \A d \in Path : /\ t.path[d].row = s.path[d].row /\ t.path[d].col = s.path[d].col
                         /\ t.path[d].depth_exceeded
                              <=> s.path[d].depth_exceeded \/ (0 <= d /\ d < MaxDepth)
  BY <1>1, ExceededIs
<1>3. Remembers(links, changes, t)
  BY <1>1, <1>2 DEF Remembers
<1>4. KeepsPath(s, t, MaxDepth)
  BY <1>0, <1>2 DEF KeepsPath
<1>5. ASSUME NEW j \in 0 .. MaxDepth PROVE NothingBeyond(links, changes, t, MaxDepth, j, row)
  <2>1. CASE j = 0
    <3>1. Deep(j, MaxDepth) = -1
      BY <1>0, <2>1 DEF Deep
    <3>2. 0 .. -1 = {}
      OBVIOUS
    <3> QED BY <3>1, <3>2 DEF NothingBeyond, Reaches
  <2>2. CASE j # 0
    <3>1. j - 1 \in Path /\ 0 <= j - 1 /\ j - 1 < MaxDepth
      BY <1>0, <2>2
    <3>2. t.path[j - 1].depth_exceeded
      BY <1>2, <3>1
    <3> QED BY <2>2, <3>2 DEF NothingBeyond
  <2> QED BY <2>1, <2>2
<1> QED BY <1>1, <1>2, <1>3, <1>4, <1>5 DEF Searched, NothingFound

(* All links of a row looked through: nothing is found from it. *)
LEMMA AllLooked ==
  ASSUME NEW links, NEW changes, NEW depth \in 0 .. MaxDepth - 1, NEW row \in DOMAIN links,
         row \notin changes, NEW t, \A col \in DOMAIN links[row] : Nowhere(links, changes, t, depth, row, col)
  PROVE  NothingFound(links, changes, t, depth, row)
<1> SUFFICES ASSUME NEW j \in 0 .. depth, j = 0 \/ ~ t.path[j - 1].depth_exceeded,
                    NEW x \in changes, Reaches(links, FollowedFrom(t, j, depth), row, Deep(j, depth), x)
             PROVE  FALSE
  BY DEF NothingFound, NothingBeyond
<1>1. Deep(j, depth) \in Int
  BY DeeperBy
<1> DEFINE a == FollowedFrom(t, j, depth)
           n == Deep(j, depth)
<1>2. n \in Int /\ x # row /\ Reaches(links, a, row, n, x)
  BY <1>1
<1> HIDE DEF a, n
<1>3. PICK col \in DOMAIN links[row] : \E dst \in ToSet(links[row][col]) :
         <<row, col>> \notin a /\ Reaches(links, a \cup {<<row, col>>}, dst, n - 1, x)
  BY <1>2, ReachedFromLink
<1>4. Nowhere(links, changes, t, depth, row, col)
  OBVIOUS
<1> QED BY <1>3, <1>4 DEF Nowhere, a, n

(* A row from which nothing is found at all is remembered. *)
LEMMA RemembersOne ==
  ASSUME NEW links, NEW changes, NEW depth \in 0 .. MaxDepth - 1, NEW row \in DOMAIN links,
         NEW t, t \in Checkers(DOMAIN links), Remembers(links, changes, t), ~ t.found,
         NothingFound(links, changes, t, depth, row),
         depth = 0 \/ ~ t.path[depth - 1].depth_exceeded,
         NEW u, u = [t EXCEPT !.not_modified = @ \cup {row}]
  PROVE  /\ u \in Checkers(DOMAIN links) /\ Remembers(links, changes, u) /\ u.found = t.found
         /\ u.path = t.path
<1>0. MaxDepth \in Nat \ {0} /\ depth \in Nat
  BY ONLY MaxDepthAssumption, depth \in 0 .. MaxDepth - 1
<1>1. /\ u \in Checkers(DOMAIN links) /\ u.found = t.found /\ u.path = t.path
      /\ u.not_modified = t.not_modified \cup {row}
  BY DEF Checkers
<1>2. depth \in 0 .. depth
  BY ONLY <1>0
<1>3. NothingBeyond(links, changes, t, depth, depth, row)
  BY <1>2 DEF NothingFound
<1>4. FollowedFrom(t, depth, depth) = {}
  <2>1. depth .. depth - 1 = {}
    BY ONLY <1>0
  <2> QED BY <2>1 DEF FollowedFrom
<1>5. Deep(depth, depth) = MaxDepth - 1
  BY <1>0 DEF Deep
<1>6. ~ ChangedBeyond(links, changes, row)
  BY <1>3, <1>4, <1>5 DEF NothingBeyond, ChangedBeyond
<1>7. Remembers(links, changes, u)
  BY <1>1, <1>6 DEF Remembers
<1> QED BY <1>1, <1>7

(* What is remembered needs no search. *)
LEMMA RememberedSearched ==
  ASSUME NEW links, NEW changes, NEW depth \in 0 .. MaxDepth - 1, NEW s, NEW row,
         ~ ChangedBeyond(links, changes, row)
  PROVE  NothingFound(links, changes, s, depth, row)
<1> SUFFICES ASSUME NEW j \in 0 .. depth, NEW x \in changes,
                    Reaches(links, FollowedFrom(s, j, depth), row, Deep(j, depth), x)
             PROVE  FALSE
  BY DEF NothingFound, NothingBeyond
<1> DEFINE a == FollowedFrom(s, j, depth)
           n == Deep(j, depth)
           k == MaxDepth - 1
           none == {}
<1>1. n \in Int /\ k \in Int /\ n <= k /\ none \subseteq a
  BY DeeperBy, MaxDepthAssumption
<1>2. Reaches(links, a, row, n, x)
  OBVIOUS
<1> HIDE DEF a, n, k, none
<1>3. Reaches(links, none, row, k, x)
  BY <1>1, <1>2, ReachesMore
<1> QED BY <1>3 DEF ChangedBeyond, k, none

(* A row is looked at: what comes of it at a depth, if what is one step    *)
(* further works.                                                          *)
LEMMA CheckedAt ==
  ASSUME NEW links, AreLinks(links), NEW changes, NEW depth \in 0 .. MaxDepth - 1,
         NEW deeper, Works(links, changes, deeper, depth + 1),
         NEW s, Searching(links, changes, s), NEW row \in DOMAIN links, depth = 0 => row \notin changes,
         NEW t, t = check_at(links, changes, deeper, depth, row, s)
  PROVE  Searched(links, changes, s, t, depth, row)
<1> DEFINE linked == check_outgoing_links(links, deeper, depth, row, s)
<1>0. MaxDepth \in Nat \ {0} /\ depth \in Nat /\ depth # MaxDepth /\ (depth > 0 <=> depth # 0)
  BY ONLY MaxDepthAssumption, depth \in 0 .. MaxDepth - 1
<1>1. s \in Checkers(DOMAIN links) /\ ~ s.found /\ Remembers(links, changes, s)
  BY DEF Searching
<1>2. ColumnsLooked(links, changes, s, linked, depth, row, Len(links[row]))
  BY LookEverywhere
<1>3. t = IF depth > 0 /\ row \in changes THEN [s EXCEPT !.found = TRUE]
          ELSE IF row \in s.not_modified THEN s
          ELSE IF ~ linked.found /\ (depth = 0 \/ ~ linked.path[depth - 1].depth_exceeded)
          THEN [linked EXCEPT !.not_modified = @ \cup {row}]
          ELSE linked
  BY <1>0 DEF check_at
<1> HIDE DEF linked
<1>4. CASE depth > 0 /\ row \in changes
  <2>1. t = [s EXCEPT !.found = TRUE]
    BY <1>3, <1>4
  <2>2. t \in Checkers(DOMAIN links) /\ t.found /\ t.not_modified = s.not_modified /\ t.path = s.path
    BY <1>1, <2>1 DEF Checkers
  <2>3. KeepsPath(s, t, depth) /\ Remembers(links, changes, t)
    BY <1>1, <2>2, SamePath DEF Remembers
  <2>4. SomethingFound(links, changes, depth, row)
    <3> DEFINE n == MaxDepth - 1 - depth
    <3>1. n \in Nat
      BY ONLY <1>0, depth \in 0 .. MaxDepth - 1
    <3> HIDE DEF n
    <3>2. Reaches(links, {}, row, n, row)
      BY <3>1, ReachesItself
    <3> QED BY <1>4, <3>2 DEF n, SomethingFound
  <2> QED BY <2>2, <2>3, <2>4 DEF Searched
<1>5. CASE ~ (depth > 0 /\ row \in changes) /\ row \in s.not_modified
  <2>1. t = s
    BY <1>3, <1>5
  <2>2. KeepsPath(s, s, depth)
    BY SamePath
  <2>3. NothingFound(links, changes, s, depth, row)
    BY <1>1, <1>5, RememberedSearched DEF Remembers
  <2> QED BY <1>1, <2>1, <2>2, <2>3 DEF Searched
<1>6. CASE ~ (depth > 0 /\ row \in changes) /\ row \notin s.not_modified
  <2>1. /\ linked \in Checkers(DOMAIN links) /\ Remembers(links, changes, linked)
        /\ KeepsPath(s, linked, depth)
        /\ linked.found => SomethingFound(links, changes, depth, row)
        /\ ~ linked.found => \A col \in 1 .. Len(links[row]) : Nowhere(links, changes, linked, depth, row, col)
    BY <1>2 DEF ColumnsLooked
  <2>2. row \notin changes
    BY <1>0, <1>6
  <2>3. DOMAIN links[row] = 1 .. Len(links[row])
    <3> DEFINE c == links[row]
               S == Seq(DOMAIN links)
    <3>1. c \in Seq(S)
      BY DEF AreLinks
    <3> HIDE DEF c, S
    <3>2. DOMAIN c = 1 .. Len(c)
      BY ONLY <3>1
    <3> QED BY <3>2 DEF c
  <2>4. ~ linked.found => NothingFound(links, changes, linked, depth, row)
    <3> SUFFICES ASSUME ~ linked.found PROVE NothingFound(links, changes, linked, depth, row)
      OBVIOUS
    <3>1. \A col \in DOMAIN links[row] : Nowhere(links, changes, linked, depth, row, col)
      BY <2>1, <2>3
    <3> QED BY ONLY <2>2, <3>1, depth \in 0 .. MaxDepth - 1, row \in DOMAIN links, AllLooked
  <2>5. CASE ~ linked.found /\ (depth = 0 \/ ~ linked.path[depth - 1].depth_exceeded)
    <3>1. t = [linked EXCEPT !.not_modified = @ \cup {row}]
      BY <1>3, <1>6, <2>5
    <3>2. /\ t \in Checkers(DOMAIN links) /\ Remembers(links, changes, t) /\ t.found = linked.found
          /\ t.path = linked.path
      BY ONLY <2>1, <2>4, <2>5, <3>1, depth \in 0 .. MaxDepth - 1, row \in DOMAIN links, RemembersOne
    <3>3. KeepsPath(s, t, depth)
      BY <2>1, <3>2 DEF KeepsPath
    <3>4. NothingFound(links, changes, t, depth, row)
      BY <2>4, <2>5, <3>2 DEF NothingFound, NothingBeyond, FollowedFrom
    <3> QED BY <2>5, <3>2, <3>3, <3>4 DEF Searched
  <2>6. CASE ~ (~ linked.found /\ (depth = 0 \/ ~ linked.path[depth - 1].depth_exceeded))
    <3>1. t = linked
      BY <1>3, <1>6, <2>6
    <3> QED BY <2>1, <2>4, <3>1 DEF Searched
  <2> QED BY <2>5, <2>6
<1> QED BY <1>4, <1>5, <1>6

(* A row that is looked at leaves a checker. *)
LEMMA CheckAtType ==
  ASSUME NEW links, AreLinks(links), NEW changes, NEW depth \in 0 .. MaxDepth,
         NEW deeper \in Searches(links),
         NEW s \in Checkers(DOMAIN links), NEW row \in DOMAIN links
  PROVE  check_at(links, changes, deeper, depth, row, s) \in Checkers(DOMAIN links)
<1> DEFINE linked == check_outgoing_links(links, deeper, depth, row, s)
           t == check_at(links, changes, deeper, depth, row, s)
<1>1. CASE depth = MaxDepth
  <2>1. t = Exceeded(s, 0, MaxDepth)
    BY <1>1 DEF check_at
  <2> HIDE DEF t
  <2>2. t \in Checkers(DOMAIN links)
    BY ONLY <2>1, s \in Checkers(DOMAIN links), ExceededIs
  <2> QED BY <2>2 DEF t
<1>2. CASE depth # MaxDepth
  <2>1. depth \in 0 .. MaxDepth - 1
    BY ONLY <1>2, MaxDepthAssumption, depth \in 0 .. MaxDepth
  <2>2. linked \in Checkers(DOMAIN links)
    BY <2>1, OutgoingLinksType
  <2>3. \/ t = [s EXCEPT !.found = TRUE] \/ t = s \/ t = linked
        \/ t = [linked EXCEPT !.not_modified = @ \cup {row}]
    BY <1>2 DEF check_at
  <2> HIDE DEF t, linked
  <2>4. t \in Checkers(DOMAIN links)
    <3>1. [s EXCEPT !.found = TRUE] \in Checkers(DOMAIN links)
      BY DEF Checkers
    <3>2. [linked EXCEPT !.not_modified = @ \cup {row}] \in Checkers(DOMAIN links)
      BY <2>2 DEF Checkers
    <3> QED BY <2>2, <2>3, <3>1, <3>2
  <2> QED BY <2>4 DEF t
<1> QED BY <1>1, <1>2

(* The searches one step below those of a depth make those of the depth.   *)
SearchAt(links, changes, deeper, depth) ==
  [asked \in (DOMAIN links) \X Checkers(DOMAIN links) |->
     check_at(links, changes, deeper, depth, asked[1], asked[2])]

(* The searches of all depths. *)
IsSearch(g, links, changes) ==
  g = [depth \in 0 .. MaxDepth |-> SearchAt(links, changes, g[depth + 1], depth)]

(* A search of a depth is one. *)
LEMMA SearchAtType ==
  ASSUME NEW links, AreLinks(links), NEW changes, NEW depth \in 0 .. MaxDepth,
         NEW deeper \in Searches(links)
  PROVE  /\ SearchAt(links, changes, deeper, depth) \in Searches(links)
         /\ \A row \in DOMAIN links, s \in Checkers(DOMAIN links) :
              SearchAt(links, changes, deeper, depth)[row, s]
                = check_at(links, changes, deeper, depth, row, s)
<1> DEFINE C == Checkers(DOMAIN links)
           A(row, s) == check_at(links, changes, deeper, depth, row, s)
           g == [p \in (DOMAIN links) \X C |-> A(p[1], p[2])]
<1>1. \A row \in DOMAIN links, s \in C : A(row, s) \in C
  BY CheckAtType
<1> HIDE DEF C, A
<1>2. g \in [(DOMAIN links) \X C -> C]
  BY <1>1
<1>3. \A row \in DOMAIN links, s \in C : g[row, s] = A(row, s)
  OBVIOUS
<1> QED BY <1>2, <1>3 DEF C, A, SearchAt, Searches

(* At the limit of depth nothing is looked up further down. *)
LEMMA SearchAtLimit ==
  ASSUME NEW links, NEW changes, NEW deeper, NEW other
  PROVE  SearchAt(links, changes, deeper, MaxDepth) = SearchAt(links, changes, other, MaxDepth)
<1>1. ASSUME NEW row, NEW s
      PROVE  check_at(links, changes, deeper, MaxDepth, row, s)
               = check_at(links, changes, other, MaxDepth, row, s)
  BY DEF check_at
<1> QED BY <1>1 DEF SearchAt

(* The searches of all depths are there: check_row takes them with CHOOSE. *)
LEMMA SearchIsThere ==
  ASSUME NEW links, AreLinks(links), NEW changes
  PROVE  \E g : IsSearch(g, links, changes)
<1> DEFINE D == 0 .. MaxDepth
           V == Searches(links)
           C == Checkers(DOMAIN links)
           none == [p \in (DOMAIN links) \X C |-> p[2]]
           size == [d \in D |-> MaxDepth - d]
           hasLeft == [d \in D |-> d < MaxDepth]
           hasRight == [d \in D |-> FALSE]
           left == [d \in D |-> d + 1]
           n == MaxDepth + 1
           F == [p \in D \X V \X V |-> SearchAt(links, changes, p[2], p[1])]
<1>0. MaxDepth \in Nat \ {0}
  BY MaxDepthAssumption
<1>1. none \in V
  <2> HIDE DEF C
  <2>1. none \in [(DOMAIN links) \X C -> C]
    OBVIOUS
  <2> QED BY <2>1 DEF C, Searches
<1>2. /\ size \in [D -> Nat] /\ n \in Nat /\ \A d \in D : size[d] < n
      /\ hasLeft \in [D -> BOOLEAN] /\ hasRight \in [D -> BOOLEAN]
  BY <1>0
<1>3. GoesDown(D, size, hasLeft, left) /\ GoesDown(D, size, hasRight, left)
  <2>1. ASSUME NEW d \in D, hasLeft[d] PROVE left[d] \in D /\ size[left[d]] < size[d]
    <3>1. d < MaxDepth
      BY <2>1
    <3>2. d + 1 \in D /\ MaxDepth - (d + 1) < MaxDepth - d
      BY ONLY <1>0, <3>1, d \in D
    <3>3. left[d] = d + 1 /\ size[d] = MaxDepth - d
      OBVIOUS
    <3>4. size[d + 1] = MaxDepth - (d + 1)
      BY <3>2
    <3> QED BY <3>2, <3>3, <3>4
  <2>2. \A d \in D : ~ hasRight[d]
    OBVIOUS
  <2> HIDE DEF D, size, hasLeft, hasRight, left
  <2> QED BY <2>1, <2>2 DEF GoesDown
<1>4. F \in [D \X V \X V -> V]
  <2>1. ASSUME NEW d \in D, NEW l \in V PROVE SearchAt(links, changes, l, d) \in V
    BY SearchAtType
  <2> HIDE DEF D, V
  <2> QED BY <2>1
<1> HIDE DEF D, V, none, size, hasLeft, hasRight, left, n, F
<1>5. Solvable(D, V, none, hasLeft, hasRight, left, left, F)
  BY ONLY <1>1, <1>2, <1>3, <1>4, RecursionIsThere
<1>6. PICK g \in [D -> V] : Solves(g, D, none, hasLeft, hasRight, left, left, F)
  BY <1>5 DEF Solvable
<1>7. ASSUME NEW d \in D PROVE g[d] = SearchAt(links, changes, g[d + 1], d)
  <2> DEFINE l == IF hasLeft[d] THEN g[left[d]] ELSE none
             r == IF hasRight[d] THEN g[left[d]] ELSE none
  <2>1. g[d] = F[<<d, l, r>>]
    BY <1>6 DEF Solves
  <2>2. l \in V /\ r \in V
    <3>1. hasLeft[d] => left[d] \in D
      BY <1>3 DEF GoesDown
    <3>2. ~ hasRight[d]
      BY DEF hasRight
    <3> QED BY <1>1, <1>6, <3>1, <3>2
  <2>3. g[d] = SearchAt(links, changes, l, d)
    <3> HIDE DEF l, r
    <3>1. F[<<d, l, r>>] = SearchAt(links, changes, l, d)
      BY <2>2 DEF F
    <3> QED BY <2>1, <3>1
  <2>4. CASE d < MaxDepth
    <3>1. l = g[d + 1]
      BY <2>4 DEF hasLeft, left
    <3> QED BY <2>3, <3>1
  <2>5. CASE ~ (d < MaxDepth)
    <3>1. d = MaxDepth
      BY <1>0, <2>5 DEF D
    <3> HIDE DEF l
    <3> QED BY <2>3, <3>1, SearchAtLimit
  <2> QED BY <2>4, <2>5
<1>8. g = [d \in D |-> SearchAt(links, changes, g[d + 1], d)]
  BY <1>6, <1>7
<1>9. IsSearch(g, links, changes)
  BY <1>8 DEF IsSearch, D
<1> QED BY <1>9

(* The search of every depth works. *)
LEMMA SearchWorks ==
  ASSUME NEW links, AreLinks(links), NEW changes, NEW g, IsSearch(g, links, changes)
  PROVE  Works(links, changes, g[0], 0)
<1>0. MaxDepth \in Nat \ {0}
  BY MaxDepthAssumption
<1>1. \A depth \in 0 .. MaxDepth : g[depth] = SearchAt(links, changes, g[depth + 1], depth)
  BY DEF IsSearch
<1> DEFINE T == {k \in Nat : k <= MaxDepth => Works(links, changes, g[MaxDepth - k], MaxDepth - k)}
<1>2. 0 \in T
  <2> DEFINE any == [p \in (DOMAIN links) \X Checkers(DOMAIN links) |-> p[2]]
  <2>1. any \in Searches(links)
    <3> DEFINE C == Checkers(DOMAIN links)
    <3> HIDE DEF C
    <3>1. [p \in (DOMAIN links) \X C |-> p[2]] \in [(DOMAIN links) \X C -> C]
      OBVIOUS
    <3> QED BY <3>1 DEF C, Searches
  <2> HIDE DEF any
  <2>2. MaxDepth \in 0 .. MaxDepth
    BY ONLY <1>0
  <2>3. g[MaxDepth] = SearchAt(links, changes, any, MaxDepth)
    BY <1>1, <2>2, SearchAtLimit
  <2>4. /\ g[MaxDepth] \in Searches(links)
        /\ \A row \in DOMAIN links, s \in Checkers(DOMAIN links) :
             g[MaxDepth][row, s] = check_at(links, changes, any, MaxDepth, row, s)
    <3> DEFINE f == SearchAt(links, changes, any, MaxDepth)
    <3>1. /\ f \in Searches(links)
          /\ \A row \in DOMAIN links, s \in Checkers(DOMAIN links) :
               f[row, s] = check_at(links, changes, any, MaxDepth, row, s)
      BY <2>1, <2>2, SearchAtType
    <3>2. g[MaxDepth] = f
      BY <2>3
    <3> HIDE DEF f
    <3> QED BY ONLY <3>1, <3>2
  <2>5. ASSUME NEW row \in DOMAIN links, NEW s \in Checkers(DOMAIN links), Searching(links, changes, s)
        PROVE  Searched(links, changes, s, g[MaxDepth][row, s], MaxDepth, row)
    <3>1. g[MaxDepth][row, s] = Exceeded(s, 0, MaxDepth)
      BY <2>4 DEF check_at
    <3> QED BY <2>5, <3>1, LimitSearched
  <2>6. Works(links, changes, g[MaxDepth], MaxDepth)
    BY <2>4, <2>5 DEF Works
  <2>7. MaxDepth - 0 = MaxDepth
    BY ONLY <1>0
  <2> QED BY <2>6, <2>7
<1>3. ASSUME NEW k \in Nat, k \in T PROVE k + 1 \in T
  <2> SUFFICES ASSUME k + 1 <= MaxDepth
               PROVE  Works(links, changes, g[MaxDepth - (k + 1)], MaxDepth - (k + 1))
    OBVIOUS
  <2> DEFINE depth == MaxDepth - (k + 1)
             deeper == g[MaxDepth - k]
  <2>1. depth \in 0 .. MaxDepth - 1 /\ depth \in 0 .. MaxDepth /\ depth + 1 = MaxDepth - k /\ k <= MaxDepth
    BY ONLY <1>0, k \in Nat, k + 1 <= MaxDepth
  <2>2. Works(links, changes, deeper, depth + 1)
    BY <1>3, <2>1
  <2>3. g[depth] = SearchAt(links, changes, deeper, depth)
    BY <1>1, <2>1
  <2> HIDE DEF depth, deeper, T
  <2>4. deeper \in Searches(links)
    BY <2>2 DEF Works
  <2>5. /\ g[depth] \in Searches(links)
        /\ \A row \in DOMAIN links, s \in Checkers(DOMAIN links) :
             g[depth][row, s] = check_at(links, changes, deeper, depth, row, s)
    <3> DEFINE f == SearchAt(links, changes, deeper, depth)
    <3>1. /\ f \in Searches(links)
          /\ \A row \in DOMAIN links, s \in Checkers(DOMAIN links) :
               f[row, s] = check_at(links, changes, deeper, depth, row, s)
      BY <2>1, <2>4, SearchAtType
    <3>2. g[depth] = f
      BY <2>3
    <3> HIDE DEF f
    <3> QED BY ONLY <3>1, <3>2
  <2>6. ASSUME NEW row \in DOMAIN links, NEW s \in Checkers(DOMAIN links), depth = 0 => row \notin changes,
               Searching(links, changes, s)
        PROVE  Searched(links, changes, s, g[depth][row, s], depth, row)
    <3>1. g[depth][row, s] = check_at(links, changes, deeper, depth, row, s)
      BY <2>5
    <3> QED BY <2>1, <2>2, <2>6, <3>1, CheckedAt
  <2>7. Works(links, changes, g[depth], depth)
    BY <2>5, <2>6 DEF Works
  <2> QED BY <2>7 DEF depth
<1>4. MaxDepth \in T
  <2>1. Nat \subseteq T
    <3> HIDE DEF T
    <3> QED BY <1>2, <1>3, Induction
  <2> QED BY <1>0, <2>1
<1>5. MaxDepth - MaxDepth = 0 /\ MaxDepth <= MaxDepth
  BY ONLY <1>0
<1> QED BY <1>4, <1>5

(* The search from a row is such a search. *)
SearchesFrom(search, links, changes) ==
  /\ Works(links, changes, search, 0)
  /\ \A s, row : check_row(links, changes, s, row) = search[row, s]

(* What check_row comes to. *)
LEMMA RowSearched ==
  ASSUME NEW links, AreLinks(links), NEW changes
  PROVE  \E search : SearchesFrom(search, links, changes)
<1> DEFINE Right(g) == g = [depth \in 0 .. MaxDepth |->
                              [asked \in (DOMAIN links) \X Checkers(DOMAIN links) |->
                                 check_at(links, changes, g[depth + 1], depth, asked[1], asked[2])]]
           check == CHOOSE g : Right(g)
<1>1. \A g : Right(g) <=> IsSearch(g, links, changes)
  BY DEF IsSearch, SearchAt
<1>2. \A s, row : check_row(links, changes, s, row) = check[0][row, s]
  BY DEF check_row
<1>3. IsSearch(check, links, changes)
  <2>1. \E g : Right(g)
    <3> HIDE DEF Right
    <3> QED BY <1>1, SearchIsThere
  <2> HIDE DEF Right
  <2>2. Right(check)
    BY <2>1
  <2> QED BY <1>1, <2>2
<1> HIDE DEF check, Right
<1>4. Works(links, changes, check[0], 0)
  BY <1>3, SearchWorks
<1> QED BY <1>2, <1>4 DEF SearchesFrom

(* The search from a row leaves a checker. *)
LEMMA CheckRowType ==
  ASSUME NEW links, AreLinks(links), NEW changes, NEW s \in Checkers(DOMAIN links),
         NEW row \in DOMAIN links
  PROVE  check_row(links, changes, s, row) \in Checkers(DOMAIN links)
<1>1. PICK search : SearchesFrom(search, links, changes)
  BY RowSearched
<1>2. search \in Searches(links)
  BY <1>1 DEF Works, SearchesFrom
<1> QED BY <1>1, <1>2 DEF Searches, SearchesFrom

(* A row is found to have changed exactly if one beyond it has. *)
LEMMA CheckRowIs ==
  ASSUME NEW links, AreLinks(links), NEW changes, NEW s, Searching(links, changes, s),
         NEW row \in DOMAIN links, row \notin changes,
         NEW t, t = check_row(links, changes, s, row)
  PROVE  /\ t \in Checkers(DOMAIN links) /\ Remembers(links, changes, t)
         /\ t.found <=> ChangedBeyond(links, changes, row)
<1>0. MaxDepth \in Nat \ {0}
  BY MaxDepthAssumption
<1>1. PICK search : SearchesFrom(search, links, changes)
  BY RowSearched
<1>2. t = search[row, s] /\ s \in Checkers(DOMAIN links)
  BY <1>1 DEF Searching, SearchesFrom
<1>3. Searched(links, changes, s, t, 0, row)
  BY <1>1, <1>2 DEF Works, SearchesFrom
<1>4. t \in Checkers(DOMAIN links) /\ Remembers(links, changes, t)
  BY <1>3 DEF Searched
<1>5. MaxDepth - 1 - 0 = MaxDepth - 1 /\ 0 \in 0 .. 0 /\ 0 .. 0 - 1 = {}
  BY ONLY <1>0
<1>6. ASSUME t.found PROVE ChangedBeyond(links, changes, row)
  <2>1. SomethingFound(links, changes, 0, row)
    BY <1>3, <1>6 DEF Searched
  <2> QED BY <1>5, <2>1 DEF SomethingFound, ChangedBeyond
<1>7. ASSUME ~ t.found PROVE ~ ChangedBeyond(links, changes, row)
  <2>1. NothingBeyond(links, changes, t, 0, 0, row)
    BY <1>3, <1>5, <1>7 DEF Searched, NothingFound
  <2>2. FollowedFrom(t, 0, 0) = {} /\ Deep(0, 0) = MaxDepth - 1
    BY <1>5 DEF FollowedFrom, Deep
  <2> QED BY <2>1, <2>2 DEF NothingBeyond, ChangedBeyond
<1> QED BY <1>4, <1>6, <1>7

(* What the modification checker knows between two rows it is asked for,   *)
(* and what it has answered for the rows before.                           *)
Asked(Rows) == [checker : Checkers(Rows), changed : SUBSET Rows]

(* The rows asked for so far are answered for rightly. *)
Answers(links, changes, s, rows) ==
  /\ s \in Asked(DOMAIN links)
  /\ Remembers(links, changes, s.checker)
  /\ s.changed = {r \in rows : ChangedBeyond(links, changes, r)}

(* At first nothing is known. *)
LEMMA UnknownRemembers ==
  ASSUME NEW links, NEW changes
  PROVE  /\ [checker |-> Unknown, changed |-> {}] \in Asked(DOMAIN links)
         /\ Answers(links, changes, [checker |-> Unknown, changed |-> {}], {})
<1> DEFINE p == [row |-> 0, col |-> 0, depth_exceeded |-> FALSE]
           R == DOMAIN links
           Steps == [row : R \cup {0}, col : Nat, depth_exceeded : BOOLEAN]
<1>1. p \in Steps
  OBVIOUS
<1> HIDE DEF p, R, Steps
<1>2. [depth \in Path |-> p] \in [Path -> Steps]
  BY <1>1
<1>3. Unknown \in Checkers(R) /\ Unknown.not_modified = {}
  BY <1>2 DEF Unknown, Checkers, p, Steps
<1> DEFINE s == [checker |-> Unknown, changed |-> {}]
<1>4. s \in Asked(R) /\ s.checker = Unknown /\ s.changed = {}
  BY <1>3 DEF Asked
<1> HIDE DEF s
<1>5. Remembers(links, changes, s.checker)
  BY <1>3, <1>4 DEF Remembers
<1> QED BY <1>4, <1>5 DEF Answers, R, s

(* A row asked for leaves a checker. *)
LEMMA AskType ==
  ASSUME NEW links, AreLinks(links), NEW changes, NEW s \in Asked(DOMAIN links), NEW row \in DOMAIN links
  PROVE  Ask(links, changes, s, row) \in Asked(DOMAIN links)
<1> DEFINE R == DOMAIN links
           C == Checkers(R)
           fresh == [s.checker EXCEPT !.found = FALSE]
           checked == IF row \in changes THEN [s.checker EXCEPT !.found = TRUE]
                      ELSE check_row(links, changes, fresh, row)
<1>1. s.checker \in C /\ s.changed \in SUBSET R
  BY DEF Asked
<1>2. fresh \in C /\ [s.checker EXCEPT !.found = TRUE] \in C
  BY <1>1 DEF Checkers
<1> HIDE DEF fresh
<1>3. check_row(links, changes, fresh, row) \in C
  BY <1>2, CheckRowType
<1>4. checked \in C
  BY <1>2, <1>3
<1>5. Ask(links, changes, s, row)
        = [ checker |-> checked,
            changed |-> IF checked.found THEN s.changed \cup {row} ELSE s.changed ]
  BY DEF Ask, fresh
<1> HIDE DEF checked, C
<1> QED BY <1>1, <1>4, <1>5 DEF Asked, C

(* One row more is asked for. *)
LEMMA AskOne ==
  ASSUME NEW links, AreLinks(links), NEW changes, NEW s, NEW rows, Answers(links, changes, s, rows),
         NEW row \in DOMAIN links
  PROVE  Answers(links, changes, Ask(links, changes, s, row), rows \cup {row})
<1> DEFINE R == DOMAIN links
           C == Checkers(R)
           fresh == [s.checker EXCEPT !.found = FALSE]
           checked == IF row \in changes THEN [s.checker EXCEPT !.found = TRUE]
                      ELSE check_row(links, changes, fresh, row)
           t == Ask(links, changes, s, row)
<1>1. /\ s \in Asked(R) /\ Remembers(links, changes, s.checker)
      /\ s.changed = {r \in rows : ChangedBeyond(links, changes, r)}
      /\ s.checker \in C
  BY DEF Answers, Asked
<1>2. t \in Asked(R)
  BY <1>1, AskType
<1>3. t.checker = checked /\ t.changed = IF checked.found THEN s.changed \cup {row} ELSE s.changed
  BY DEF Ask
<1> HIDE DEF t, checked
<1>4. Remembers(links, changes, checked) /\ (checked.found <=> ChangedBeyond(links, changes, row))
  <2>1. CASE row \in changes
    <3>1. checked = [s.checker EXCEPT !.found = TRUE]
      BY <2>1 DEF checked
    <3>2. checked.found /\ checked.not_modified = s.checker.not_modified
      BY <1>1, <3>1 DEF Checkers
    <3>3. ChangedBeyond(links, changes, row)
      <4> DEFINE n == MaxDepth - 1
                 none == {}
      <4>1. n \in Nat
        BY ONLY MaxDepthAssumption
      <4> HIDE DEF n, none
      <4>2. Reaches(links, none, row, n, row)
        BY <4>1, ReachesItself
      <4> QED BY <2>1, <4>2 DEF ChangedBeyond, n, none
    <3> QED BY <1>1, <3>2, <3>3 DEF Remembers
  <2>2. CASE row \notin changes
    <3>1. checked = check_row(links, changes, fresh, row)
      BY <2>2 DEF checked
    <3>2. fresh \in C /\ ~ fresh.found /\ fresh.not_modified = s.checker.not_modified
      BY <1>1 DEF Checkers
    <3> HIDE DEF fresh
    <3>3. Searching(links, changes, fresh)
      BY <1>1, <3>2 DEF Searching, Remembers
    <3> QED BY <2>2, <3>1, <3>3, CheckRowIs
  <2> QED BY <2>1, <2>2
<1>5. t.changed = {r \in rows \cup {row} : ChangedBeyond(links, changes, r)}
  BY <1>1, <1>3, <1>4
<1> QED BY <1>2, <1>3, <1>4, <1>5 DEF Answers, t

(* The rows asked for, one by one. *)
AskedInOrder(h, links, changes, rows) ==
  /\ h[0] = [checker |-> Unknown, changed |-> {}]
  /\ \A k \in 1 .. Len(rows) : h[k] = Ask(links, changes, h[k - 1], rows[k])
  /\ LET One(s, row) == Ask(links, changes, s, row)
     IN  FoldLeft(One, [checker |-> Unknown, changed |-> {}], rows) = h[Len(rows)]

(* The rows are asked for in order. *)
LEMMA RowsOneByOne ==
  ASSUME NEW links, AreLinks(links), NEW changes, NEW rows \in Seq(DOMAIN links)
  PROVE  \E h : AskedInOrder(h, links, changes, rows)
<1> DEFINE z == Len(rows)
           A == Asked(DOMAIN links)
           base == [checker |-> Unknown, changed |-> {}]
           One(s, row) == Ask(links, changes, s, row)
           Folds(g) == g = [s \in SUBSET DOMAIN rows |->
                             IF s = {} THEN base ELSE One(g[s \ {Max(s)}], rows[Max(s)])]
           F == [p \in A \X (1 .. z) |-> One(p[1], rows[p[2]])]
<1>0. z \in Nat /\ DOMAIN rows = 1 .. z
  OBVIOUS
<1>1. base \in A
  BY UnknownRemembers
<1> HIDE DEF base
<1>2. F \in [A \X (1 .. z) -> A]
  <2>1. ASSUME NEW d \in A, NEW k \in 1 .. z PROVE One(d, rows[k]) \in A
    <3>1. rows[k] \in DOMAIN links
      BY <1>0, ElementOfSeq
    <3> QED BY <3>1, AskType
  <2> HIDE DEF One, z, A
  <2> QED BY <2>1
<1>3. \E g : Folds(g)
  <2> HIDE DEF One, z, A
  <2>1. PICK g \in [SUBSET (1 .. z) -> A] : Folded(g, z, base, F)
    <3> HIDE DEF F
    <3> QED BY <1>0, <1>1, <1>2, FoldIsThere
  <2>2. ASSUME NEW s \in SUBSET (1 .. z), s # {}
        PROVE  F[<<g[s \ {Max(s)}], Max(s)>>] = One(g[s \ {Max(s)}], rows[Max(s)])
    <3>1. Max(s) \in 1 .. z
      BY <1>0, <2>2, LastOfInitial
    <3>2. g[s \ {Max(s)}] \in A
      BY <2>1
    <3> QED BY <3>1, <3>2
  <2>3. g = [s \in SUBSET (1 .. z) |->
               IF s = {} THEN base ELSE One(g[s \ {Max(s)}], rows[Max(s)])]
    <3> HIDE DEF F
    <3> QED BY <2>1, <2>2 DEF Folded
  <2> QED BY <1>0, <2>3
<1> DEFINE f == CHOOSE g : Folds(g)
           h == [k \in 0 .. z |-> f[1 .. k]]
<1>4. FoldLeft(One, base, rows) = f[DOMAIN rows]
  BY DEF FoldLeft, MapThenFoldSet
<1>5. Folds(f)
  <2> HIDE DEF Folds
  <2> QED BY <1>3
<1> HIDE DEF f, z
<1>6. f[{}] = base
  BY <1>5
<1>7. \A k \in 1 .. z : f[1 .. k] = Ask(links, changes, f[1 .. k - 1], rows[k])
  <2> TAKE k \in 1 .. z
  <2>1. k \in Nat \ {0} /\ 1 .. k \in SUBSET DOMAIN rows
    BY <1>0
  <2>2. 1 .. k # {} /\ Max(1 .. k) = k /\ (1 .. k) \ {k} = 1 .. k - 1
    BY <2>1, InitialSegments
  <2> QED BY <1>5, <2>1, <2>2
<1>8. h[0] = base
  BY <1>0, <1>6
<1>9. \A k \in 1 .. z : h[k] = Ask(links, changes, h[k - 1], rows[k])
  BY <1>0, <1>7
<1>10. FoldLeft(One, base, rows) = h[z]
  <2>1. z \in 0 .. z /\ h[z] = f[1 .. z]
    BY <1>0
  <2> HIDE DEF h, One
  <2> QED BY <1>0, <1>4, <2>1
<1>11. AskedInOrder(h, links, changes, rows)
  <2> HIDE DEF h
  <2> QED BY ONLY <1>8, <1>9, <1>10 DEF AskedInOrder, z, base
<1> QED BY <1>11

(* The modification checker finds exactly the rows that have changed, or   *)
(* that link within MaxDepth - 1 links to a row that has: what it          *)
(* remembers from row to row, and where it has cut the search short, makes *)
(* no difference. [collection_notifier.cpp:30-53, 90-161]                  *)
THEOREM RowDidChangeIsExact ==
  ASSUME NEW links, AreLinks(links), NEW changes, NEW rows \in Seq(DOMAIN links)
  PROVE  row_did_change(links, changes, rows) = {r \in ToSet(rows) : HasChanged(links, changes, r)}
<1> DEFINE z == Len(rows)
           Done(k) == {rows[i] : i \in 1 .. k}
<1>0. z \in Nat /\ DOMAIN rows = 1 .. z /\ \A i \in 1 .. z : rows[i] \in DOMAIN links
  BY ElementOfSeq
<1>1. ToSet(rows) = Done(z) /\ ToSet(rows) \subseteq DOMAIN links
  BY <1>0 DEF ToSet
<1>2. \A r \in ToSet(rows) : HasChanged(links, changes, r) <=> ChangedBeyond(links, changes, r)
  BY <1>1, HasChangedIs
<1>3. CASE changes = {}
  <2>1. row_did_change(links, changes, rows) = {}
    BY <1>3 DEF row_did_change
  <2> QED BY <1>2, <1>3, <2>1 DEF ChangedBeyond
<1>4. CASE changes # {}
  <2>1. PICK h : AskedInOrder(h, links, changes, rows)
    BY RowsOneByOne
  <2>2. /\ h[0] = [checker |-> Unknown, changed |-> {}]
        /\ \A k \in 1 .. z : h[k] = Ask(links, changes, h[k - 1], rows[k])
        /\ row_did_change(links, changes, rows) = h[z].changed
    BY <1>4, <2>1 DEF AskedInOrder, row_did_change
  <2> HIDE DEF z, Done
  <2> DEFINE T == {k \in Nat : k <= z => Answers(links, changes, h[k], Done(k))}
  <2>3. 0 \in T
    <3>1. Done(0) = {}
      BY DEF Done
    <3> QED BY <2>2, <3>1, UnknownRemembers
  <2>4. ASSUME NEW k \in Nat, k \in T PROVE k + 1 \in T
    <3> SUFFICES ASSUME k + 1 <= z PROVE Answers(links, changes, h[k + 1], Done(k + 1))
      OBVIOUS
    <3>1. k <= z /\ k + 1 \in 1 .. z /\ (k + 1) - 1 = k
      BY ONLY <1>0, k + 1 <= z, k \in Nat
    <3>2. Answers(links, changes, h[k], Done(k))
      BY <2>4, <3>1
    <3>3. h[k + 1] = Ask(links, changes, h[k], rows[k + 1])
      BY <2>2, <3>1
    <3>4. Done(k + 1) = Done(k) \cup {rows[k + 1]}
      <4>1. \A i \in 1 .. k + 1 : i = k + 1 \/ i \in 1 .. k
        BY ONLY k \in Nat
      <4>2. \A i \in 1 .. k : i \in 1 .. k + 1
        BY ONLY k \in Nat
      <4>3. k + 1 \in 1 .. k + 1
        BY ONLY k \in Nat
      <4> QED BY <4>1, <4>2, <4>3 DEF Done
    <3>5. rows[k + 1] \in DOMAIN links
      BY <1>0, <3>1
    <3> HIDE DEF T
    <3> QED BY <3>2, <3>3, <3>4, <3>5, AskOne
  <2>5. Nat \subseteq T
    <3> HIDE DEF T
    <3> QED BY <2>3, <2>4, Induction
  <2>6. Answers(links, changes, h[z], Done(z))
    BY <1>0, <2>5
  <2>7. h[z].changed = {r \in ToSet(rows) : ChangedBeyond(links, changes, r)}
    BY <1>1, <2>6 DEF Answers
  <2> QED BY <1>2, <2>2, <2>7
<1> QED BY <1>3, <1>4
=============================================================================
