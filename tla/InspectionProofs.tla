-------------------------- MODULE InspectionProofs --------------------------
(***************************************************************************)
(* Proofs about Inspection: a walk through a view reads every matching     *)
(* item once and in order, a walk through a changing ledger misses no      *)
(* entry that stays, a page says truly whether it is the last, and a       *)
(* cursor keeps to its own walk and moves forward.                         *)
(***************************************************************************)
EXTENDS Inspection, FiniteSetTheorems, FunctionTheorems, WellFoundedInduction, TLAPS

-----------------------------------------------------------------------------
(***************************************************************************)
(* Numbers in order.                                                       *)
(***************************************************************************)

\* A set of naturals that is not empty has a least element.
LEMMA LeastNumber ==
    ASSUME NEW T, T \subseteq Nat, T # {}
    PROVE  \E x \in T : \A y \in T : x <= y
<1> DEFINE R == {ss \in Nat \X Nat : ss[1] < ss[2]}
<1>1. IsWellFoundedOn(R, Nat)
  BY NatLessThanWellFounded DEF OpToRel
<1> HIDE DEF R
<1>2. \E x \in T : \A y \in T : ~(<<y, x>> \in R)
  BY <1>1, WFMin
<1>3. PICK x \in T : \A y \in T : ~(<<y, x>> \in R)
  BY <1>2
<1>4. \A y \in T : ~(y < x)
  <2>1. TAKE y \in T
  <2>2. <<y, x>> \notin R /\ y \in Nat /\ x \in Nat
    BY <1>3
  <2> QED
    BY <2>2 DEF R
<1>5. \A y \in T : x <= y
  BY <1>4
<1> QED
  BY <1>5

\* up[x] are the elements of S that come before x in some order.
Ranks(S, up) ==
    /\ up \in [S -> SUBSET S]
    /\ \A x \in S : x \notin up[x]
    /\ \A x, y \in S : x \in up[y] => up[x] \subseteq up[y]
    /\ \A x, y \in S : x = y \/ x \in up[y] \/ y \in up[x]

\* The number of elements before x is less than that before every later one, and
\* less than the size of the set.
LEMMA RanksRise ==
    ASSUME NEW S, IsFiniteSet(S), NEW up, Ranks(S, up)
    PROVE  /\ Cardinality(S) \in Nat
           /\ \A x \in S : Cardinality(up[x]) \in 0 .. Cardinality(S) - 1
           /\ \A x, y \in S : x \in up[y] => Cardinality(up[x]) < Cardinality(up[y])
<1>1. Cardinality(S) \in Nat
  BY FS_CardinalityType
<1>2. \A x \in S : IsFiniteSet(up[x]) /\ Cardinality(up[x]) \in Nat
  BY FS_Subset, FS_CardinalityType DEF Ranks
<1>3. ASSUME NEW x \in S
      PROVE  Cardinality(up[x]) \in 0 .. Cardinality(S) - 1
  <2>1. up[x] \in SUBSET S /\ up[x] # S
    BY DEF Ranks
  <2>2. Cardinality(up[x]) <= Cardinality(S) /\ Cardinality(up[x]) # Cardinality(S)
    BY <2>1, FS_Subset, Zenon
  <2> QED
    BY <1>1, <1>2, <2>2
<1>4. ASSUME NEW x \in S, NEW y \in S, x \in up[y]
      PROVE  Cardinality(up[x]) < Cardinality(up[y])
  <2>1. up[x] \in SUBSET up[y] /\ up[x] # up[y]
    BY <1>4 DEF Ranks
  <2>2. Cardinality(up[x]) <= Cardinality(up[y]) /\ Cardinality(up[x]) # Cardinality(up[y])
    BY <1>2, <2>1, FS_Subset, Zenon
  <2> QED
    BY <1>2, <2>2
<1> QED
  BY <1>1, <1>3, <1>4

\* Every rank below the size of the set is taken.
LEMMA EveryRankIsTaken ==
    ASSUME NEW S, IsFiniteSet(S), NEW up, Ranks(S, up), NEW n \in 0 .. Cardinality(S) - 1
    PROVE  \E x \in S : Cardinality(up[x]) = n
<1> DEFINE r == [x \in S |-> Cardinality(up[x])]
           T == {r[x] : x \in S}
           D == 0 .. Cardinality(S) - 1
<1>0. /\ Cardinality(S) \in Nat
      /\ \A x \in S : Cardinality(up[x]) \in D
      /\ \A x, y \in S : x \in up[y] => Cardinality(up[x]) < Cardinality(up[y])
  BY RanksRise
<1>1. IsFiniteSet(D) /\ Cardinality(D) = Cardinality(S)
  BY <1>0, FS_Interval
<1>2. T \in SUBSET D
  BY <1>0
<1>3. r \in Bijection(S, T)
  <2>1. \A x, y \in S : r[x] = r[y] => x = y
    <3>1. ASSUME NEW x \in S, NEW y \in S, x # y
          PROVE  r[x] # r[y]
      <4>1. x \in up[y] \/ y \in up[x]
        BY <3>1 DEF Ranks
      <4>2. Cardinality(up[x]) \in Int /\ Cardinality(up[y]) \in Int
        BY <1>0
      <4> QED
        BY <1>0, <4>1, <4>2
    <3> QED
      BY <3>1
  <2>2. r \in [S -> T]
    OBVIOUS
  <2>3. \A t \in T : \E x \in S : r[x] = t
    OBVIOUS
  <2> HIDE DEF r, T
  <2> QED
    BY <2>1, <2>2, <2>3 DEF Bijection, Injection, Surjection, IsInjective
<1>4. Cardinality(T) = Cardinality(S)
  BY <1>3, FS_Bijection DEF ExistsBijection
<1>5. T = D
  BY <1>1, <1>2, <1>4, FS_Subset, Zenon
<1> QED
  BY <1>5

\* f[n] has n - 1 elements before it, if any element does.
NamesEachRank(S, up, f) ==
    \A n \in 1 .. Cardinality(S) :
        (\E x \in S : Cardinality(up[x]) = n - 1)
          => f[n] \in S /\ Cardinality(up[f[n]]) = n - 1

\* Such a list has each element, behind those before it.
LEMMA ListedByRank ==
    ASSUME NEW S, IsFiniteSet(S), NEW up, Ranks(S, up), NEW f, NamesEachRank(S, up, f)
    PROVE  /\ \A n \in 1 .. Cardinality(S) : f[n] \in S /\ Cardinality(up[f[n]]) = n - 1
           /\ \A x \in S : \E n \in 1 .. Cardinality(S) : f[n] = x
           /\ \A m, n \in 1 .. Cardinality(S) : m < n => f[m] \in up[f[n]]
<1>1. /\ Cardinality(S) \in Nat
      /\ \A x \in S : Cardinality(up[x]) \in 0 .. Cardinality(S) - 1
      /\ \A x, y \in S : x \in up[y] => Cardinality(up[x]) < Cardinality(up[y])
  BY RanksRise
<1>2. \A n \in 1 .. Cardinality(S) : f[n] \in S /\ Cardinality(up[f[n]]) = n - 1
  <2>1. TAKE n \in 1 .. Cardinality(S)
  <2>2. n - 1 \in 0 .. Cardinality(S) - 1
    BY <1>1
  <2>3. \E x \in S : Cardinality(up[x]) = n - 1
    BY <2>2, EveryRankIsTaken
  <2> QED
    BY <2>3 DEF NamesEachRank
<1>4. ASSUME NEW x \in S
      PROVE  \E n \in 1 .. Cardinality(S) : f[n] = x
  <2>1. Cardinality(up[x]) + 1 \in 1 .. Cardinality(S)
    BY <1>1
  <2>2. PICK n \in 1 .. Cardinality(S) : n = Cardinality(up[x]) + 1
    BY <2>1
  <2>3. Cardinality(up[f[n]]) = Cardinality(up[x])
    BY <1>1, <1>2, <2>2
  <2>4. PICK y \in S : y = f[n]
    BY <1>2
  <2>5. x \notin up[y] /\ y \notin up[x]
    BY <1>1, <2>3, <2>4
  <2>6. x = y
    BY <2>5 DEF Ranks
  <2> QED
    BY <2>4, <2>6
<1>5. ASSUME NEW m \in 1 .. Cardinality(S), NEW n \in 1 .. Cardinality(S), m < n
      PROVE  f[m] \in up[f[n]]
  <2>1. PICK x \in S, y \in S : x = f[m] /\ y = f[n]
    BY <1>2
  <2>2. Cardinality(up[x]) < Cardinality(up[y]) /\ Cardinality(up[x]) \in Int
        /\ Cardinality(up[y]) \in Int
    BY <1>1, <1>2, <1>5, <2>1
  <2>3. y \notin up[x] /\ y # x
    BY <1>1, <2>2
  <2>4. x \in up[y]
    BY <2>3 DEF Ranks
  <2> QED
    BY <2>1, <2>4
<1> QED
  BY <1>2, <1>4, <1>5

\* How many elements of S lie below x.
Rank(S, x) == Cardinality({y \in S : y < x})

\* InOrder lists the set: once each, and in ascending order.
LEMMA InOrderLists ==
    ASSUME NEW S, S \subseteq Int, IsFiniteSet(S)
    PROVE  /\ InOrder(S) \in [1 .. Cardinality(S) -> S]
           /\ \A n \in 1 .. Cardinality(S) : Rank(S, InOrder(S)[n]) = n - 1
           /\ \A x \in S : \E n \in 1 .. Cardinality(S) : InOrder(S)[n] = x
           /\ \A m, n \in 1 .. Cardinality(S) : m < n => InOrder(S)[m] < InOrder(S)[n]
           /\ \A x, y \in S : x < y => Rank(S, x) < Rank(S, y)
<1> DEFINE up == [x \in S |-> {y \in S : y < x}]
<1>1. \A x \in S : up[x] = {y \in S : y < x} /\ Cardinality(up[x]) = Rank(S, x)
  BY DEF Rank
<1>2. \A x, y \in S : x \in up[y] <=> x < y
  OBVIOUS
<1>3. up \in [S -> SUBSET S]
  OBVIOUS
<1> HIDE DEF up
<1>4. Ranks(S, up)
  <2>1. \A x \in S : x \notin up[x]
    BY <1>2
  <2>2. \A x, y \in S : x \in up[y] => up[x] \subseteq up[y]
    <3>1. SUFFICES ASSUME NEW x \in S, NEW y \in S, x < y, NEW z \in up[x] PROVE z \in up[y]
      BY <1>2
    <3>2. z \in S
      BY <1>3
    <3>3. z < x
      BY <1>2, <3>2
    <3>4. z < y
      BY <3>1, <3>2, <3>3
    <3> QED
      BY <1>2, <3>2, <3>4
  <2>3. \A x, y \in S : x = y \/ x \in up[y] \/ y \in up[x]
    BY <1>2
  <2> QED
    BY <1>3, <2>1, <2>2, <2>3 DEF Ranks
<1>5. PICK f : f = InOrder(S)
  OBVIOUS
<1>6. NamesEachRank(S, up, f)
  <2>1. \A n \in 1 .. Cardinality(S) :
            (\E x \in S : Rank(S, x) = n - 1) => f[n] \in S /\ Rank(S, f[n]) = n - 1
    BY <1>5 DEF InOrder, Rank
  <2>3. ASSUME NEW n \in 1 .. Cardinality(S), NEW x \in S, Cardinality(up[x]) = n - 1
        PROVE  f[n] \in S /\ Cardinality(up[f[n]]) = n - 1
    <3>1. Rank(S, x) = n - 1
      BY <1>1, <2>3
    <3>2. f[n] \in S /\ Rank(S, f[n]) = n - 1
      BY <2>1, <3>1
    <3> QED
      BY <1>1, <3>2
  <2> QED
    BY <2>3 DEF NamesEachRank
<1>7. /\ \A n \in 1 .. Cardinality(S) : f[n] \in S /\ Cardinality(up[f[n]]) = n - 1
      /\ \A x \in S : \E n \in 1 .. Cardinality(S) : f[n] = x
      /\ \A m, n \in 1 .. Cardinality(S) : m < n => f[m] \in up[f[n]]
  BY <1>4, <1>6, ListedByRank
<1>8. f \in [1 .. Cardinality(S) -> S]
  BY <1>5, <1>7 DEF InOrder
<1>9. \A n \in 1 .. Cardinality(S) : Rank(S, f[n]) = n - 1
  BY <1>1, <1>7
<1>10. \A m, n \in 1 .. Cardinality(S) : m < n => f[m] < f[n]
  BY <1>2, <1>7
<1>11. \A x, y \in S : x < y => Rank(S, x) < Rank(S, y)
  BY <1>1, <1>2, <1>4, RanksRise
<1> QED
  BY <1>5, <1>7, <1>8, <1>9, <1>10, <1>11

\* A list in ascending order that holds the elements of S is InOrder(S).
LEMMA InOrderIsUnique ==
    ASSUME NEW S, S \subseteq Int, NEW k \in Nat, NEW f \in [1 .. k -> S],
           \A x \in S : \E n \in 1 .. k : f[n] = x,
           \A m, n \in 1 .. k : m < n => f[m] < f[n]
    PROVE  IsFiniteSet(S) /\ Cardinality(S) = k /\ f = InOrder(S)
<1>1. \A m, n \in 1 .. k : f[m] = f[n] => m = n
  <2>1. ASSUME NEW m \in 1 .. k, NEW n \in 1 .. k, m # n
        PROVE  f[m] # f[n]
    <3>1. m < n \/ n < m
      BY <2>1
    <3>2. f[m] \in Int /\ f[n] \in Int
      OBVIOUS
    <3> QED
      BY <3>1, <3>2
  <2> QED
    BY <2>1
<1>2. f \in Bijection(1 .. k, S)
  BY <1>1 DEF Bijection, Injection, Surjection, IsInjective
<1>3. IsFiniteSet(1 .. k) /\ Cardinality(1 .. k) = k
  BY FS_Interval
<1>4. IsFiniteSet(S) /\ Cardinality(S) = k
  BY <1>2, <1>3, FS_Bijection DEF ExistsBijection
<1>5. ASSUME NEW n \in 1 .. k
      PROVE  Rank(S, f[n]) = n - 1
  <2> DEFINE T == {y \in S : y < f[n]}
             g == [m \in 1 .. n - 1 |-> f[m]]
  <2>1. \A m \in 1 .. n - 1 : g[m] = f[m] /\ f[m] \in T /\ m \in 1 .. k
    OBVIOUS
  <2>2. \A y \in T : \E m \in 1 .. n - 1 : f[m] = y
    <3>1. TAKE y \in T
    <3>2. PICK m \in 1 .. k : f[m] = y
      OBVIOUS
    <3>3. f[n] \in Int /\ f[m] \in Int /\ f[m] < f[n]
      BY <3>2
    <3>4. ~(n < m) /\ n # m
      BY <3>3
    <3> QED
      BY <3>2, <3>4
  <2> HIDE DEF T
  <2>3. g \in Bijection(1 .. n - 1, T)
    BY <1>1, <2>1, <2>2 DEF Bijection, Injection, Surjection, IsInjective
  <2>4. IsFiniteSet(1 .. n - 1) /\ Cardinality(1 .. n - 1) = n - 1
    BY FS_Interval
  <2>5. Cardinality(T) = n - 1
    BY <2>3, <2>4, FS_Bijection DEF ExistsBijection
  <2> QED
    BY <2>5 DEF Rank, T
<1>6. \A n \in 1 .. k : f[n] = InOrder(S)[n]
  <2>1. TAKE n \in 1 .. k
  <2>2. InOrder(S)[n] \in S /\ Rank(S, InOrder(S)[n]) = n - 1
    BY <1>4, InOrderLists
  <2>3. PICK x \in S, y \in S : x = f[n] /\ y = InOrder(S)[n]
    BY <2>2
  <2>4. Rank(S, x) = Rank(S, y) /\ Rank(S, x) \in Int
    BY <1>5, <2>2, <2>3
  <2>5. \A a, b \in S : a < b => Rank(S, a) < Rank(S, b)
    BY <1>4, InOrderLists
  <2>6. ~(x < y) /\ ~(y < x)
    BY <2>4, <2>5
  <2> QED
    BY <2>3, <2>6
<1>7. InOrder(S) \in [1 .. k -> S]
  BY <1>4, InOrderLists
<1>8. f = InOrder(S)
  BY <1>6, <1>7
<1> QED
  BY <1>4, <1>8

AllBelow(S, T) == \A x \in S, y \in T : x < y

\* A set, and the first n elements of another.
WithFirst(S, T, n) == S \cup {InOrder(T)[i] : i \in 1 .. n}

JoinedTo(S, T, n, U) ==
    /\ IsFiniteSet(U) /\ Cardinality(U) = Cardinality(S) + n
    /\ \A i \in 1 .. Cardinality(S) : InOrder(U)[i] = InOrder(S)[i]
    /\ \A i \in 1 .. n : InOrder(U)[Cardinality(S) + i] = InOrder(T)[i]

\* A page of the elements above those read so far, cut off after its first n: what is
\* read then is in order again.
LEMMA ReadOn ==
    ASSUME NEW S, S \subseteq Int, IsFiniteSet(S), NEW T, T \subseteq Int, IsFiniteSet(T),
           AllBelow(S, T), NEW n \in 0 .. Cardinality(T)
    PROVE  JoinedTo(S, T, n, WithFirst(S, T, n))
<1> DEFINE k == Cardinality(S)
           V == {InOrder(T)[i] : i \in 1 .. n}
           U == S \cup V
           f == [i \in 1 .. k + n |-> IF i <= k THEN InOrder(S)[i] ELSE InOrder(T)[i - k]]
<1>1. /\ k \in Nat /\ InOrder(S) \in [1 .. k -> S]
      /\ \A x \in S : \E i \in 1 .. k : InOrder(S)[i] = x
      /\ \A i, j \in 1 .. k : i < j => InOrder(S)[i] < InOrder(S)[j]
  BY InOrderLists, FS_CardinalityType
<1>2. Cardinality(T) \in Nat
  BY FS_CardinalityType
<1>3. /\ InOrder(T) \in [1 .. Cardinality(T) -> T]
      /\ \A i, j \in 1 .. Cardinality(T) : i < j => InOrder(T)[i] < InOrder(T)[j]
  BY InOrderLists
<1> HIDE DEF k
<1>4. \A i \in 1 .. n : i \in 1 .. Cardinality(T) /\ InOrder(T)[i] \in T
  BY <1>2, <1>3
<1>5. V \subseteq T /\ \A y \in V : \E i \in 1 .. n : y = InOrder(T)[i]
  BY <1>4
<1>6. U \subseteq Int /\ k + n \in Nat
  <2>1. k + n \in Nat
    BY <1>1, <1>2
  <2> HIDE DEF V
  <2> QED
    BY <1>5, <2>1
<1>7. \A i \in 1 .. k : i \in 1 .. k + n /\ f[i] = InOrder(S)[i] /\ f[i] \in S
  BY <1>1, <1>2
<1>8. \A i \in 1 .. n : k + i \in 1 .. k + n /\ f[k + i] = InOrder(T)[i] /\ f[k + i] \in V
  BY <1>1, <1>2
<1>9. \A i \in 1 .. k + n : i \in 1 .. k \/ (i - k \in 1 .. n /\ i = k + (i - k))
  BY <1>1, <1>2
<1>10. f \in [1 .. k + n -> U]
  BY <1>7, <1>8, <1>9
<1> HIDE DEF f, V
<1>11. \A x \in U : \E i \in 1 .. k + n : f[i] = x
  <2>1. \A x \in S : \E i \in 1 .. k + n : f[i] = x
    BY <1>1, <1>7
  <2>2. \A x \in V : \E i \in 1 .. k + n : f[i] = x
    BY <1>5, <1>8
  <2> QED
    BY <2>1, <2>2
<1>12. ASSUME NEW i \in 1 .. k + n, NEW j \in 1 .. k + n, i < j
       PROVE  f[i] < f[j]
  <2>1. CASE i \in 1 .. k /\ j \in 1 .. k
    BY <1>1, <1>7, <1>12, <2>1
  <2>2. CASE i \in 1 .. k /\ j \notin 1 .. k
    <3>1. f[i] \in S /\ f[j] \in T
      BY <1>5, <1>7, <1>8, <1>9, <2>2
    <3> QED
      BY <3>1 DEF AllBelow
  <2>3. CASE i \notin 1 .. k
    <3>1. j \notin 1 .. k
      BY <1>1, <1>2, <1>12, <2>3
    <3>2. PICK a \in 1 .. n, b \in 1 .. n : i = k + a /\ j = k + b
      BY <1>9, <2>3, <3>1
    <3>3. a < b
      BY <1>1, <1>2, <1>12, <3>2
    <3> QED
      BY <1>3, <1>4, <1>8, <3>2, <3>3
  <2> QED
    BY <2>1, <2>2, <2>3
<1>13. IsFiniteSet(U) /\ Cardinality(U) = k + n /\ f = InOrder(U)
  <2> HIDE DEF U
  <2> QED
    BY <1>6, <1>10, <1>11, <1>12, InOrderIsUnique
<1>14. U = WithFirst(S, T, n)
  BY DEF WithFirst, V
<1> QED
  BY <1>7, <1>8, <1>13, <1>14 DEF k, JoinedTo

\* The least and the largest of a set of naturals up to k.
LEMMA ExtremesExist ==
    ASSUME NEW k \in Nat, NEW S, S \subseteq 0 .. k, S # {}
    PROVE  /\ Min(S) \in S /\ \A y \in S : Min(S) <= y
           /\ Max(S) \in S /\ \A y \in S : Max(S) >= y
<1>1. S \subseteq Nat
  OBVIOUS
<1>2. \E x \in S : \A y \in S : x <= y
  BY <1>1, LeastNumber
<1> DEFINE D == {k - x : x \in S}
<1>3. D \subseteq Nat /\ D # {}
  <2>1. \A x \in S : k - x \in Nat
    OBVIOUS
  <2> QED
    BY <2>1
<1>4. PICK d \in D : \A e \in D : d <= e
  <2> HIDE DEF D
  <2> QED
    BY <1>3, LeastNumber
<1>5. PICK x \in S : d = k - x
  OBVIOUS
<1>6. \A y \in S : x >= y
  <2>1. TAKE y \in S
  <2>2. d <= k - y /\ x \in Int /\ y \in Int
    BY <1>4
  <2> QED
    BY <1>5, <2>2
<1>7. \E z \in S : \A y \in S : z >= y
  BY <1>6
<1> QED
  BY <1>2, <1>7 DEF Min, Max

-----------------------------------------------------------------------------
(***************************************************************************)
(* Scans and pages.                                                        *)
(***************************************************************************)

\* The matches in a range of ordinals are finitely many.
LEMMA HitsAreFinite ==
    ASSUME NEW hit, NEW from \in Int, NEW to \in Int
    PROVE  /\ HitsIn(hit, from, to) \subseteq from .. to
           /\ HitsIn(hit, from, to) \subseteq Int
           /\ IsFiniteSet(HitsIn(hit, from, to))
<1>1. HitsIn(hit, from, to) \in SUBSET (from .. to)
  BY DEF HitsIn
<1>2. IsFiniteSet(from .. to)
  BY FS_Interval
<1> QED
  BY <1>1, <1>2, FS_Subset

\* A scan goes forward; it stops at the end, or before it and then says so.
GoesForward(hit, after, s) ==
    /\ s.last \in after .. Len(hit)
    /\ s.ordinals = InOrder(HitsIn(hit, after + 1, s.last))
    /\ s.truncated \in BOOLEAN
    /\ s.truncated => after < s.last /\ s.last < Len(hit)
    /\ ~s.truncated => s.last = Len(hit)

LEMMA ScanGoesForward ==
    ASSUME NEW hit, Len(hit) \in Nat, NEW after \in 0 .. Len(hit),
           NEW items \in Nat \ {0}, NEW scan \in Nat \ {0}
    PROVE  GoesForward(hit, after, Scan(hit, after, items, scan))
<1>0. PICK s, len : s = Scan(hit, after, items, scan) /\ len = Len(hit)
  OBVIOUS
<1> SUFFICES /\ s.last \in after .. len
             /\ s.ordinals = InOrder(HitsIn(hit, after + 1, s.last))
             /\ s.truncated \in BOOLEAN
             /\ s.truncated => after < s.last /\ s.last < len
             /\ ~s.truncated => s.last = len
  BY <1>0 DEF GoesForward
<1> DEFINE stops == StopsAt(hit, after, items, scan)
           last == LastScanned(hit, stops)
<1>1. stops \subseteq after + 1 .. len /\ stops \subseteq 0 .. len
  BY <1>0 DEF StopsAt
<1>2. \A i \in stops : after + 1 < i
  <2>1. TAKE i \in stops
  <2>2. i \in after + 1 .. len
    BY <1>0, <1>1
  <2>3. SUFFICES i # after + 1
    BY <1>0, <2>2
  <2>4. SUFFICES ASSUME i = after + 1 PROVE FALSE
    OBVIOUS
  <2>5. after + 1 .. i - 1 = {} /\ i - after - 1 = 0
    BY <1>0, <2>2, <2>4
  <2>6. HitsIn(hit, after + 1, i - 1) = {}
    BY <2>5 DEF HitsIn
  <2>7. Cardinality(HitsIn(hit, after + 1, i - 1)) = 0
    BY <2>6, FS_EmptySet
  <2> QED
    BY <2>5, <2>7 DEF StopsAt
<1>3. /\ s.ordinals = InOrder(HitsIn(hit, after + 1, last)) /\ s.last = last
      /\ s.truncated = (stops # {})
  BY <1>0 DEF Scan, ScanFrom
<1>4. CASE stops = {}
  <2>1. last = len
    BY <1>0, <1>4 DEF LastScanned
  <2> HIDE DEF last, stops
  <2>2. s.truncated = FALSE
    BY <1>3, <1>4, Zenon
  <2>3. s.last = len /\ s.ordinals = InOrder(HitsIn(hit, after + 1, s.last))
    BY <1>3, <2>1
  <2>4. s.last \in after .. len
    BY <1>0, <2>3
  <2> QED
    BY <2>2, <2>3, <2>4, Zenon
<1>5. CASE stops # {}
  <2>1. Min(stops) \in stops
    BY <1>0, <1>1, <1>5, ExtremesExist
  <2>2. last = Min(stops) - 1
    BY <1>5 DEF LastScanned
  <2>3. Min(stops) \in after + 1 .. len /\ after + 1 < Min(stops)
    BY <1>1, <1>2, <2>1
  <2> HIDE DEF last, stops
  <2>4. s.truncated = TRUE
    BY <1>3, <1>5, Zenon
  <2>5. s.last = Min(stops) - 1 /\ s.ordinals = InOrder(HitsIn(hit, after + 1, s.last))
    BY <1>3, <2>2
  <2>6. s.last \in after .. len /\ after < s.last /\ s.last < len
    BY <1>0, <2>3, <2>5
  <2> QED
    BY <2>4, <2>5, <2>6, Zenon
<1> QED
  BY <1>4, <1>5

IsPage(page) ==
    /\ page = Page(page.items, page.item_cursors, page.total, page.filtered, page.next,
                   page.truncated)
    /\ page.truncated \in BOOLEAN

\* What packing makes of a page of which it keeps n items.
PackedTo(page, start, n, packed) ==
    /\ packed.items = SubSeq(page.items, 1, n)
    /\ n = Len(page.items) => packed.next = page.next
    /\ n < Len(page.items) =>
          packed.truncated
          /\ packed.next = IF n = 0 THEN start
                           ELSE IF n \in DOMAIN page.item_cursors THEN page.item_cursors[n]
                           ELSE NoCursor
    /\ ~packed.truncated => ~page.truncated /\ n = Len(page.items)
    /\ packed.total = page.total /\ packed.filtered = page.filtered

\* Packing keeps the first items of a page. The continuation is the page's own when it
\* keeps them all, and otherwise behind the last it keeps, or where the page started.
LEMMA PackKeepsTheFirst ==
    ASSUME NEW req, NEW page, NEW budget, NEW start, IsPage(page),
           NEW V, page.items \in Seq(V), ~Pack(req, page, budget, start).error
    PROVE  \E n \in 0 .. Len(page.items) :
               PackedTo(page, start, n, Pack(req, page, budget, start).page)
<1> DEFINE k == Len(page.items)
           items == page.items
           cursors == page.item_cursors
<1>0. PICK answer : answer = Pack(req, page, budget, start)
  OBVIOUS
<1>1. k \in Nat /\ page.truncated \in BOOLEAN
  BY DEF IsPage
<1> SUFFICES \E n \in 0 .. k : PackedTo(page, start, n, answer.page)
  BY <1>0
<1>2. SubSeq(items, 1, k) = items
  OBVIOUS
<1>3. CASE answer = Answer(page)
  <2>1. answer.page = page
    BY <1>3 DEF Answer
  <2> WITNESS k \in 0 .. k
  <2> QED
    BY <1>1, <1>2, <2>1 DEF PackedTo
<1>4. CASE answer # Answer(page)
  <2> DEFINE K == Kept(req, page, budget, start)
             n == Max(K)
             cut == TruncateItems(page, n, start)
  <2>1. K # {} /\ answer = Answer([cut EXCEPT !.truncated = TRUE])
    BY <1>0, <1>4 DEF Pack, Refused, Answer
  <2>2. K \subseteq 0 .. k
    BY <1>1 DEF Kept
  <2>3. n \in 0 .. k
    <3> HIDE DEF K
    <3> QED
      BY <1>1, <2>1, <2>2, ExtremesExist
  <2>4. answer.page = [cut EXCEPT !.truncated = TRUE]
    BY <2>1 DEF Answer
  <2> HIDE DEF n, cut
  <2>5. CASE n = k
    <3>1. cut = page
      BY <1>1, <2>5 DEF cut, TruncateItems
    <3>2. answer.page = [items |-> items, item_cursors |-> cursors, total |-> page.total,
                         filtered |-> page.filtered, next |-> page.next, truncated |-> TRUE]
      BY <2>4, <3>1 DEF IsPage, Page
    <3> WITNESS k \in 0 .. k
    <3> QED
      BY <1>1, <1>2, <3>2 DEF PackedTo
  <2>6. CASE n < k
    <3> DEFINE nx == IF n = 0 THEN start ELSE IF n \in DOMAIN cursors THEN cursors[n] ELSE NoCursor
    <3>1. cut = [page EXCEPT !.items = SubSeq(items, 1, n),
                             !.item_cursors = Upto(cursors, n), !.truncated = TRUE,
                             !.next = nx]
      BY <1>1, <2>3, <2>6 DEF cut, TruncateItems, ItemCursor
    <3> HIDE DEF nx
    <3>2. answer.page = [items |-> SubSeq(items, 1, n), item_cursors |-> Upto(cursors, n),
                         total |-> page.total, filtered |-> page.filtered, next |-> nx,
                         truncated |-> TRUE]
      BY <2>4, <3>1 DEF IsPage, Page
    <3> QED
      BY <1>1, <2>3, <2>6, <3>2 DEF nx, PackedTo
  <2> QED
    BY <1>1, <2>3, <2>5, <2>6
<1> QED
  BY <1>3, <1>4

\* The first n matches behind ordinal a, with those before it, are the matches up to
\* the n-th; all of them are the matches up to the end of the range.
LEMMA FirstMatches ==
    ASSUME NEW hit, NEW a \in Nat, NEW b \in Nat, a <= b,
           NEW n \in 0 .. Cardinality(HitsIn(hit, a + 1, b))
    PROVE  LET T == HitsIn(hit, a + 1, b)
               U == WithFirst(HitsIn(hit, 1, a), T, n)
               c == IF n = 0 THEN a ELSE InOrder(T)[n]
           IN /\ c \in a .. b /\ U = HitsIn(hit, 1, c)
              /\ n = Cardinality(T) => U = HitsIn(hit, 1, b)
<1> DEFINE T == HitsIn(hit, a + 1, b)
           U == WithFirst(HitsIn(hit, 1, a), T, n)
           c == IF n = 0 THEN a ELSE InOrder(T)[n]
<1>0. /\ n \in 0 .. Cardinality(T) /\ c = IF n = 0 THEN a ELSE InOrder(T)[n]
      /\ U = HitsIn(hit, 1, a) \cup {InOrder(T)[i] : i \in 1 .. n}
  BY DEF WithFirst
<1>1. T \subseteq a + 1 .. b /\ T \subseteq Int /\ IsFiniteSet(T)
  BY HitsAreFinite
<1>2. Cardinality(T) \in Nat
  BY <1>1, FS_CardinalityType
<1>3. /\ \A i \in 1 .. Cardinality(T) : InOrder(T)[i] \in T
      /\ \A x \in T : \E i \in 1 .. Cardinality(T) : InOrder(T)[i] = x
      /\ \A i, j \in 1 .. Cardinality(T) : i < j => InOrder(T)[i] < InOrder(T)[j]
  BY <1>1, InOrderLists
<1>4. \A i \in 1 .. n : i \in 1 .. Cardinality(T)
  BY <1>0, <1>2
<1>5. \A x : x \in T <=> x \in a + 1 .. b /\ hit[x]
  BY DEF HitsIn
<1> HIDE DEF T, U, c
<1>6. c \in a .. b
  <2>1. CASE n = 0
    BY <1>0, <2>1
  <2>2. CASE n # 0
    <3>1. c \in T
      BY <1>0, <1>2, <1>3, <1>4, <2>2
    <3> QED
      BY <1>1, <3>1
  <2> QED
    BY <2>1, <2>2
<1>7. \A x : x \in HitsIn(hit, 1, a) <=> x \in 1 .. a /\ hit[x]
  BY DEF HitsIn
<1>8. ASSUME NEW x
      PROVE  x \in U <=> x \in 1 .. c /\ hit[x]
  <2>1. ASSUME x \in U
        PROVE  x \in 1 .. c /\ hit[x]
    <3>1. CASE x \in HitsIn(hit, 1, a)
      BY <1>6, <1>7, <3>1
    <3>2. CASE x \notin HitsIn(hit, 1, a)
      <4>1. PICK i \in 1 .. n : x = InOrder(T)[i]
        BY <1>0, <2>1, <3>2
      <4>2. x \in T /\ x \in a + 1 .. b /\ hit[x]
        BY <1>3, <1>4, <1>5, <4>1
      <4>3. n \in 1 .. Cardinality(T) /\ c = InOrder(T)[n] /\ c \in Int
        BY <1>0, <1>2, <1>6, <4>1
      <4>4. i = n \/ i < n
        BY <1>0, <1>2, <4>1
      <4>5. x <= c
        BY <1>3, <1>4, <4>1, <4>2, <4>3, <4>4
      <4> QED
        BY <1>6, <4>2, <4>5
    <3> QED
      BY <3>1, <3>2
  <2>2. ASSUME x \in 1 .. c, hit[x]
        PROVE  x \in U
    <3>1. CASE x <= a
      <4>1. x \in 1 .. a
        BY <1>6, <2>2, <3>1
      <4> QED
        BY <1>0, <1>7, <2>2, <4>1
    <3>2. CASE ~(x <= a)
      <4>1. x \in a + 1 .. b /\ n # 0
        BY <1>0, <1>6, <2>2, <3>2
      <4>2. x \in T
        BY <1>5, <2>2, <4>1
      <4>3. PICK i \in 1 .. Cardinality(T) : InOrder(T)[i] = x
        BY <1>3, <4>2
      <4>4. n \in 1 .. Cardinality(T) /\ c = InOrder(T)[n]
        BY <1>0, <1>2, <4>1
      <4>5. ~(n < i)
        BY <1>3, <1>6, <2>2, <4>3, <4>4
      <4>6. i \in 1 .. n
        BY <1>0, <1>2, <4>3, <4>5
      <4> QED
        BY <1>0, <4>3, <4>6
    <3> QED
      BY <3>1, <3>2
  <2> QED
    BY <2>1, <2>2
<1>9. U = HitsIn(hit, 1, c)
  <2>1. \A x : x \in HitsIn(hit, 1, c) <=> x \in 1 .. c /\ hit[x]
    BY DEF HitsIn
  <2>2. \A x : x \in U <=> x \in HitsIn(hit, 1, c)
    BY <1>8, <2>1
  <2> QED
    BY <2>2
<1>10. ASSUME n = Cardinality(T) PROVE U = HitsIn(hit, 1, b)
  <2>1. \A x : x \in HitsIn(hit, 1, b) <=> x \in 1 .. b /\ hit[x]
    BY DEF HitsIn
  <2>2. \A x \in U : x \in HitsIn(hit, 1, b)
    <3>1. TAKE x \in U
    <3>2. x \in 1 .. c /\ hit[x]
      BY <1>8
    <3> QED
      BY <1>6, <2>1, <3>2
  <2>3. \A x \in HitsIn(hit, 1, b) : x \in U
    <3>1. TAKE x \in HitsIn(hit, 1, b)
    <3>2. x \in 1 .. b /\ hit[x]
      BY <2>1
    <3>3. CASE x <= a
      <4>1. x \in 1 .. a
        BY <3>2, <3>3
      <4> QED
        BY <1>0, <1>7, <3>2, <4>1
    <3>4. CASE ~(x <= a)
      <4>1. x \in a + 1 .. b
        BY <3>2, <3>4
      <4>2. x \in T
        BY <1>5, <3>2, <4>1
      <4> QED
        BY <1>0, <1>3, <1>10, <4>2
    <3> QED
      BY <3>3, <3>4
  <2> QED
    BY <2>2, <2>3
<1> QED
  BY <1>6, <1>9, <1>10 DEF T, U, c

-----------------------------------------------------------------------------
(***************************************************************************)
(* Reading on.                                                             *)
(***************************************************************************)

\* What the cursors of a walk name.
WalkKind(req) ==
    IF req.view \in RecordViews THEN "ordinal"
    ELSE IF req.view \in LogViews THEN "log"
    ELSE IF req.view = "query_results" THEN "file" ELSE req.view

WalkContext(req) ==
    IF req.view \in RecordViews THEN Context(req.view, req.id, req.filter)
    ELSE IF req.view \in LogViews THEN <<req.view, req.id, req.filter>>
    ELSE IF req.view = "query_results" THEN Context("query_rows", req.id, req.filter)
    ELSE LedgerContext(req)

\* A file cursor stands behind a row that is complete, and has counted what it passed.
RowOk(req, c) ==
    /\ c.at = RowsOf(0)[c.ordinal].end
    /\ c.at \in 1 .. Len(inv.stdout) /\ inv.stdout[c.at] = Newline
    /\ c.total = c.ordinal /\ c.filtered = Cardinality(HitsIn(ViewHits(req), 1, c.ordinal))

\* A cursor of the walk, and where it stands.
CursorOk(req, c) ==
    \/ c = NoCursor
    \/ /\ c.kind = WalkKind(req) /\ c.ctx = WalkContext(req)
       /\ Ordinal(c) \in 1 .. Len(ViewHits(req))
       /\ req.view = "query_results" => RowOk(req, c)

From(c) == IF c = NoCursor THEN 0 ELSE Ordinal(c)

\* A page that goes on from a cursor: the matches up to ordinal b, a cursor for each
\* that is not the last, and all there is unless it says so.
ReadsOn(req, cursor, page, b) ==
    LET a == From(cursor)
        T == HitsIn(ViewHits(req), a + 1, b)
    IN /\ IsPage(page) /\ b \in a .. Len(ViewHits(req))
       /\ page.items = [i \in 1 .. Cardinality(T) |-> Shown(req, InOrder(T)[i])]
       /\ DOMAIN page.item_cursors = 1 .. Cardinality(T)
       /\ \A i \in 1 .. Cardinality(T) - 1 :
              LET c == page.item_cursors[i]
              IN CursorOk(req, c) /\ c # NoCursor /\ Ordinal(c) = InOrder(T)[i]
       /\ CursorOk(req, page.next)
       /\ page.next # NoCursor => Ordinal(page.next) = b
       /\ ~page.truncated => T = HitsIn(ViewHits(req), a + 1, Len(ViewHits(req)))

\* Functions on 1 .. k are sequences, and these are joined one behind the other.
LEMMA ListIsSeq ==
    ASSUME NEW k \in Nat, NEW V, NEW f \in [1 .. k -> V]
    PROVE  f \in Seq(V) /\ Len(f) = k
  OBVIOUS

LEMMA AppendedSeq ==
    ASSUME NEW V, NEW f \in Seq(V), NEW x \in V
    PROVE  Append(f, x) \in Seq(V)
  OBVIOUS

LEMMA JoinedSeq ==
    ASSUME NEW V, NEW f \in Seq(V), NEW g \in Seq(V)
    PROVE  /\ f \o g \in Seq(V) /\ Len(f \o g) = Len(f) + Len(g)
           /\ DOMAIN (f \o g) = 1 .. Len(f) + Len(g)
           /\ \A i \in 1 .. Len(f) : (f \o g)[i] = f[i]
           /\ \A i \in 1 .. Len(g) : (f \o g)[Len(f) + i] = g[i]
  OBVIOUS

PackContinues(req, cursor, page, packed) ==
    LET items == ItemsUpto(req, From(cursor)) \o packed.items
    IN /\ CursorOk(req, packed.next)
       /\ packed.next # NoCursor => items = ItemsUpto(req, From(packed.next))
       /\ ~packed.truncated => items = AllItems(req)
       /\ \E n \in 0 .. Len(ViewHits(req)) : items = ItemsUpto(req, n)
       /\ packed.total = page.total /\ packed.filtered = page.filtered

\* Whatever of a page packing keeps, the client has then read everything up to the
\* cursor it is given.
LEMMA PackedPageReadsOn ==
    ASSUME NEW req, NEW cursor, CursorOk(req, cursor), Len(ViewHits(req)) \in Nat,
           NEW page, NEW b, ReadsOn(req, cursor, page, b),
           NEW budget, ~Pack(req, page, budget, cursor).error
    PROVE  PackContinues(req, cursor, page, Pack(req, page, budget, cursor).page)
<1> SUFFICES ASSUME NEW answer, answer = Pack(req, page, budget, cursor), ~answer.error,
                    NEW items, items = ItemsUpto(req, From(cursor)) \o answer.page.items
             PROVE  /\ CursorOk(req, answer.page.next)
                    /\ answer.page.next # NoCursor =>
                          items = ItemsUpto(req, From(answer.page.next))
                    /\ ~answer.page.truncated => items = AllItems(req)
                    /\ \E n \in 0 .. Len(ViewHits(req)) : items = ItemsUpto(req, n)
                    /\ answer.page.total = page.total /\ answer.page.filtered = page.filtered
  BY Zenon DEF PackContinues
<1> DEFINE h == ViewHits(req)
           a == From(cursor)
           S == HitsIn(h, 1, a)
           T == HitsIn(h, a + 1, b)
           k == Cardinality(T)
<1>1. a \in Nat /\ b \in Nat /\ a <= b /\ b <= Len(h) /\ NoCursor.kind = "none"
  BY DEF CursorOk, From, ReadsOn, NoCursor
<1>2. /\ S \subseteq 1 .. a /\ S \subseteq Int /\ IsFiniteSet(S)
      /\ T \subseteq a + 1 .. b /\ T \subseteq Int /\ IsFiniteSet(T)
  BY <1>1, HitsAreFinite
<1>3. k \in Nat /\ Cardinality(S) \in Nat
  BY <1>2, FS_CardinalityType
<1>4. AllBelow(S, T)
  BY <1>1, <1>2 DEF AllBelow
<1>5. /\ page.items = [i \in 1 .. k |-> Shown(req, InOrder(T)[i])]
      /\ DOMAIN page.item_cursors = 1 .. k
      /\ \A i \in 1 .. k - 1 : /\ CursorOk(req, page.item_cursors[i])
                               /\ page.item_cursors[i] # NoCursor
                               /\ Ordinal(page.item_cursors[i]) = InOrder(T)[i]
      /\ CursorOk(req, page.next)
      /\ page.next # NoCursor => Ordinal(page.next) = b
      /\ IsPage(page)
      /\ ~page.truncated => T = HitsIn(h, a + 1, Len(h))
  BY DEF ReadsOn
<1> HIDE DEF T, S, h, a, k
<1> DEFINE V == {Shown(req, InOrder(T)[i]) : i \in 1 .. k}
<1>6. page.items \in Seq(V) /\ Len(page.items) = k
  <2>1. page.items \in [1 .. k -> V]
    BY <1>5
  <2> HIDE DEF V
  <2> QED
    BY <1>3, <2>1, ListIsSeq
<1>7a. PICK n \in 0 .. k : PackedTo(page, cursor, n, answer.page)
  <2> HIDE DEF V
  <2> QED
    BY <1>5, <1>6, PackKeepsTheFirst
<1>7. /\ answer.page.items = SubSeq(page.items, 1, n)
      /\ n = k => answer.page.next = page.next
      /\ n < k => answer.page.truncated
                  /\ answer.page.next = IF n = 0 THEN cursor
                                        ELSE IF n \in DOMAIN page.item_cursors
                                        THEN page.item_cursors[n] ELSE NoCursor
      /\ ~answer.page.truncated => ~page.truncated /\ n = k
      /\ answer.page.total = page.total /\ answer.page.filtered = page.filtered
  BY <1>6, <1>7a, Zenon DEF PackedTo
<1> DEFINE U == WithFirst(S, T, n)
           c == IF n = 0 THEN a ELSE InOrder(T)[n]
<1>8. /\ IsFiniteSet(U) /\ Cardinality(U) = Cardinality(S) + n
      /\ \A i \in 1 .. Cardinality(S) : InOrder(U)[i] = InOrder(S)[i]
      /\ \A i \in 1 .. n : InOrder(U)[Cardinality(S) + i] = InOrder(T)[i]
  <2>1. n \in 0 .. Cardinality(T)
    BY DEF k
  <2>2. JoinedTo(S, T, n, U)
    BY <1>2, <1>4, <2>1, ReadOn
  <2> QED
    BY <2>2 DEF JoinedTo
<1>9. c \in a .. b /\ U = HitsIn(h, 1, c) /\ (n = k => U = HitsIn(h, 1, b))
  BY <1>1, FirstMatches DEF S, T, k
<1> HIDE DEF U, c
<1>10. items = [i \in DOMAIN InOrder(U) |-> Shown(req, InOrder(U)[i])]
  <2>1. ItemsUpto(req, a) = [i \in DOMAIN InOrder(S) |-> Shown(req, InOrder(S)[i])]
    BY DEF ItemsUpto, S, h
  <2>2. DOMAIN InOrder(S) = 1 .. Cardinality(S) /\ DOMAIN InOrder(U) = 1 .. Cardinality(U)
    BY DEF InOrder
  <2>3. \A i \in 1 .. n : answer.page.items[i] = Shown(req, InOrder(T)[i])
    <3> HIDE DEF V
    <3>1. \A i \in 1 .. n : SubSeq(page.items, 1, n)[i] = page.items[i] /\ i \in 1 .. k
      BY <1>3, <1>6
    <3> QED
      BY <1>5, <1>7, <3>1
  <2>4. answer.page.items \in Seq(V) /\ Len(answer.page.items) = n
    <3> HIDE DEF V
    <3> QED
      BY <1>3, <1>6, <1>7
  <2> DEFINE W == {Shown(req, InOrder(S)[i]) : i \in 1 .. Cardinality(S)}
             f == ItemsUpto(req, a)
             g == answer.page.items
  <2>5. f \in Seq(W) /\ Len(f) = Cardinality(S)
        /\ \A i \in 1 .. Cardinality(S) : f[i] = Shown(req, InOrder(S)[i])
    BY <1>3, <2>1, <2>2
  <2> HIDE DEF f, g, W, V
  <2>6. f \in Seq(W \cup V) /\ g \in Seq(W \cup V) /\ Len(g) = n
    BY <2>4, <2>5 DEF g
  <2>7. items = f \o g
    BY DEF f, g, a
  <2>8. /\ items \in Seq(W \cup V) /\ Len(items) = Cardinality(S) + n
        /\ \A i \in 1 .. Cardinality(S) : items[i] = f[i]
        /\ \A i \in 1 .. n : items[Cardinality(S) + i] = g[i]
        /\ DOMAIN items = 1 .. Cardinality(S) + n
    <3>1. PICK X : X = W \cup V
      OBVIOUS
    <3>2. f \in Seq(X) /\ g \in Seq(X)
      BY <2>6, <3>1
    <3>3. /\ f \o g \in Seq(X) /\ Len(f \o g) = Len(f) + Len(g)
          /\ DOMAIN (f \o g) = 1 .. Len(f) + Len(g)
          /\ \A i \in 1 .. Len(f) : (f \o g)[i] = f[i]
          /\ \A i \in 1 .. Len(g) : (f \o g)[Len(f) + i] = g[i]
      BY <3>2, JoinedSeq
    <3> QED
      BY <2>5, <2>6, <2>7, <3>1, <3>3
  <2>9. \A i \in 1 .. Cardinality(S) + n : items[i] = Shown(req, InOrder(U)[i])
    <3>1. TAKE i \in 1 .. Cardinality(S) + n
    <3>2. CASE i <= Cardinality(S)
      <4>1. i \in 1 .. Cardinality(S)
        BY <1>3, <3>2
      <4> QED
        BY <1>8, <2>5, <2>8, <4>1
    <3>3. CASE ~(i <= Cardinality(S))
      <4>1. PICK j \in 1 .. n : i = Cardinality(S) + j
        <5>1. i - Cardinality(S) \in 1 .. n /\ i = Cardinality(S) + (i - Cardinality(S))
          BY <1>3, <3>3
        <5> QED
          BY <5>1
      <4> QED
        BY <1>8, <2>3, <2>8, <4>1 DEF g
    <3> QED
      BY <3>2, <3>3
  <2>10. items = [i \in 1 .. Cardinality(S) + n |-> items[i]]
    BY <2>8
  <2> QED
    BY <1>8, <2>2, <2>9, <2>10
<1>11. \A m : U = HitsIn(h, 1, m) => items = ItemsUpto(req, m)
  BY <1>10 DEF ItemsUpto, h
<1>12. CursorOk(req, answer.page.next)
  <2>1. CASE n = k
    BY <1>5, <1>7, <2>1
  <2>2. CASE n # k /\ n = 0
    BY <1>3, <1>7, <2>2
  <2>3. CASE n # k /\ n # 0
    <3>1. n \in 1 .. k - 1 /\ n \in 1 .. k /\ n < k
      BY <1>3, <2>3
    <3> QED
      BY <1>5, <1>7, <2>3, <3>1
  <2> QED
    BY <2>1, <2>2, <2>3
<1>13. ASSUME answer.page.next # NoCursor
       PROVE  items = ItemsUpto(req, From(answer.page.next))
  <2>1. CASE n = k
    <3>1. From(answer.page.next) = b
      BY <1>5, <1>7, <1>13, <2>1 DEF From
    <3> QED
      BY <1>9, <1>11, <2>1, <3>1
  <2>2. CASE n # k /\ n = 0
    <3>1. answer.page.next = cursor /\ c = a
      BY <1>3, <1>7, <2>2 DEF c
    <3> QED
      BY <1>9, <1>11, <3>1 DEF a
  <2>3. CASE n # k /\ n # 0
    <3>1. n \in 1 .. k - 1 /\ n \in 1 .. k /\ n < k
      BY <1>3, <2>3
    <3>2. From(answer.page.next) = InOrder(T)[n]
      BY <1>5, <1>7, <1>13, <2>3, <3>1 DEF From
    <3> QED
      BY <1>9, <1>11, <2>3, <3>2 DEF c
  <2> QED
    BY <2>1, <2>2, <2>3
<1>14. ASSUME ~answer.page.truncated
       PROVE  items = AllItems(req)
  <2>1. n = k /\ T = HitsIn(h, a + 1, Len(h)) /\ a <= Len(h) /\ Len(h) \in Nat
    BY <1>1, <1>5, <1>7, <1>14 DEF h
  <2>2. n \in 0 .. Cardinality(HitsIn(h, a + 1, Len(h))) /\ n = Cardinality(HitsIn(h, a + 1, Len(h)))
    BY <2>1 DEF k
  <2>3. U = WithFirst(HitsIn(h, 1, a), HitsIn(h, a + 1, Len(h)), n)
    BY <2>1 DEF S, U
  <2>4. U = HitsIn(h, 1, Len(h))
    BY <1>1, <2>1, <2>2, <2>3, FirstMatches
  <2> QED
    BY <1>11, <2>4 DEF AllItems, h
<1>15. \E m \in 0 .. Len(ViewHits(req)) : items = ItemsUpto(req, m)
  <2>1. c \in 0 .. Len(h)
    BY <1>1, <1>9 DEF h
  <2> QED
    BY <1>9, <1>11, <2>1 DEF h
<1> QED
  BY <1>7, <1>12, <1>13, <1>14, <1>15

\* A cursor that names its walk and an ordinal.
StandsAt(req, c, n) == c.kind = WalkKind(req) /\ c.ctx = WalkContext(req) /\ c.at = n

\* A page made by the shared scan.
ScannedPage(req, page, s) ==
    /\ IsPage(page) /\ page.items = s.ordinals /\ page.truncated = s.truncated
    /\ DOMAIN page.item_cursors = DOMAIN s.ordinals
    /\ \A i \in DOMAIN s.ordinals : StandsAt(req, page.item_cursors[i], s.ordinals[i])
    /\ IF s.truncated THEN StandsAt(req, page.next, s.last) ELSE page.next = NoCursor

\* The limits of a scan are positive.
LEMMA LimitsArePositive ==
    ASSUME NEW items \in Int, NEW scan \in Int
    PROVE  ItemLimit(items) \in Nat \ {0} /\ ScanLimit(items, scan) \in Nat \ {0}
BY LimitsAssumption DEF ItemLimit, ScanLimit, Clamp

\* Such a page reads on from its cursor.
LEMMA ScannedPageReadsOn ==
    ASSUME NEW req, req.view \in RecordViews \cup LogViews, Len(ViewHits(req)) \in Nat,
           NEW cursor, CursorOk(req, cursor), NEW items \in Int, NEW scan \in Int,
           NEW s, s = Scan(ViewHits(req), From(cursor), ItemLimit(items), ScanLimit(items, scan)),
           NEW page, ScannedPage(req, page, s)
    PROVE  ReadsOn(req, cursor, page, s.last)
<1> DEFINE h == ViewHits(req)
           a == From(cursor)
           T == HitsIn(h, a + 1, s.last)
           k == Cardinality(T)
<1>1. /\ req.view # "query_results" /\ WalkKind(req) \in {"ordinal", "log"}
      /\ NoCursor.kind = "none"
  BY DEF RecordViews, LogViews, WalkKind, NoCursor
<1>2. a \in 0 .. Len(h)
  BY DEF CursorOk, From
<1>3. /\ s.last \in a .. Len(h) /\ s.ordinals = InOrder(T) /\ s.truncated \in BOOLEAN
      /\ s.truncated => a < s.last /\ s.last < Len(h)
      /\ ~s.truncated => s.last = Len(h)
  <2>1. ItemLimit(items) \in Nat \ {0} /\ ScanLimit(items, scan) \in Nat \ {0}
    BY LimitsArePositive
  <2> HIDE DEF h, a
  <2>2. s = Scan(h, a, ItemLimit(items), ScanLimit(items, scan)) /\ Len(h) \in Nat
    BY DEF h, a
  <2>3. GoesForward(h, a, s)
    BY <1>2, <2>1, <2>2, ScanGoesForward
  <2> QED
    BY <2>3, Zenon DEF GoesForward
<1> HIDE DEF h, a
<1>4. T \subseteq a + 1 .. s.last /\ T \subseteq Int /\ IsFiniteSet(T)
  BY <1>2, <1>3, HitsAreFinite DEF h
<1>5. k \in Nat /\ InOrder(T) \in [1 .. k -> T]
  BY <1>4, InOrderLists, FS_CardinalityType
<1> HIDE DEF T, k
<1>6. \A c, n : StandsAt(req, c, n) /\ n \in 1 .. Len(h) =>
          CursorOk(req, c) /\ c # NoCursor /\ Ordinal(c) = n
  BY <1>1 DEF StandsAt, CursorOk, Ordinal, h
<1>7. \A i \in 1 .. k : InOrder(T)[i] \in 1 .. Len(h)
  <2>1. TAKE i \in 1 .. k
  <2>2. InOrder(T)[i] \in a + 1 .. s.last
    BY <1>4, <1>5
  <2> QED
    BY <1>2, <1>3, <2>2
<1>8. DOMAIN InOrder(T) = 1 .. k
  BY <1>5
<1>9. /\ IsPage(page) /\ page.items = InOrder(T) /\ page.truncated = s.truncated
      /\ DOMAIN page.item_cursors = 1 .. k
      /\ \A i \in 1 .. k : StandsAt(req, page.item_cursors[i], InOrder(T)[i])
      /\ IF s.truncated THEN StandsAt(req, page.next, s.last) ELSE page.next = NoCursor
  BY <1>3, <1>8 DEF ScannedPage
<1>10. page.items = [i \in 1 .. k |-> Shown(req, InOrder(T)[i])]
  BY <1>1, <1>5, <1>9 DEF Shown
<1>11. \A i \in 1 .. k - 1 :
           /\ CursorOk(req, page.item_cursors[i]) /\ page.item_cursors[i] # NoCursor
           /\ Ordinal(page.item_cursors[i]) = InOrder(T)[i]
  <2>1. TAKE i \in 1 .. k - 1
  <2>2. i \in 1 .. k
    BY <1>5
  <2> QED
    BY <1>6, <1>7, <1>9, <2>2
<1>12. CursorOk(req, page.next) /\ (page.next # NoCursor => Ordinal(page.next) = s.last)
  <2>1. s.truncated => s.last \in 1 .. Len(h)
    BY <1>2, <1>3
  <2>2. CASE s.truncated
    BY <1>6, <1>9, <2>1, <2>2
  <2>3. CASE ~s.truncated
    BY <1>9, <2>3 DEF CursorOk
  <2> QED
    BY <2>2, <2>3
<1>13. ~page.truncated => T = HitsIn(h, a + 1, Len(h))
  BY <1>3, <1>9 DEF T
<1> QED
  BY <1>3, <1>9, <1>10, <1>11, <1>12, <1>13 DEF ReadsOn, T, k, h, a

-----------------------------------------------------------------------------
(***************************************************************************)
(* The rows of a query's output.                                           *)
(***************************************************************************)

\* The row that starts behind byte x.
Row(bytes, x) ==
    [end |-> LineEnds(bytes, x), value |-> Redact(LineValue(bytes, x, LineEnds(bytes, x)))]

\* The starts of the rows are finitely many, and the rows are theirs.
LEMMA StartsAreFinite ==
    ASSUME NEW V, NEW bytes \in Seq(V), NEW offset \in Nat
    PROVE  /\ LineStarts(bytes, offset) \subseteq offset .. Len(bytes) - 1
           /\ LineStarts(bytes, offset) \subseteq Int
           /\ IsFiniteSet(LineStarts(bytes, offset))
           /\ Cardinality(LineStarts(bytes, offset)) \in Nat
<1>1. LineStarts(bytes, offset) \in SUBSET (offset .. Len(bytes) - 1)
  BY DEF LineStarts
<1>2. IsFiniteSet(offset .. Len(bytes) - 1)
  BY FS_Interval
<1>3. IsFiniteSet(LineStarts(bytes, offset))
  BY <1>1, <1>2, FS_Subset
<1> QED
  BY <1>1, <1>3, FS_CardinalityType

LEMMA RowsAreLines ==
    ASSUME NEW offset \in Nat, NEW V, inv.stdout \in Seq(V)
    PROVE  LET S == LineStarts(inv.stdout, offset)
           IN /\ RowsOf(offset) = [i \in 1 .. Cardinality(S) |-> Row(inv.stdout, InOrder(S)[i])]
              /\ Len(RowsOf(offset)) = Cardinality(S)
<1> DEFINE S == LineStarts(inv.stdout, offset)
           W == {Row(inv.stdout, InOrder(S)[i]) : i \in 1 .. Cardinality(S)}
<1>1. Cardinality(S) \in Nat
  BY StartsAreFinite
<1>2. DOMAIN InOrder(S) = 1 .. Cardinality(S)
  BY DEF InOrder
<1>3. RowsOf(offset) = [i \in 1 .. Cardinality(S) |-> Row(inv.stdout, InOrder(S)[i])]
  <2> HIDE DEF S
  <2>1. RowsFrom(inv.stdout, offset) = RowsAt(inv.stdout, InOrder(S))
    BY DEF RowsFrom, S
  <2>2. RowsAt(inv.stdout, InOrder(S)) =
          [i \in 1 .. Cardinality(S) |->
             [end   |-> LineEnds(inv.stdout, InOrder(S)[i]),
              value |-> LineValue(inv.stdout, InOrder(S)[i], LineEnds(inv.stdout, InOrder(S)[i]))]]
    BY <1>2 DEF RowsAt
  <2> QED
    BY <2>1, <2>2 DEF RowsOf, Row
<1>4. RowsOf(offset) \in [1 .. Cardinality(S) -> W]
  BY <1>3
<1> HIDE DEF W, S
<1>5. Len(RowsOf(offset)) = Cardinality(S)
  BY <1>1, <1>4, ListIsSeq
<1> QED
  BY <1>3, <1>5 DEF S

\* A row ends behind its start, at a newline unless the output ends there, and no other
\* row starts in between.
LEMMA LineEndsFirst ==
    ASSUME NEW V, NEW bytes \in Seq(V), NEW x \in 0 .. Len(bytes) - 1
    PROVE  /\ LineEnds(bytes, x) \in x + 1 .. Len(bytes)
           /\ bytes[LineEnds(bytes, x)] = Newline \/ LineEnds(bytes, x) = Len(bytes)
           /\ \A y \in LineStarts(bytes, 0) : x < y => LineEnds(bytes, x) <= y
           /\ \A y \in x + 1 .. Len(bytes) : bytes[y] = Newline => LineEnds(bytes, x) <= y
<1> DEFINE N == {i \in x + 1 .. Len(bytes) : bytes[i] = Newline}
           e == LineEnds(bytes, x)
<1>0. Len(bytes) \in Nat
  OBVIOUS
<1>1. \A y \in LineStarts(bytes, 0) : x < y => y \in N /\ y < Len(bytes)
  <2>1. TAKE y \in LineStarts(bytes, 0)
  <2>2. y \in 0 .. Len(bytes) - 1 /\ (y = 0 \/ bytes[y] = Newline)
    BY DEF LineStarts
  <2> QED
    BY <1>0, <2>2
<1>2. CASE N = {}
  <2>1. e = Len(bytes)
    BY <1>2 DEF LineEnds
  <2>2. e \in x + 1 .. Len(bytes)
    BY <1>0, <2>1
  <2>3. \A y \in x + 1 .. Len(bytes) : bytes[y] # Newline
    BY <1>2
  <2> QED
    BY <1>1, <1>2, <2>1, <2>2, <2>3
<1>3. CASE N # {}
  <2>1. e = Min(N)
    BY <1>3 DEF LineEnds
  <2>2. N \subseteq 0 .. Len(bytes)
    BY <1>0
  <2>3. Min(N) \in N /\ \A y \in N : Min(N) <= y
    <3> HIDE DEF N
    <3> QED
      BY <1>0, <1>3, <2>2, ExtremesExist
  <2>4. e \in x + 1 .. Len(bytes) /\ bytes[e] = Newline
    BY <2>1, <2>3
  <2> HIDE DEF e
  <2>5. \A y \in x + 1 .. Len(bytes) : bytes[y] = Newline => e <= y
    BY <2>1, <2>3
  <2> QED
    BY <1>1, <2>1, <2>3, <2>4, <2>5 DEF e
<1> QED
  BY <1>2, <1>3

\* Where the rows of the output end: the ones before the last at a newline.
LEMMA RowsEnd ==
    ASSUME NEW V, inv.stdout \in Seq(V), NEW n \in 1 .. Len(RowsOf(0))
    PROVE  LET S == LineStarts(inv.stdout, 0)
           IN /\ RowsOf(0)[n].end = LineEnds(inv.stdout, InOrder(S)[n])
              /\ InOrder(S)[n] \in S /\ n \in 1 .. Cardinality(S)
              /\ InOrder(S)[n] \in 0 .. Len(inv.stdout) - 1
              /\ RowsOf(0)[n].end \in 1 .. Len(inv.stdout)
              /\ n < Len(RowsOf(0)) => inv.stdout[RowsOf(0)[n].end] = Newline
<1> DEFINE bytes == inv.stdout
           S == LineStarts(bytes, 0)
           x == InOrder(S)[n]
           e == LineEnds(bytes, x)
<1>0. Len(bytes) \in Nat
  OBVIOUS
<1>1. /\ S \subseteq 0 .. Len(bytes) - 1 /\ S \subseteq Int /\ IsFiniteSet(S)
      /\ Cardinality(S) \in Nat
  BY StartsAreFinite
<1>2. /\ RowsOf(0) = [i \in 1 .. Cardinality(S) |-> Row(bytes, InOrder(S)[i])]
      /\ Len(RowsOf(0)) = Cardinality(S)
  BY RowsAreLines
<1> HIDE DEF S, bytes
<1>3. n \in 1 .. Cardinality(S)
  BY <1>2
<1>4. /\ \A i \in 1 .. Cardinality(S) : InOrder(S)[i] \in S
      /\ \A i, j \in 1 .. Cardinality(S) : i < j => InOrder(S)[i] < InOrder(S)[j]
  BY <1>1, InOrderLists
<1>5. x \in S /\ x \in 0 .. Len(bytes) - 1
  BY <1>1, <1>3, <1>4
<1>6. RowsOf(0)[n].end = e
  BY <1>2, <1>3 DEF Row
<1>7. /\ e \in x + 1 .. Len(bytes)
      /\ bytes[e] = Newline \/ e = Len(bytes)
      /\ \A y \in S : x < y => e <= y
  <2> HIDE DEF x
  <2> QED
    BY <1>5, LineEndsFirst DEF S, bytes
<1>8. ASSUME n < Len(RowsOf(0)) PROVE bytes[e] = Newline
  <2>1. n + 1 \in 1 .. Cardinality(S) /\ n < n + 1
    BY <1>1, <1>2, <1>3, <1>8
  <2>2. InOrder(S)[n + 1] \in S /\ x < InOrder(S)[n + 1]
    BY <1>3, <1>4, <2>1
  <2>a. \A z \in S : z < Len(bytes) /\ z \in Int
    BY <1>0, <1>1
  <2> HIDE DEF x
  <2>3. PICK y \in S : y = InOrder(S)[n + 1] /\ x < y /\ y < Len(bytes) /\ y \in Int
    BY <2>a, <2>2
  <2>4. e <= y
    BY <1>7, <2>3
  <2>5. e # Len(bytes)
    BY <1>0, <1>7, <2>3, <2>4
  <2> QED
    BY <1>7, <2>5
<1>9. e \in 1 .. Len(bytes)
  BY <1>0, <1>5, <1>7
<1> QED
  BY <1>3, <1>5, <1>6, <1>8, <1>9 DEF S, bytes

\* Reading from the end of a complete row yields the rows behind it.
LEMMA RowsAfter ==
    ASSUME NEW V, inv.stdout \in Seq(V), NEW n \in 1 .. Len(RowsOf(0)),
           NEW o, o = RowsOf(0)[n].end, inv.stdout[o] = Newline
    PROVE  /\ Len(RowsOf(o)) \in Nat /\ n + Len(RowsOf(o)) = Len(RowsOf(0))
           /\ DOMAIN RowsOf(o) = 1 .. Len(RowsOf(o))
           /\ \A i \in 1 .. Len(RowsOf(o)) : RowsOf(o)[i] = RowsOf(0)[n + i]
<1> DEFINE bytes == inv.stdout
           S == LineStarts(bytes, 0)
           T == LineStarts(bytes, o)
           x == InOrder(S)[n]
           P == {y \in S : y < o}
<1>0. Len(bytes) \in Nat
  OBVIOUS
<1>1. /\ o = LineEnds(bytes, x) /\ x \in S /\ n \in 1 .. Cardinality(S)
      /\ x \in 0 .. Len(bytes) - 1 /\ o \in 1 .. Len(bytes)
  BY RowsEnd
<1>2. /\ S \subseteq 0 .. Len(bytes) - 1 /\ S \subseteq Int /\ IsFiniteSet(S)
      /\ Cardinality(S) \in Nat
      /\ T \subseteq o .. Len(bytes) - 1 /\ T \subseteq Int /\ IsFiniteSet(T)
      /\ Cardinality(T) \in Nat
  <2>1. o \in Nat /\ 0 \in Nat
    BY <1>1
  <2>2. PICK z \in Nat : z = 0
    OBVIOUS
  <2> HIDE DEF x
  <2>3. /\ LineStarts(bytes, z) \subseteq z .. Len(bytes) - 1
        /\ LineStarts(bytes, z) \subseteq Int /\ IsFiniteSet(LineStarts(bytes, z))
        /\ Cardinality(LineStarts(bytes, z)) \in Nat
    BY StartsAreFinite
  <2>4. /\ T \subseteq o .. Len(bytes) - 1 /\ T \subseteq Int /\ IsFiniteSet(T)
        /\ Cardinality(T) \in Nat
    BY <2>1, StartsAreFinite
  <2> HIDE DEF T
  <2> QED
    BY <2>2, <2>3, <2>4
<1>3. /\ RowsOf(0) = [i \in 1 .. Cardinality(S) |-> Row(bytes, InOrder(S)[i])]
      /\ Len(RowsOf(0)) = Cardinality(S)
  BY RowsAreLines
<1>4. /\ RowsOf(o) = [i \in 1 .. Cardinality(T) |-> Row(bytes, InOrder(T)[i])]
      /\ Len(RowsOf(o)) = Cardinality(T)
  <2>1. o \in Nat
    BY <1>1
  <2> QED
    BY <2>1, RowsAreLines
<1>5. x < o /\ \A y \in S : x < y => o <= y
  BY <1>0, <1>1, LineEndsFirst
<1>6. T = {y \in S : o <= y}
  <2>1. \A y : y \in S <=> y \in 0 .. Len(bytes) - 1 /\ (y = 0 \/ bytes[y] = Newline)
    BY DEF LineStarts
  <2>2. \A y : y \in T <=> y \in o .. Len(bytes) - 1 /\ (y = o \/ bytes[y] = Newline)
    BY DEF LineStarts
  <2> HIDE DEF S, T
  <2>3. \A y \in T : y \in S /\ o <= y
    BY <1>0, <1>1, <2>1, <2>2 DEF bytes
  <2>4. \A y \in S : o <= y => y \in T
    BY <1>0, <1>1, <2>1, <2>2
  <2> QED
    BY <2>3, <2>4
<1> HIDE DEF S, T, bytes
<1>7. /\ \A i \in 1 .. Cardinality(S) : InOrder(S)[i] \in S
      /\ \A y \in S : \E i \in 1 .. Cardinality(S) : InOrder(S)[i] = y
      /\ \A i, j \in 1 .. Cardinality(S) : i < j => InOrder(S)[i] < InOrder(S)[j]
  BY <1>2, InOrderLists
<1>8. P \subseteq Int /\ Cardinality(P) = n /\ IsFiniteSet(P)
  <2> DEFINE f == [i \in 1 .. n |-> InOrder(S)[i]]
  <2>1. \A i \in 1 .. n : i \in 1 .. Cardinality(S) /\ InOrder(S)[i] \in P
    <3>1. TAKE i \in 1 .. n
    <3>2. i \in 1 .. Cardinality(S) /\ (i = n \/ i < n)
      BY <1>1, <1>2
    <3>3. InOrder(S)[i] \in S /\ (InOrder(S)[i] = x \/ InOrder(S)[i] < x)
      BY <1>1, <1>7, <3>2
    <3>4. PICK y \in S : y = InOrder(S)[i] /\ y \in Int
      BY <1>2, <3>3
    <3>5. y < o
      <4>1. x \in Int /\ o \in Int /\ x < o
        BY <1>1, <1>2, <1>5
      <4>2. y \in Int /\ (y = x \/ y < x)
        BY <3>3, <3>4
      <4> QED
        BY <4>1, <4>2
    <3> QED
      BY <3>2, <3>4, <3>5
  <2>2. \A y \in P : \E i \in 1 .. n : f[i] = y
    <3>1. TAKE y \in P
    <3>2. PICK i \in 1 .. Cardinality(S) : InOrder(S)[i] = y
      BY <1>7
    <3>3. ~(x < y)
      BY <1>1, <1>2, <1>5
    <3>4. ~(n < i)
      BY <1>1, <1>7, <3>2, <3>3
    <3>5. i \in 1 .. n
      BY <1>1, <1>2, <3>2, <3>4
    <3> QED
      BY <3>2, <3>5
  <2>3. P \subseteq Int /\ f \in [1 .. n -> P] /\ n \in Nat
    <3>1. P \subseteq Int
      BY <1>2
    <3>2. n \in Nat
      BY <1>1, <1>2
    <3> HIDE DEF P
    <3>3. f \in [1 .. n -> P]
      BY <2>1
    <3> QED
      BY <3>1, <3>2, <3>3
  <2>4. \A i, j \in 1 .. n : i < j => f[i] < f[j]
    BY <1>7, <2>1
  <2> HIDE DEF f, P
  <2> QED
    BY <2>2, <2>3, <2>4, InOrderIsUnique
<1>9. AllBelow(P, T)
  <2>1. \A y \in P : y \in Int /\ y < o
    BY <1>2
  <2>2. \A y \in T : y \in Int /\ o <= y
    BY <1>2, <1>6
  <2> HIDE DEF P
  <2> QED
    BY <1>1, <2>1, <2>2 DEF AllBelow
<1>10. WithFirst(P, T, Cardinality(T)) = S
  <2>1. /\ \A i \in 1 .. Cardinality(T) : InOrder(T)[i] \in T
        /\ \A y \in T : \E i \in 1 .. Cardinality(T) : InOrder(T)[i] = y
    BY <1>2, InOrderLists
  <2>2. {InOrder(T)[i] : i \in 1 .. Cardinality(T)} = T
    BY <2>1
  <2>3. S = P \cup T
    <3>1. \A y \in S : y < o \/ o <= y
      BY <1>1, <1>2
    <3>2. T \subseteq S /\ \A y \in S : o <= y => y \in T
      BY <1>6
    <3> QED
      BY <3>1, <3>2
  <2> QED
    BY <2>2, <2>3 DEF WithFirst
<1>11. JoinedTo(P, T, Cardinality(T), S)
  <2>1. Cardinality(T) \in 0 .. Cardinality(T)
    BY <1>2
  <2> HIDE DEF P
  <2> QED
    BY <1>2, <1>8, <1>9, <1>10, <2>1, ReadOn
<1>12. /\ Cardinality(S) = n + Cardinality(T)
       /\ \A i \in 1 .. Cardinality(T) : InOrder(S)[n + i] = InOrder(T)[i]
  BY <1>8, <1>11 DEF JoinedTo
<1>13. \A i \in 1 .. Cardinality(T) : n + i \in 1 .. Cardinality(S)
  <2>1. n \in Nat /\ 1 <= n
    BY <1>1, <1>2
  <2> QED
    BY <1>2, <1>12, <2>1
<1>14. \A i \in 1 .. Cardinality(T) : RowsOf(o)[i] = RowsOf(0)[n + i]
  BY <1>3, <1>4, <1>12, <1>13
<1>15. DOMAIN RowsOf(o) = 1 .. Cardinality(T)
  BY <1>4
<1> QED
  BY <1>2, <1>3, <1>4, <1>12, <1>14, <1>15

\* A set of ordinals with every ordinal below one of its own is an initial range.
LEMMA InitialRange ==
    ASSUME NEW k \in Nat, NEW S, S \subseteq 1 .. k,
           \A x \in S : \A y \in 1 .. k : y < x => y \in S
    PROVE  Cardinality(S) \in 0 .. k /\ S = 1 .. Cardinality(S)
<1>1. CASE S = {}
  <2>1. Cardinality(S) = 0
    BY <1>1, FS_EmptySet
  <2> QED
    BY <1>1, <2>1
<1>2. CASE S # {}
  <2>1. S \subseteq 0 .. k
    OBVIOUS
  <2>2. PICK T : T = {k - y : y \in S}
    OBVIOUS
  <2>3. T \subseteq Nat /\ T # {}
    <3>1. \A y \in S : k - y \in Nat
      OBVIOUS
    <3> QED
      BY <1>2, <2>2, <3>1
  <2>4. PICK z \in T : \A t \in T : z <= t
    BY <2>3, LeastNumber
  <2>5. PICK m \in S : z = k - m
    BY <2>2, <2>4
  <2>6. \A y \in S : y <= m
    <3>1. TAKE y \in S
    <3>2. k - m <= k - y
      BY <2>2, <2>4, <2>5
    <3> QED
      BY <3>2
  <2>7. m \in 1 .. k
    BY <2>5
  <2>8. S = 1 .. m
    <3>1. \A y \in S : y \in 1 .. m
      BY <2>6, <2>7
    <3>2. \A y \in 1 .. m : y \in S
      BY <2>5, <2>7
    <3> QED
      BY <3>1, <3>2
  <2>9. Cardinality(S) = m
    <3>1. 1 \in Int /\ m \in Int /\ 1 <= m
      BY <2>7
    <3>2. Cardinality(1 .. m) = m - 1 + 1
      BY <3>1, FS_Interval
    <3> QED
      BY <2>7, <2>8, <3>2
  <2> QED
    BY <2>7, <2>8, <2>9
<1> QED
  BY <1>1, <1>2

\* A set moved up by k.
Above(S, k) == {k + x : x \in S}

\* Its elements keep their order.
LEMMA AboveInOrder ==
    ASSUME NEW S, S \subseteq Int, IsFiniteSet(S), NEW k \in Nat
    PROVE  /\ Above(S, k) \subseteq Int /\ IsFiniteSet(Above(S, k))
           /\ Cardinality(Above(S, k)) = Cardinality(S)
           /\ \A i \in 1 .. Cardinality(S) : InOrder(Above(S, k))[i] = k + InOrder(S)[i]
<1> DEFINE c == Cardinality(S)
           U == Above(S, k)
           f == [i \in 1 .. c |-> k + InOrder(S)[i]]
<1>1. /\ c \in Nat /\ InOrder(S) \in [1 .. c -> S]
      /\ \A x \in S : \E n \in 1 .. c : InOrder(S)[n] = x
      /\ \A m, n \in 1 .. c : m < n => InOrder(S)[m] < InOrder(S)[n]
  BY InOrderLists, FS_CardinalityType
<1> HIDE DEF c
<1>2. \A i \in 1 .. c : InOrder(S)[i] \in S /\ InOrder(S)[i] \in Int
  BY <1>1
<1>3. U \subseteq Int
  BY DEF Above
<1>4. f \in [1 .. c -> U]
  BY <1>2 DEF Above
<1>5. \A x \in U : \E n \in 1 .. c : f[n] = x
  BY <1>1 DEF Above
<1>6. \A m, n \in 1 .. c : m < n => f[m] < f[n]
  <2>1. TAKE m, n \in 1 .. c
  <2>2. InOrder(S)[m] \in Int /\ InOrder(S)[n] \in Int
    BY <1>2
  <2>3. m < n => InOrder(S)[m] < InOrder(S)[n]
    BY <1>1
  <2> QED
    BY <2>2, <2>3
<1> HIDE DEF U
<1>7. IsFiniteSet(U) /\ Cardinality(U) = c /\ f = InOrder(U)
  <2> HIDE DEF f
  <2> QED
    BY <1>1, <1>3, <1>4, <1>5, <1>6, InOrderIsUnique
<1> QED
  BY <1>3, <1>7 DEF U, c

\* The matches up to an ordinal are no fewer than those up to an earlier one, and the
\* same ones when they are as many.
LEMMA HitsGrow ==
    ASSUME NEW hit, NEW i \in Int, NEW j \in Int, i <= j
    PROVE  /\ HitsIn(hit, 1, i) \subseteq HitsIn(hit, 1, j)
           /\ Cardinality(HitsIn(hit, 1, i)) \in Nat
           /\ Cardinality(HitsIn(hit, 1, j)) \in Nat
           /\ Cardinality(HitsIn(hit, 1, i)) <= Cardinality(HitsIn(hit, 1, j))
           /\ Cardinality(HitsIn(hit, 1, i)) = Cardinality(HitsIn(hit, 1, j)) =>
                  HitsIn(hit, 1, i) = HitsIn(hit, 1, j)
<1>1. PICK one \in Int : one = 1
  OBVIOUS
<1>2. IsFiniteSet(HitsIn(hit, 1, i)) /\ IsFiniteSet(HitsIn(hit, 1, j))
  BY <1>1, HitsAreFinite
<1>3. HitsIn(hit, 1, i) \subseteq HitsIn(hit, 1, j)
  BY DEF HitsIn
<1>4. Cardinality(HitsIn(hit, 1, i)) \in Nat /\ Cardinality(HitsIn(hit, 1, j)) \in Nat
  BY <1>2, FS_CardinalityType
<1> QED
  BY <1>2, <1>3, <1>4, FS_Subset

\* The rows of a page: those seen, and of them those the page had room for.
SeenRows(hit, n, s) ==
    /\ s.seen \in 0 .. n /\ s.last \in 0 .. s.seen
    /\ s.shown = InOrder(HitsIn(hit, 1, s.last))
    /\ s.hits = Cardinality(HitsIn(hit, 1, s.seen))
    /\ s.exhausted \in BOOLEAN /\ (s.exhausted => s.seen < n)

LEMMA FileScanSees ==
    ASSUME NEW rows, NEW n \in Nat, DOMAIN rows = 1 .. n, Len(rows) = n, NEW hit,
           NEW items \in Nat \ {0}, NEW scan \in Nat \ {0}, NEW filter, NEW known,
           NEW s, s = FileScan(rows, hit, items, scan, filter, known)
    PROVE  /\ SeenRows(hit, n, s)
           /\ ~(filter = "none" /\ known # Unknown) /\ ~s.exhausted => s.seen = n
<1> DEFINE room(i) == Cardinality(HitsIn(hit, 1, i - 1)) < items
           quick == filter = "none" /\ known # Unknown
           seen == {i \in 1 .. n : i <= scan /\ (quick => room(i))}
           open == {i \in seen : room(i)}
<1>1. \A i, j \in 1 .. n : i < j /\ room(j) => room(i)
  <2>1. TAKE i, j \in 1 .. n
  <2>2. PICK x \in Int, y \in Int : x = i - 1 /\ y = j - 1
    OBVIOUS
  <2>3. i < j => x <= y
    BY <2>2
  <2>4. i < j => /\ Cardinality(HitsIn(hit, 1, x)) \in Nat
                 /\ Cardinality(HitsIn(hit, 1, y)) \in Nat
                 /\ Cardinality(HitsIn(hit, 1, x)) <= Cardinality(HitsIn(hit, 1, y))
    BY <2>3, HitsGrow
  <2> QED
    BY <2>2, <2>4
<1> HIDE DEF room, quick
<1>2. seen \subseteq 1 .. n /\ \A x \in seen : \A y \in 1 .. n : y < x => y \in seen
  BY <1>1
<1>3. open \subseteq 1 .. n /\ \A x \in open : \A y \in 1 .. n : y < x => y \in open
  BY <1>1
<1>4. /\ Cardinality(seen) \in 0 .. n /\ seen = 1 .. Cardinality(seen)
      /\ Cardinality(open) \in 0 .. n /\ open = 1 .. Cardinality(open)
  <2> HIDE DEF seen, open
  <2>1. Cardinality(seen) \in 0 .. n /\ seen = 1 .. Cardinality(seen)
    BY <1>2, InitialRange
  <2>2. Cardinality(open) \in 0 .. n /\ open = 1 .. Cardinality(open)
    BY <1>3, InitialRange
  <2> QED
    BY <2>1, <2>2
<1>5. s = [seen |-> Cardinality(seen), shown |-> InOrder({i \in seen : hit[i] /\ room(i)}),
           last |-> Cardinality(open), hits |-> Cardinality({i \in seen : hit[i]}),
           exhausted |-> n > scan /\ Cardinality(seen) = scan]
  BY DEF FileScan, room, quick
<1>6. open \subseteq seen
  OBVIOUS
<1>7. {i \in seen : hit[i] /\ room(i)} = {i \in open : hit[i]}
  OBVIOUS
<1>8. ~quick => seen = {i \in 1 .. n : i <= scan}
  OBVIOUS
<1> HIDE DEF seen, open
<1>9. PICK m \in 0 .. n : m = Cardinality(seen)
  BY <1>4
<1>10. PICK l \in 0 .. n : l = Cardinality(open)
  BY <1>4
<1>11. seen = 1 .. m /\ open = 1 .. l
  BY <1>4, <1>9, <1>10
<1>12. l <= m
  <2>1. 1 .. l \subseteq 1 .. m
    BY <1>6, <1>11
  <2>2. l \in Nat /\ m \in Nat
    OBVIOUS
  <2>3. l = 0 \/ l \in 1 .. l
    BY <2>2
  <2> QED
    BY <2>1, <2>2, <2>3
<1>13. {i \in seen : hit[i]} = HitsIn(hit, 1, m) /\ {i \in open : hit[i]} = HitsIn(hit, 1, l)
  BY <1>11 DEF HitsIn
<1>14. s = [seen |-> m, shown |-> InOrder(HitsIn(hit, 1, l)), last |-> l,
            hits |-> Cardinality(HitsIn(hit, 1, m)), exhausted |-> n > scan /\ m = scan]
  BY <1>5, <1>7, <1>9, <1>10, <1>13
<1>15. s.seen = m /\ s.last = l /\ s.shown = InOrder(HitsIn(hit, 1, l))
       /\ s.hits = Cardinality(HitsIn(hit, 1, m)) /\ s.exhausted = (n > scan /\ m = scan)
  BY <1>14
<1>16. ~quick /\ ~(n > scan /\ m = scan) => m = n
  <2>1. SUFFICES ASSUME ~quick, ~(n > scan /\ m = scan) PROVE m = n
    OBVIOUS
  <2>a. \A i \in 1 .. n : i <= scan => i \in 1 .. m
    BY <1>8, <1>11, <2>1
  <2>2. \A i \in 1 .. n : i <= scan => i <= m
    BY <2>a
  <2>3. \A i \in 1 .. m : i <= scan
    BY <1>8, <1>11, <2>1
  <2>4. CASE n <= scan
    BY <1>9, <2>2, <2>4
  <2>5. CASE n > scan
    <3>1. scan <= m
      BY <2>2, <2>5
    <3>2. m <= scan
      BY <1>9, <2>3
    <3> QED
      BY <1>9, <2>1, <2>5, <3>1, <3>2
  <2> QED
    BY <2>4, <2>5
<1>17. (n > scan /\ m = scan) => m < n
  BY <1>9
<1>18. SeenRows(hit, n, s)
  <2>1. s.exhausted \in BOOLEAN /\ (s.exhausted => m < n)
    BY <1>15, <1>17, Zenon
  <2>2. m \in 0 .. n /\ l \in 0 .. m
    BY <1>9, <1>10, <1>12
  <2> QED
    BY <1>15, <2>1, <2>2 DEF SeenRows
<1>19. ~quick /\ ~s.exhausted => m = n
  BY <1>15, <1>16, Zenon
<1> QED
  BY <1>15, <1>18, <1>19, Zenon DEF quick

\* The rows behind the k-th.
RowsFollow(rows, k) ==
    /\ k \in Nat /\ Len(rows) \in Nat /\ DOMAIN rows = 1 .. Len(rows)
    /\ k + Len(rows) = Len(RowsOf(0)) /\ Len(RowsOf(0)) \in Nat
    /\ \A i \in 1 .. Len(rows) : rows[i] = RowsOf(0)[k + i]

\* A request for rows has a hit for each.
LEMMA RowsHaveHits ==
    ASSUME NEW V, inv.stdout \in Seq(V), NEW req, req.view = "query_results"
    PROVE  /\ Len(RowsOf(0)) \in Nat /\ DOMAIN RowsOf(0) = 1 .. Len(RowsOf(0))
           /\ Len(ViewHits(req)) = Len(RowsOf(0))
           /\ ViewHits(req) = RowHits(req, RowsOf(0))
<1>1. PICK z \in Nat : z = 0
  OBVIOUS
<1>2. Len(RowsOf(0)) \in Nat /\ DOMAIN RowsOf(0) = 1 .. Len(RowsOf(0))
  BY <1>1, RowsAreLines, StartsAreFinite
<1>3. ViewHits(req) = RowHits(req, RowsOf(0))
  BY DEF ViewHits
<1> DEFINE k == Len(RowsOf(0))
           f == RowHits(req, RowsOf(0))
<1>4. f = [i \in 1 .. k |-> f[i]]
  BY <1>2 DEF RowHits
<1> HIDE DEF f, k
<1>5. PICK V2 : V2 = {f[i] : i \in 1 .. k}
  OBVIOUS
<1>6. f \in [1 .. k -> V2]
  BY <1>4, <1>5
<1>7. Len(f) = k
  BY <1>2, <1>6, ListIsSeq DEF k
<1> QED
  BY <1>2, <1>3, <1>7 DEF f, k

\* The rows read from a cursor's offset are those behind its ordinal.
LEMMA CursorRowsFollow ==
    ASSUME NEW V, inv.stdout \in Seq(V), NEW req, req.view = "query_results",
           NEW cursor, CursorOk(req, cursor)
    PROVE  /\ RowsFollow(RowsOf(RowStart(cursor).at), From(cursor))
           /\ RowStart(cursor).ordinal = From(cursor) /\ RowStart(cursor).total = From(cursor)
           /\ RowStart(cursor).filtered = Cardinality(HitsIn(ViewHits(req), 1, From(cursor)))
<1>1. /\ Len(RowsOf(0)) \in Nat /\ DOMAIN RowsOf(0) = 1 .. Len(RowsOf(0))
      /\ Len(ViewHits(req)) = Len(RowsOf(0))
  BY RowsHaveHits
<1>2. CASE cursor = NoCursor
  <2>1. /\ From(cursor) = 0 /\ RowStart(cursor).ordinal = 0 /\ RowStart(cursor).total = 0
        /\ RowStart(cursor).filtered = 0 /\ RowStart(cursor).at = 0
    BY <1>2 DEF From, RowStart
  <2>2. RowsFollow(RowsOf(0), 0)
    BY <1>1 DEF RowsFollow
  <2>3. HitsIn(ViewHits(req), 1, 0) = {}
    BY DEF HitsIn
  <2>4. Cardinality(HitsIn(ViewHits(req), 1, 0)) = 0
    BY <2>3, FS_EmptySet
  <2> QED
    BY <2>1, <2>2, <2>4
<1>3. CASE cursor # NoCursor
  <2>1. /\ cursor.kind = "file" /\ Ordinal(cursor) \in 1 .. Len(RowsOf(0))
        /\ RowOk(req, cursor)
    BY <1>1, <1>3 DEF CursorOk, WalkKind, RecordViews, LogViews
  <2>2. Ordinal(cursor) = cursor.ordinal /\ From(cursor) = cursor.ordinal
    BY <1>3, <2>1 DEF Ordinal, From
  <2>3. /\ cursor.at = RowsOf(0)[cursor.ordinal].end /\ inv.stdout[cursor.at] = Newline
        /\ cursor.total = cursor.ordinal
        /\ cursor.filtered = Cardinality(HitsIn(ViewHits(req), 1, cursor.ordinal))
    BY <2>1 DEF RowOk
  <2>4. /\ RowStart(cursor).ordinal = cursor.ordinal /\ RowStart(cursor).total = cursor.ordinal
        /\ RowStart(cursor).filtered = cursor.filtered /\ RowStart(cursor).at = cursor.at
    BY <1>3, <2>3 DEF RowStart
  <2>5. PICK n \in 1 .. Len(RowsOf(0)), o \in {cursor.at} : n = cursor.ordinal
    BY <2>1, <2>2
  <2>6. /\ Len(RowsOf(o)) \in Nat /\ n + Len(RowsOf(o)) = Len(RowsOf(0))
        /\ DOMAIN RowsOf(o) = 1 .. Len(RowsOf(o))
        /\ \A i \in 1 .. Len(RowsOf(o)) : RowsOf(o)[i] = RowsOf(0)[n + i]
    BY <2>3, <2>5, RowsAfter
  <2>7. n \in Nat
    BY <1>1, <2>5
  <2>8. RowsFollow(RowsOf(o), n)
    BY <1>1, <2>6, <2>7 DEF RowsFollow
  <2> QED
    BY <2>2, <2>3, <2>4, <2>5, <2>8
<1> QED
  BY <1>2, <1>3

\* The matches of a page's rows are those of all rows, counted from where it starts.
LEMMA HitsFollow ==
    ASSUME NEW V, inv.stdout \in Seq(V), NEW req, req.view = "query_results",
           NEW rows, NEW k, RowsFollow(rows, k), NEW j \in 0 .. Len(rows)
    PROVE  LET hit == RowHits(req, rows)
               all == ViewHits(req)
           IN /\ HitsIn(all, k + 1, k + j) = Above(HitsIn(hit, 1, j), k)
              /\ Cardinality(HitsIn(all, 1, k + j)) =
                     Cardinality(HitsIn(all, 1, k)) + Cardinality(HitsIn(hit, 1, j))
<1> DEFINE hit == RowHits(req, rows)
           all == ViewHits(req)
           T == HitsIn(all, k + 1, k + j)
           P == HitsIn(all, 1, k)
<1>1. /\ k \in Nat /\ Len(rows) \in Nat /\ DOMAIN rows = 1 .. Len(rows)
      /\ k + Len(rows) = Len(RowsOf(0)) /\ DOMAIN RowsOf(0) = 1 .. Len(RowsOf(0))
      /\ \A i \in 1 .. Len(rows) : rows[i] = RowsOf(0)[k + i]
      /\ all = RowHits(req, RowsOf(0)) /\ Len(RowsOf(0)) \in Nat
  BY RowsHaveHits DEF RowsFollow
<1>2. \A i \in 1 .. Len(rows) : k + i \in 1 .. Len(RowsOf(0)) /\ all[k + i] = hit[i]
  <2>1. TAKE i \in 1 .. Len(rows)
  <2>2. k + i \in 1 .. Len(RowsOf(0))
    BY <1>1
  <2>3. rows[i] = RowsOf(0)[k + i]
    BY <1>1
  <2> QED
    BY <1>1, <2>2, <2>3 DEF RowHits
<1> HIDE DEF hit, all
<1>3. T = Above(HitsIn(hit, 1, j), k)
  <2>1. \A x \in HitsIn(hit, 1, j) : k + x \in T
    <3>1. TAKE x \in HitsIn(hit, 1, j)
    <3>2. x \in 1 .. j /\ hit[x]
      BY DEF HitsIn
    <3>3. x \in 1 .. Len(rows) /\ k + x \in k + 1 .. k + j
      BY <1>1, <3>2
    <3>4. all[k + x]
      BY <1>2, <3>2, <3>3
    <3> QED
      BY <3>3, <3>4 DEF HitsIn
  <2>2. \A y \in T : y - k \in HitsIn(hit, 1, j) /\ y = k + (y - k)
    <3>1. TAKE y \in T
    <3>2. y \in k + 1 .. k + j /\ all[y]
      BY DEF HitsIn
    <3>3. PICK i \in 1 .. Len(rows) : y = k + i /\ i \in 1 .. j /\ y - k = i
      <4>1. y - k \in 1 .. j /\ y = k + (y - k) /\ y - k \in 1 .. Len(rows)
        BY <1>1, <3>2
      <4> QED
        BY <4>1
    <3>4. hit[i]
      BY <1>2, <3>2, <3>3
    <3> QED
      BY <3>3, <3>4 DEF HitsIn
  <2> QED
    BY <2>1, <2>2 DEF Above
<1>4. PICK one \in Int : one = 1
  OBVIOUS
<1>5. j \in Nat /\ k + j \in Nat /\ k <= k + j /\ k \in Int /\ k + 1 \in Int /\ k + j \in Int
  BY <1>1
<1>6. /\ P \subseteq Int /\ IsFiniteSet(P) /\ P \subseteq 1 .. k
  BY <1>4, <1>5, HitsAreFinite
<1>7. /\ T \subseteq Int /\ IsFiniteSet(T) /\ T \subseteq k + 1 .. k + j
  BY <1>5, HitsAreFinite
<1>8. Cardinality(T) \in Nat /\ Cardinality(P) \in Nat
  BY <1>6, <1>7, FS_CardinalityType
<1>9. Cardinality(T) = Cardinality(HitsIn(hit, 1, j))
  <2>1. HitsIn(hit, 1, j) \subseteq Int /\ IsFiniteSet(HitsIn(hit, 1, j))
    BY <1>4, <1>5, HitsAreFinite
  <2> QED
    BY <1>1, <1>3, <2>1, AboveInOrder
<1>10. AllBelow(P, T)
  <2>1. \A x \in P : x \in Int /\ x <= k
    BY <1>1, <1>6
  <2>2. \A y \in T : y \in Int /\ k < y
    BY <1>1, <1>7
  <2> HIDE DEF P, T
  <2> QED
    BY <1>1, <2>1, <2>2 DEF AllBelow
<1>11. Cardinality(T) \in 0 .. Cardinality(T)
  BY <1>8
<1>12. WithFirst(P, T, Cardinality(T)) = HitsIn(all, 1, k + j)
  <2>1. PICK b \in Nat, n \in 0 .. Cardinality(T) : b = k + j /\ n = Cardinality(T)
    BY <1>5, <1>11
  <2> QED
    BY <1>1, <1>5, <2>1, FirstMatches
<1> HIDE DEF P, T
<1>13. JoinedTo(P, T, Cardinality(T), WithFirst(P, T, Cardinality(T)))
  BY <1>6, <1>7, <1>10, <1>11, ReadOn
<1>14. Cardinality(HitsIn(all, 1, k + j)) = Cardinality(P) + Cardinality(T)
  BY <1>12, <1>13 DEF JoinedTo
<1> QED
  BY <1>3, <1>9, <1>14 DEF P, T, hit, all

\* The cursor of a row that is not the last of the output stands behind it.
LEMMA RowCursorStands ==
    ASSUME NEW V, inv.stdout \in Seq(V), NEW req, req.view = "query_results",
           NEW cursor, CursorOk(req, cursor),
           NEW rows, rows = RowsOf(RowStart(cursor).at), NEW i \in 1 .. Len(rows), i < Len(rows),
           NEW c, c = RowCursor(WalkContext(req), RowStart(cursor), rows, RowHits(req, rows), i)
    PROVE  CursorOk(req, c) /\ c # NoCursor /\ Ordinal(c) = From(cursor) + i
<1> DEFINE k == From(cursor)
           L == Len(RowsOf(0))
<1>1. /\ RowsFollow(rows, k) /\ RowStart(cursor).ordinal = k /\ RowStart(cursor).total = k
      /\ RowStart(cursor).filtered = Cardinality(HitsIn(ViewHits(req), 1, k))
  BY CursorRowsFollow
<1>2. L \in Nat /\ Len(ViewHits(req)) = L
  BY RowsHaveHits
<1> HIDE DEF k
<1>3. /\ k \in Nat /\ Len(rows) \in Nat /\ k + Len(rows) = L /\ rows[i] = RowsOf(0)[k + i]
  BY <1>1 DEF RowsFollow
<1>4. PICK n \in 1 .. L : n = k + i /\ n < L
  BY <1>2, <1>3
<1>5. RowsOf(0)[n].end \in 1 .. Len(inv.stdout) /\ inv.stdout[RowsOf(0)[n].end] = Newline
  BY <1>4, RowsEnd
<1>6. c = [kind |-> "file", ctx |-> WalkContext(req), at |-> RowsOf(0)[n].end, ordinal |-> n,
           total |-> n, filtered |-> Cardinality(HitsIn(ViewHits(req), 1, k))
                                       + Cardinality(HitsIn(RowHits(req, rows), 1, i))]
  BY <1>1, <1>3, <1>4 DEF RowCursor, FileCursor
<1>7. Cardinality(HitsIn(ViewHits(req), 1, n)) =
          Cardinality(HitsIn(ViewHits(req), 1, k)) + Cardinality(HitsIn(RowHits(req, rows), 1, i))
  <2>1. PICK j \in 0 .. Len(rows) : j = i
    BY <1>3
  <2> QED
    BY <1>1, <1>4, <2>1, HitsFollow
<1>8. c.kind = "file" /\ c.ctx = WalkContext(req) /\ c.at = RowsOf(0)[n].end /\ c.ordinal = n
      /\ c.total = n /\ c.filtered = Cardinality(HitsIn(ViewHits(req), 1, n))
  BY <1>6, <1>7
<1>9. Ordinal(c) = n
  BY <1>8 DEF Ordinal
<1>10. RowOk(req, c)
  BY <1>5, <1>8 DEF RowOk
<1>11. WalkKind(req) = "file"
  BY DEF WalkKind, RecordViews, LogViews
<1>12. c # NoCursor
  <2>1. NoCursor.kind = "none"
    BY DEF NoCursor
  <2> QED
    BY <1>8, <2>1
<1> QED
  BY <1>2, <1>4, <1>8, <1>9, <1>10, <1>11, <1>12 DEF CursorOk, k

\* The count a page knows of is that of the rows there are.
KnownIsTrue(known) == known = Unknown \/ known = Len(RowsOf(0))

\* A page of rows reads on from its cursor.
LEMMA FilePageReadsOn ==
    ASSUME NEW V, inv.stdout \in Seq(V), NEW req, req.view = "query_results",
           NEW cursor, CursorOk(req, cursor),
           NEW items \in Nat \ {0}, NEW scan \in Nat \ {0}, NEW known, KnownIsTrue(known),
           NEW rows, rows = RowsOf(RowStart(cursor).at), NEW hit, hit = RowHits(req, rows),
           NEW s, s = FileScan(rows, hit, items, scan, req.filter, known),
           NEW page, page = FilePageOf(WalkContext(req), req.filter, rows, hit,
                                       RowStart(cursor), known, s)
    PROVE  ReadsOn(req, cursor, page, From(cursor) + s.last)
<1> DEFINE k == From(cursor)
           start == RowStart(cursor)
           all == ViewHits(req)
           L == Len(RowsOf(0))
           N == Len(rows)
           S == HitsIn(hit, 1, s.last)
           T == HitsIn(all, k + 1, k + s.last)
           t == FileTruncated(rows, s, start, known, req.filter)
           quick == req.filter = "none" /\ known # Unknown
<1>1. /\ RowsFollow(rows, k) /\ start.ordinal = k /\ start.total = k
  BY CursorRowsFollow
<1>2. L \in Nat /\ Len(all) = L
  BY RowsHaveHits
<1> HIDE DEF k, start, all, L
<1>3. /\ k \in Nat /\ N \in Nat /\ k + N = L /\ DOMAIN rows = 1 .. N
      /\ \A i \in 1 .. N : rows[i] = RowsOf(0)[k + i]
  BY <1>1 DEF RowsFollow, L
<1>4. SeenRows(hit, N, s) /\ (~quick /\ ~s.exhausted => s.seen = N)
  BY <1>3, FileScanSees
<1> HIDE DEF N, quick
<1>5. /\ s.seen \in 0 .. N /\ s.last \in 0 .. s.seen /\ s.last \in 0 .. N /\ s.last \in Int
      /\ s.shown = InOrder(S) /\ s.hits = Cardinality(HitsIn(hit, 1, s.seen))
      /\ s.exhausted \in BOOLEAN /\ (s.exhausted => s.seen < N)
  <2>1. /\ s.seen \in 0 .. N /\ s.last \in 0 .. s.seen
    BY <1>4 DEF SeenRows
  <2>2. s.last \in 0 .. N /\ s.last \in Int
    BY <1>3, <2>1
  <2> QED
    BY <1>4, <2>1, <2>2, Zenon DEF SeenRows
<1>6. /\ S \subseteq Int /\ S \subseteq 1 .. s.last /\ IsFiniteSet(S) /\ Cardinality(S) \in Nat
      /\ InOrder(S) \in [1 .. Cardinality(S) -> S]
      /\ \A i, j \in 1 .. Cardinality(S) : i < j => InOrder(S)[i] < InOrder(S)[j]
  <2>1. PICK one \in Int : one = 1
    OBVIOUS
  <2>2. S \subseteq Int /\ S \subseteq 1 .. s.last /\ IsFiniteSet(S)
    BY <1>5, <2>1, HitsAreFinite
  <2> HIDE DEF S
  <2> QED
    BY <2>2, InOrderLists, FS_CardinalityType
<1>7. T = Above(S, k)
  <2>1. PICK j \in 0 .. N : j = s.last
    BY <1>5
  <2> QED
    BY <1>1, <2>1, HitsFollow DEF all, N
<1>8. /\ Cardinality(T) = Cardinality(S)
      /\ \A i \in 1 .. Cardinality(S) : InOrder(T)[i] = k + InOrder(S)[i]
  <2> HIDE DEF S, T
  <2> QED
    BY <1>3, <1>6, <1>7, AboveInOrder
<1>9. \A i \in 1 .. Cardinality(S) : InOrder(S)[i] \in S /\ InOrder(S)[i] \in 1 .. N
  <2>1. \A x \in S : x \in 1 .. N
    BY <1>3, <1>5, <1>6
  <2> HIDE DEF S
  <2> QED
    BY <1>6, <2>1
<1>10. DOMAIN s.shown = 1 .. Cardinality(S)
  BY <1>5, <1>6
<1>11. /\ page.items = [i \in 1 .. Cardinality(S) |->
                           [ordinal |-> k + InOrder(S)[i], value |-> rows[InOrder(S)[i]].value]]
       /\ page.item_cursors = [i \in 1 .. Cardinality(S) |->
                           RowCursor(WalkContext(req), start, rows, hit, InOrder(S)[i])]
       /\ page.next = IF t /\ s.last > 0
                      THEN RowCursor(WalkContext(req), start, rows, hit, s.last) ELSE NoCursor
       /\ page.truncated = t
       /\ page = Page(page.items, page.item_cursors, page.total, page.filtered, page.next,
                      page.truncated)
  <2> HIDE DEF t, S
  <2> QED
    BY <1>1, <1>5, <1>10 DEF FilePageOf, FilePage, Page, start, t
<1>12. t \in BOOLEAN
  BY <1>5, Zenon DEF FileTruncated
<1>13. t => s.last < N
  <2>1. CASE s.exhausted
    BY <1>3, <1>5, <2>1
  <2>2. CASE s.hits > Len(s.shown)
    <3>1. Len(s.shown) = Cardinality(S)
      <4> HIDE DEF S
      <4> QED
        BY <1>5, <1>6, ListIsSeq
    <3>2. s.last # s.seen
      BY <1>5, <1>6, <2>2, <3>1
    <3> QED
      BY <1>3, <1>5, <3>2
  <2>3. CASE s.seen < N
    BY <1>3, <1>5, <2>3
  <2>4. t => s.exhausted \/ s.hits > Len(s.shown) \/ s.seen < N
    BY Zenon DEF FileTruncated, N
  <2> QED
    BY <2>1, <2>2, <2>3, <2>4
<1>14. ~t => T = HitsIn(all, k + 1, Len(all))
  <2>1. SUFFICES ASSUME ~t PROVE T = HitsIn(all, k + 1, Len(all))
    OBVIOUS
  <2>2. ~s.exhausted /\ ~(s.hits > Len(s.shown))
        /\ ~(req.filter = "none" /\ known # Unknown /\ s.seen < N /\ start.total + s.seen < known)
    BY <2>1, Zenon DEF FileTruncated, N
  <2>3. s.seen = N
    <3>1. CASE ~quick
      BY <1>4, <2>2, <3>1
    <3>2. CASE quick
      <4>1. known = L /\ ~(s.seen < N /\ k + s.seen < L)
        BY <1>1, <2>2, <3>2 DEF KnownIsTrue, quick, L
      <4> QED
        BY <1>3, <1>5, <4>1
    <3> QED
      BY <3>1, <3>2
  <2>4. S = HitsIn(hit, 1, N)
    <3>1. PICK l \in Int, m \in Int : l = s.last /\ m = N /\ l <= m
      BY <1>3, <1>5
    <3>2. Len(s.shown) = Cardinality(S)
      <4> HIDE DEF S
      <4> QED
        BY <1>5, <1>6, ListIsSeq
    <3>3. /\ Cardinality(HitsIn(hit, 1, l)) \in Nat /\ Cardinality(HitsIn(hit, 1, m)) \in Nat
          /\ Cardinality(HitsIn(hit, 1, l)) <= Cardinality(HitsIn(hit, 1, m))
          /\ Cardinality(HitsIn(hit, 1, l)) = Cardinality(HitsIn(hit, 1, m)) =>
                 HitsIn(hit, 1, l) = HitsIn(hit, 1, m)
      BY <3>1, HitsGrow
    <3>4. ~(Cardinality(HitsIn(hit, 1, m)) > Cardinality(HitsIn(hit, 1, l)))
      BY <1>5, <2>2, <2>3, <3>1, <3>2
    <3>5. Cardinality(HitsIn(hit, 1, l)) = Cardinality(HitsIn(hit, 1, m))
      BY <3>3, <3>4
    <3> QED
      BY <3>1, <3>3, <3>5
  <2>5. HitsIn(all, k + 1, k + N) = Above(HitsIn(hit, 1, N), k)
    <3>1. PICK j \in 0 .. N : j = N
      BY <1>3
    <3> QED
      BY <1>1, <3>1, HitsFollow DEF all, N
  <2> QED
    BY <1>2, <1>3, <1>7, <2>4, <2>5
<1> HIDE DEF t, S, T
<1>15. \A i \in 1 .. Cardinality(S) :
           page.items[i] = Shown(req, InOrder(T)[i])
  <2>1. TAKE i \in 1 .. Cardinality(S)
  <2>2. rows[InOrder(S)[i]] = RowsOf(0)[k + InOrder(S)[i]] /\ InOrder(T)[i] = k + InOrder(S)[i]
    BY <1>3, <1>8, <1>9
  <2> QED
    BY <1>11, <2>2 DEF Shown
<1>16. page.items = [i \in 1 .. Cardinality(T) |-> Shown(req, InOrder(T)[i])]
  BY <1>8, <1>11, <1>15
<1>17. \A i \in 1 .. Cardinality(T) - 1 :
           /\ CursorOk(req, page.item_cursors[i]) /\ page.item_cursors[i] # NoCursor
           /\ Ordinal(page.item_cursors[i]) = InOrder(T)[i]
  <2>1. TAKE i \in 1 .. Cardinality(T) - 1
  <2>2. i \in 1 .. Cardinality(S) /\ i + 1 \in 1 .. Cardinality(S) /\ i < i + 1
    BY <1>6, <1>8
  <2>3. InOrder(S)[i] < InOrder(S)[i + 1]
    BY <1>6, <2>2
  <2>4. InOrder(S)[i] \in 1 .. N /\ InOrder(S)[i + 1] \in 1 .. N
    BY <1>9, <2>2
  <2>5. PICK x \in 1 .. N : x = InOrder(S)[i] /\ x < N
    BY <1>3, <2>3, <2>4
  <2>6. page.item_cursors[i] = RowCursor(WalkContext(req), start, rows, hit, x)
    BY <1>11, <2>2, <2>5
  <2>7. PICK c : c = RowCursor(WalkContext(req), RowStart(cursor), rows, RowHits(req, rows), x)
    OBVIOUS
  <2>8. CursorOk(req, c) /\ c # NoCursor /\ Ordinal(c) = From(cursor) + x
    BY <2>5, <2>7, RowCursorStands DEF N
  <2> QED
    BY <1>8, <2>2, <2>5, <2>6, <2>7, <2>8 DEF start, k
<1>18. CursorOk(req, page.next) /\ (page.next # NoCursor => Ordinal(page.next) = k + s.last)
  <2>1. CASE t /\ s.last > 0
    <3>1. PICK x \in 1 .. N : x = s.last /\ x < N
      BY <1>5, <1>13, <2>1
    <3>2. PICK c : c = RowCursor(WalkContext(req), RowStart(cursor), rows, RowHits(req, rows), x)
      OBVIOUS
    <3>3. CursorOk(req, c) /\ c # NoCursor /\ Ordinal(c) = From(cursor) + x
      BY <3>1, <3>2, RowCursorStands DEF N
    <3>4. page.next = c
      BY <1>11, <2>1, <3>1, <3>2 DEF start
    <3> QED
      BY <3>1, <3>3, <3>4 DEF k
  <2>2. CASE ~(t /\ s.last > 0)
    <3>1. page.next = NoCursor
      BY <1>11, <2>2
    <3> QED
      BY <3>1 DEF CursorOk
  <2> QED
    BY <2>1, <2>2
<1>19. k + s.last \in k .. Len(all)
  BY <1>2, <1>3, <1>5
<1>20. IsPage(page)
  BY <1>11, <1>12 DEF IsPage
<1>21. DOMAIN page.item_cursors = 1 .. Cardinality(T)
  BY <1>8, <1>11
<1>22. ~page.truncated => T = HitsIn(all, k + 1, Len(all))
  BY <1>11, <1>14
<1> QED
  BY <1>16, <1>17, <1>18, <1>19, <1>20, <1>21, <1>22 DEF ReadsOn, T, k, all

\* The counts of a page of rows are those of the rows there are.
LEMMA FilePageCounts ==
    ASSUME NEW V, inv.stdout \in Seq(V), NEW req, req.view = "query_results",
           NEW cursor, CursorOk(req, cursor),
           NEW items \in Nat \ {0}, NEW scan \in Nat \ {0}, NEW known, KnownIsTrue(known),
           NEW rows, rows = RowsOf(RowStart(cursor).at), NEW hit, hit = RowHits(req, rows),
           NEW s, s = FileScan(rows, hit, items, scan, req.filter, known),
           NEW page, page = FilePageOf(WalkContext(req), req.filter, rows, hit,
                                       RowStart(cursor), known, s)
    PROVE  /\ page.total \in {Unknown, Len(RowsOf(0))}
           /\ page.filtered \in
                 {Unknown, Cardinality(HitsIn(ViewHits(req), 1, Len(ViewHits(req))))}
<1> DEFINE k == From(cursor)
           start == RowStart(cursor)
           all == ViewHits(req)
           L == Len(RowsOf(0))
           N == Len(rows)
           quick == req.filter = "none" /\ known # Unknown
           total == FileTotal(s, start, known)
<1>1. /\ RowsFollow(rows, k) /\ start.total = k
      /\ start.filtered = Cardinality(HitsIn(all, 1, k))
  BY CursorRowsFollow
<1>2. L \in Nat /\ Len(all) = L /\ all = RowHits(req, RowsOf(0)) /\ DOMAIN RowsOf(0) = 1 .. L
  BY RowsHaveHits
<1> HIDE DEF k, start, all, L
<1>3. /\ k \in Nat /\ N \in Nat /\ k + N = L /\ DOMAIN rows = 1 .. N
  BY <1>1 DEF RowsFollow, L
<1>4. SeenRows(hit, N, s) /\ (~quick /\ ~s.exhausted => s.seen = N)
  BY <1>3, FileScanSees
<1> HIDE DEF N, quick
<1>5. s.seen \in 0 .. N /\ s.hits = Cardinality(HitsIn(hit, 1, s.seen))
  BY <1>4, Zenon DEF SeenRows
<1>6. /\ page.total = total
      /\ page.filtered = IF req.filter = "none" THEN total
                         ELSE IF s.exhausted THEN Unknown ELSE start.filtered + s.hits
  BY DEF FilePageOf, FilePage, Page, start
<1>7. total = IF known # Unknown THEN IF known > k + s.seen THEN known ELSE k + s.seen
              ELSE IF s.exhausted THEN Unknown ELSE k + s.seen
  BY <1>1 DEF FileTotal
<1> HIDE DEF total
<1>8. total \in {Unknown, L}
  <2>1. CASE known # Unknown
    <3>1. known = L
      BY <2>1 DEF KnownIsTrue, L
    <3>2. k + s.seen <= L
      BY <1>3, <1>5
    <3>3. total = IF L > k + s.seen THEN L ELSE k + s.seen
      BY <1>7, <2>1, <3>1
    <3>4. k + s.seen \in Nat
      BY <1>3, <1>5
    <3>5. ~(L > k + s.seen) => k + s.seen = L
      BY <1>2, <3>2, <3>4
    <3> QED
      BY <3>3, <3>5
  <2>2. CASE known = Unknown /\ s.exhausted
    BY <1>7, <2>2
  <2>3. CASE known = Unknown /\ ~s.exhausted
    <3>1. s.seen = N
      BY <1>4, <2>3 DEF quick
    <3> QED
      BY <1>3, <1>7, <2>3, <3>1
  <2> QED
    BY <2>1, <2>2, <2>3
<1>9. req.filter = "none" => Cardinality(HitsIn(all, 1, L)) = L
  <2>1. SUFFICES ASSUME req.filter = "none" PROVE Cardinality(HitsIn(all, 1, L)) = L
    OBVIOUS
  <2>2. \A i \in 1 .. L : all[i]
    BY <1>2, <2>1 DEF RowHits, RowMatches
  <2>3. HitsIn(all, 1, L) = 1 .. L
    BY <2>2 DEF HitsIn
  <2>4. Cardinality(1 .. L) = L
    <3>1. PICK one \in Int : one = 1
      OBVIOUS
    <3>2. Cardinality(one .. L) = IF one > L THEN 0 ELSE L - one + 1
      BY <1>2, FS_Interval
    <3> QED
      BY <1>2, <3>1, <3>2
  <2> QED
    BY <2>3, <2>4
<1>10. req.filter # "none" /\ ~s.exhausted =>
           start.filtered + s.hits = Cardinality(HitsIn(all, 1, L))
  <2>1. SUFFICES ASSUME req.filter # "none", ~s.exhausted
                 PROVE  start.filtered + s.hits = Cardinality(HitsIn(all, 1, L))
    OBVIOUS
  <2>2. s.seen = N
    BY <1>4, <2>1 DEF quick
  <2>3. PICK j \in 0 .. N : j = N
    BY <1>3
  <2>4. Cardinality(HitsIn(all, 1, k + j)) =
            Cardinality(HitsIn(all, 1, k)) + Cardinality(HitsIn(hit, 1, j))
    BY <1>1, <2>3, HitsFollow DEF all, N
  <2> QED
    BY <1>1, <1>3, <1>5, <2>2, <2>3, <2>4
<1>11. page.filtered \in {Unknown, Cardinality(HitsIn(all, 1, L))}
  BY <1>6, <1>8, <1>9, <1>10
<1> QED
  BY <1>2, <1>6, <1>8, <1>11 DEF all, L

\* count_query_rows counts the rows that reading yields.
LEMMA RowsAreCounted ==
    ASSUME NEW V, inv.stdout \in Seq(V)
    PROVE  CountQueryRows(inv.stdout) = Len(RowsOf(0))
<1> DEFINE bytes == inv.stdout
           n == Len(bytes)
           S == LineStarts(bytes, 0)
           B == {i \in 1 .. n : bytes[i] = Newline}
           C == {i \in 1 .. n - 1 : bytes[i] = Newline}
<1>1. n \in Nat /\ DOMAIN bytes = 1 .. n
  OBVIOUS
<1>2. Len(RowsOf(0)) = Cardinality(S)
  <2>1. PICK z \in Nat : z = 0
    OBVIOUS
  <2> QED
    BY <2>1, RowsAreLines
<1>3. CASE n = 0
  <2>1. bytes = <<>> /\ {i \in DOMAIN bytes : bytes[i] = Newline} = {} /\ S = {}
    BY <1>1, <1>3 DEF LineStarts
  <2>2. Cardinality({}) = 0
    BY FS_EmptySet
  <2> QED
    BY <1>2, <2>1, <2>2 DEF CountQueryRows
<1>4. CASE n > 0
  <2>1. S = C \cup {0}
    <3>1. \A i \in S : i = 0 \/ i \in C
      BY <1>1 DEF LineStarts
    <3>2. 0 \in S /\ \A i \in C : i \in S
      BY <1>1, <1>4 DEF LineStarts
    <3> QED
      BY <3>1, <3>2
  <2>2. IsFiniteSet(C) /\ Cardinality(C) \in Nat
    <3>1. IsFiniteSet(1 .. n - 1)
      <4>1. PICK one \in Int, m \in Int : one = 1 /\ m = n - 1
        BY <1>1
      <4> QED
        BY <4>1, FS_Interval
    <3>2. C \subseteq 1 .. n - 1
      OBVIOUS
    <3> QED
      BY <3>1, <3>2, FS_Subset, FS_CardinalityType
  <2>3. Cardinality(S) = Cardinality(C) + 1
    <3>1. 0 \notin C
      OBVIOUS
    <3> HIDE DEF C
    <3> QED
      BY <2>1, <2>2, <3>1, FS_AddElement
  <2>4. bytes # <<>> /\ Last(bytes) = bytes[n] /\ B = {i \in DOMAIN bytes : bytes[i] = Newline}
    BY <1>1, <1>4 DEF Last
  <2>5. CountQueryRows(bytes) = Cardinality(B) + (IF bytes[n] # Newline THEN 1 ELSE 0)
    BY <2>4 DEF CountQueryRows
  <2>6. CASE bytes[n] = Newline
    <3>1. B = C \cup {n}
      BY <1>1, <1>4, <2>6
    <3>2. n \notin C
      BY <1>1
    <3>3. Cardinality(B) = Cardinality(C) + 1
      <4> HIDE DEF B, C
      <4> QED
        BY <2>2, <3>1, <3>2, FS_AddElement
    <3> QED
      BY <1>2, <2>2, <2>3, <2>5, <2>6, <3>3
  <2>7. CASE bytes[n] # Newline
    <3>1. B = C
      BY <1>1, <1>4, <2>7
    <3> QED
      BY <1>2, <2>2, <2>3, <2>5, <2>7, <3>1
  <2> QED
    BY <2>6, <2>7
<1> QED
  BY <1>1, <1>3, <1>4

\* A row that has ended stays as it is when a byte is written behind it.
LEMMA RowStays ==
    ASSUME NEW V, NEW bytes \in Seq(V), NEW byte \in V, NEW x \in 0 .. Len(bytes) - 1,
           bytes[LineEnds(bytes, x)] = Newline
    PROVE  Row(Append(bytes, byte), x) = Row(bytes, x)
<1> DEFINE n == Len(bytes)
           more == Append(bytes, byte)
           e == LineEnds(bytes, x)
           m == LineEnds(more, x)
<1>1. /\ n \in Nat /\ more \in Seq(V) /\ Len(more) = n + 1
      /\ \A i \in 1 .. n : more[i] = bytes[i]
  OBVIOUS
<1>2. /\ e \in x + 1 .. n /\ \A y \in x + 1 .. n : bytes[y] = Newline => e <= y
  BY LineEndsFirst
<1> HIDE DEF more, e
<1>3. /\ m \in x + 1 .. Len(more) /\ (more[m] = Newline \/ m = Len(more))
      /\ \A y \in x + 1 .. Len(more) : more[y] = Newline => m <= y
  <2>1. x \in 0 .. Len(more) - 1
    BY <1>1
  <2> QED
    BY <1>1, <2>1, LineEndsFirst
<1> HIDE DEF m, n
<1>4. m = e
  <2>1. e \in 1 .. n /\ more[e] = Newline /\ e \in x + 1 .. Len(more)
    BY <1>1, <1>2 DEF e, n
  <2>2. m <= e
    BY <1>3, <2>1
  <2>3. m # Len(more) /\ m \in x + 1 .. n /\ m \in 1 .. n
    BY <1>1, <1>3, <2>1, <2>2
  <2>4. bytes[m] = Newline
    BY <1>1, <1>3, <2>3
  <2>5. e <= m
    BY <1>2, <2>3, <2>4
  <2> QED
    BY <1>3, <2>1, <2>2, <2>5
<1>5. more[e] = bytes[e]
  BY <1>1, <1>2
<1> DEFINE h == IF e - (IF bytes[e] = Newline THEN 1 ELSE 0) < x + LineLimit
                THEN e - (IF bytes[e] = Newline THEN 1 ELSE 0) ELSE x + LineLimit
<1>6. h \in Int /\ h <= n
  <2>1. e \in Int /\ e <= n
    BY <1>1, <1>2
  <2>2. LineLimit \in Nat
    BY LimitsAssumption
  <2> QED
    BY <1>1, <2>1, <2>2
<1> HIDE DEF h
<1>7. SubSeq(more, x + 1, h) = SubSeq(bytes, x + 1, h)
  <2>1. x \in Nat
    BY <1>1 DEF n
  <2>2. \A i \in 1 .. h - x : x + i \in 1 .. n /\ more[x + i] = bytes[x + i]
    <3>1. TAKE i \in 1 .. h - x
    <3>2. x + i \in 1 .. n
      BY <1>1, <1>6, <2>1
    <3> QED
      BY <1>1, <3>2
  <2>3. SubSeq(bytes, x + 1, h) = [i \in 1 .. h - x |-> bytes[x + i]]
    BY <1>1, <1>6, <2>1 DEF n
  <2>4. SubSeq(more, x + 1, h) = [i \in 1 .. h - x |-> more[x + i]]
    BY <1>1, <1>6, <2>1
  <2> QED
    BY <2>2, <2>3, <2>4
<1>8. LineValue(more, x, e) = LineValue(bytes, x, e)
  BY <1>5, <1>7 DEF LineValue, h
<1> QED
  BY <1>4, <1>8 DEF Row, more, e, m

\* Nor do the rows before it move.
LEMMA StartsStay ==
    ASSUME NEW V, NEW bytes \in Seq(V), NEW byte \in V, Len(bytes) # 0,
           NEW S, S = LineStarts(bytes, 0), NEW U, U = LineStarts(Append(bytes, byte), 0)
    PROVE  /\ Cardinality(S) <= Cardinality(U)
           /\ \A i \in 1 .. Cardinality(S) : InOrder(U)[i] = InOrder(S)[i]
<1> DEFINE n == Len(bytes)
           more == Append(bytes, byte)
           T == {y \in U : y >= n}
<1>1. /\ n \in Nat /\ n > 0 /\ more \in Seq(V) /\ Len(more) = n + 1
      /\ \A i \in 1 .. n : more[i] = bytes[i]
  OBVIOUS
<1> HIDE DEF more
<1>2. U = LineStarts(more, 0)
  BY DEF more
<1>3. PICK z \in Nat : z = 0
  OBVIOUS
<1>4. S \subseteq 0 .. n - 1 /\ S \subseteq Int /\ IsFiniteSet(S) /\ Cardinality(S) \in Nat
  BY <1>3, StartsAreFinite
<1>5. U \subseteq 0 .. n /\ U \subseteq Int /\ IsFiniteSet(U) /\ Cardinality(U) \in Nat
  <2>1. /\ U \subseteq 0 .. Len(more) - 1 /\ U \subseteq Int /\ IsFiniteSet(U)
        /\ Cardinality(U) \in Nat
    BY <1>1, <1>2, <1>3, StartsAreFinite
  <2> QED
    BY <1>1, <2>1
<1>6. \A y : y \in S <=> y \in U /\ y < n
  <2>1. \A y : y \in S <=> y \in 0 .. n - 1 /\ (y = 0 \/ bytes[y] = Newline)
    BY DEF LineStarts
  <2>2. \A y : y \in U <=> y \in 0 .. n /\ (y = 0 \/ more[y] = Newline)
    BY <1>1, <1>2 DEF LineStarts
  <2>3. \A y \in 0 .. n - 1 : y = 0 \/ more[y] = bytes[y]
    BY <1>1
  <2> QED
    BY <1>1, <1>4, <1>5, <2>1, <2>2, <2>3
<1>7. T \subseteq Int /\ IsFiniteSet(T) /\ Cardinality(T) \in Nat
  <2>1. T \subseteq U
    OBVIOUS
  <2> QED
    BY <1>5, <2>1, FS_Subset, FS_CardinalityType
<1>8. AllBelow(S, T)
  <2>1. \A y \in T : y \in Int /\ y >= n
    BY <1>5
  <2>2. \A y \in S : y \in Int /\ y < n
    BY <1>4, <1>6
  <2> HIDE DEF T
  <2> QED
    BY <1>1, <2>1, <2>2 DEF AllBelow
<1>9. U = S \cup T
  <2>1. \A y \in U : y < n \/ y >= n
    BY <1>1, <1>5
  <2> QED
    BY <1>6, <2>1
<1> HIDE DEF T
<1>10. WithFirst(S, T, Cardinality(T)) = U
  <2>1. /\ \A i \in 1 .. Cardinality(T) : InOrder(T)[i] \in T
        /\ \A y \in T : \E i \in 1 .. Cardinality(T) : InOrder(T)[i] = y
    BY <1>7, InOrderLists
  <2>2. {InOrder(T)[i] : i \in 1 .. Cardinality(T)} = T
    BY <2>1
  <2> QED
    BY <1>9, <2>2 DEF WithFirst
<1>11. JoinedTo(S, T, Cardinality(T), U)
  <2>1. Cardinality(T) \in 0 .. Cardinality(T)
    BY <1>7
  <2> QED
    BY <1>4, <1>7, <1>8, <1>10, <2>1, ReadOn
<1> QED
  BY <1>4, <1>7, <1>11 DEF JoinedTo

-----------------------------------------------------------------------------
(***************************************************************************)
(* The records of the other views are sequences.                           *)
(***************************************************************************)
LEMMA PositionsAreFinite ==
    ASSUME NEW n \in Nat, NEW S, S \subseteq 1 .. n
    PROVE  S \subseteq Int /\ IsFiniteSet(S) /\ Cardinality(S) \in Nat
<1>1. PICK one \in Int : one = 1
  OBVIOUS
<1>2. IsFiniteSet(one .. n)
  BY FS_Interval
<1>3. IsFiniteSet(S)
  BY <1>1, <1>2, FS_Subset
<1> QED
  BY <1>3, FS_CardinalityType

LEMMA ChosenIsSeq ==
    ASSUME NEW V, NEW seq \in Seq(V), NEW S, S \subseteq DOMAIN seq
    PROVE  Chosen(seq, S) \in Seq(V)
<1>1. Len(seq) \in Nat /\ DOMAIN seq = 1 .. Len(seq) /\ \A i \in 1 .. Len(seq) : seq[i] \in V
  OBVIOUS
<1>2. S \subseteq Int /\ IsFiniteSet(S)
  BY <1>1, PositionsAreFinite
<1>3. /\ Cardinality(S) \in Nat /\ InOrder(S) \in [1 .. Cardinality(S) -> S]
  BY <1>2, InOrderLists, FS_CardinalityType
<1>4. \A i \in 1 .. Cardinality(S) : seq[InOrder(S)[i]] \in V
  BY <1>1, <1>3
<1>5. Chosen(seq, S) \in [1 .. Cardinality(S) -> V]
  BY <1>3, <1>4 DEF Chosen
<1> QED
  BY <1>3, <1>5, ListIsSeq

LEMMA PartIsSeq ==
    ASSUME NEW V, NEW seq \in Seq(V), NEW n \in Nat
    PROVE  Upto(seq, n) \in Seq(V) /\ LastOf(seq, n) \in Seq(V)
<1>1. Len(seq) \in Nat
  OBVIOUS
<1>2. \A a, b \in Int : 1 <= a /\ b <= Len(seq) => SubSeq(seq, a, b) \in Seq(V)
  BY <1>1
<1>3. Upto(seq, n) \in Seq(V)
  <2>1. PICK b \in Int : b = (IF Len(seq) < n THEN Len(seq) ELSE n) /\ b <= Len(seq)
    BY <1>1
  <2>2. PICK a \in Int : a = 1
    OBVIOUS
  <2> QED
    BY <1>2, <2>1, <2>2 DEF Upto
<1>4. LastOf(seq, n) \in Seq(V)
  <2>1. PICK a \in Int : a = (IF Len(seq) > n THEN Len(seq) - n + 1 ELSE 1) /\ 1 <= a
    BY <1>1
  <2> QED
    BY <1>1, <1>2, <2>1 DEF LastOf
<1> QED
  BY <1>3, <1>4

EvidenceRecords == [label : {"none"}, text : Lines, count : Nat]

LEMMA FailureEvidenceIsSeq ==
    ASSUME NEW testLike, NEW failed, NEW console \in [out : Seq(Lines), err : Seq(Lines)]
    PROVE  FailureEvidence(testLike, failed, console) \in Seq(EvidenceRecords)
<1>0. PICK out \in Seq(Lines), err \in Seq(Lines) : out = console.out /\ err = console.err
  OBVIOUS
<1>1. PICK lines \in Seq(Lines) : lines = StreamOrder(testLike, failed, console.out, console.err)
  <2>1. out \o err \in Seq(Lines) /\ err \o out \in Seq(Lines)
    OBVIOUS
  <2>2. StreamOrder(testLike, failed, out, err) \in {out \o err, err \o out}
    BY Zenon DEF StreamOrder
  <2> QED
    BY <1>0, <2>1, <2>2
<1>2. Len(lines) \in Nat /\ DOMAIN lines = 1 .. Len(lines)
      /\ \A i \in 1 .. Len(lines) : lines[i] \in Lines
  OBVIOUS
<1> DEFINE S == FirstOf(lines)
           ordinals == InOrder(S)
           records == EvidenceOf(lines, ordinals)
           R == EvidenceRecords
<1>4. S \subseteq 1 .. Len(lines) /\ S \subseteq Int /\ IsFiniteSet(S)
  <2>1. S \subseteq 1 .. Len(lines)
    BY <1>2 DEF FirstOf
  <2> HIDE DEF S
  <2> QED
    BY <1>2, <2>1, PositionsAreFinite
<1> HIDE DEF S
<1>5. Cardinality(S) \in Nat /\ ordinals \in [1 .. Cardinality(S) -> S]
  BY <1>4, InOrderLists, FS_CardinalityType
<1> HIDE DEF ordinals
<1>6. \A x : Cardinality({j \in DOMAIN lines : lines[j] = x}) \in Nat
  <2>1. TAKE x
  <2>2. {j \in DOMAIN lines : lines[j] = x} \subseteq 1 .. Len(lines)
    BY <1>2
  <2> QED
    BY <1>2, <2>2, PositionsAreFinite
<1>7. records \in [1 .. Cardinality(S) -> R]
  <2>1. \A i \in 1 .. Cardinality(S) : lines[ordinals[i]] \in Lines
    BY <1>2, <1>4, <1>5
  <2>2. DOMAIN ordinals = 1 .. Cardinality(S)
    BY <1>5
  <2> QED
    BY <1>6, <2>1, <2>2 DEF EvidenceOf, RecordAt, EvidenceRecords
<1>8. records \in Seq(R)
  <2> HIDE DEF records, R
  <2> QED
    BY <1>5, <1>7, ListIsSeq
<1> HIDE DEF records, R
<1>9. SortedEvidence(records) \in Seq(R)
  <2> DEFINE act == {i \in DOMAIN records : IsActionable(records[i])}
             first == Chosen(records, act)
             rest == Chosen(records, DOMAIN records \ act)
  <2>1. first \in Seq(R) /\ rest \in Seq(R)
    <3>1. act \subseteq DOMAIN records /\ DOMAIN records \ act \subseteq DOMAIN records
      OBVIOUS
    <3> HIDE DEF act
    <3> QED
      BY <1>8, <3>1, ChosenIsSeq
  <2> HIDE DEF act, first, rest
  <2>2. ActionableMax \in Nat /\ FallbackMax \in Nat /\ EvidenceMax \in Nat
    BY InspectionAssumption
  <2>3. Upto(first, ActionableMax) \in Seq(R) /\ LastOf(rest, FallbackMax) \in Seq(R)
    BY <2>1, <2>2, PartIsSeq
  <2>4. PICK both \in Seq(R) : both = Upto(first, ActionableMax) \o LastOf(rest, FallbackMax)
    <3>1. \A f, g \in Seq(R) : f \o g \in Seq(R)
      OBVIOUS
    <3> QED
      BY <2>3, <3>1
  <2>5. Upto(both, EvidenceMax) \in Seq(R)
    BY <2>2, PartIsSeq
  <2> QED
    BY <2>4, <2>5 DEF SortedEvidence, act, first, rest
<1> QED
  BY <1>1, <1>9 DEF FailureEvidence, records, ordinals, S, R

\* One page of the tests view as read_test_log_unavailable_page reads it.
InnerPage(after) ==
    PageRecords(Context("tests", "a", "none"), "none", [i \in DOMAIN Records("tests") |-> TRUE],
                IF after = 0 THEN NoCursor
                ELSE OrdinalCursor(Context("tests", "a", "none"), after),
                InnerItems, MaxScan)

RangeFrom(a, b) == [i \in 1 .. b - a |-> a + i]

LEMMA InnerPageIsRange ==
    ASSUME NEW n \in Nat, DOMAIN Records("tests") = 1 .. n, NEW a \in 0 .. n
    PROVE  \E l \in a .. n :
               /\ InnerPage(a).items = RangeFrom(a, l)
               /\ InnerPage(a).truncated => a < l /\ InnerPage(a).next.at = l
               /\ ~InnerPage(a).truncated => l = n
<1> DEFINE hit == [i \in DOMAIN Records("tests") |-> TRUE]
           ctx == Context("tests", "a", "none")
           cursor == IF a = 0 THEN NoCursor ELSE OrdinalCursor(ctx, a)
           s == Scan(hit, a, ItemLimit(InnerItems), ScanLimit(InnerItems, MaxScan))
<1>1. hit = [i \in 1 .. n |-> TRUE] /\ Len(hit) = n
  <2>1. hit \in [1 .. n -> BOOLEAN]
    OBVIOUS
  <2>2. Len(hit) = n
    <3> HIDE DEF hit
    <3> QED
      BY <2>1, ListIsSeq
  <2> QED
    BY <2>2
<1>2. After(cursor) = a
  <2>1. CASE a = 0
    BY <2>1 DEF After
  <2>2. CASE a # 0
    <3>1. cursor.at = a /\ cursor.kind = "ordinal"
      BY <2>2 DEF OrdinalCursor
    <3>2. NoCursor.kind = "none"
      BY DEF NoCursor
    <3>3. cursor # NoCursor
      BY <3>1, <3>2
    <3> QED
      BY <3>1, <3>3 DEF After
  <2> QED
    BY <2>1, <2>2
<1>3. InnerPage(a) = RecordPage(ctx, "none", hit, a, s)
  <2> HIDE DEF ctx, hit, cursor
  <2>1. InnerPage(a) = PageRecords(ctx, "none", hit, cursor, InnerItems, MaxScan)
    BY DEF InnerPage, ctx, hit, cursor
  <2> QED
    BY <1>2, <2>1 DEF PageRecords
<1>4. ItemLimit(InnerItems) \in Nat \ {0} /\ ScanLimit(InnerItems, MaxScan) \in Nat \ {0}
  BY LimitsArePositive, LimitsAssumption, InspectionAssumption
<1>5. GoesForward(hit, a, s)
  <2> HIDE DEF hit
  <2> QED
    BY <1>1, <1>4, ScanGoesForward
<1> HIDE DEF s, ctx
<1>6. /\ s.last \in a .. n /\ s.ordinals = InOrder(HitsIn(hit, a + 1, s.last))
      /\ s.truncated \in BOOLEAN /\ (s.truncated => a < s.last) /\ (~s.truncated => s.last = n)
  <2> HIDE DEF hit
  <2> QED
    BY <1>1, <1>5, Zenon DEF GoesForward
<1>7. PICK l \in a .. n : l = s.last
  BY <1>6
<1>8. HitsIn(hit, a + 1, l) = a + 1 .. l
  BY <1>1 DEF HitsIn
<1>9. InOrder(a + 1 .. l) = RangeFrom(a, l)
  <2> DEFINE S == a + 1 .. l
             f == RangeFrom(a, l)
             k == l - a
  <2>1. k \in Nat /\ S \subseteq Int /\ f \in [1 .. k -> S]
    BY DEF RangeFrom
  <2>2. \A x \in S : \E i \in 1 .. k : f[i] = x
    <3>1. TAKE x \in S
    <3>2. x - a \in 1 .. k /\ a + (x - a) = x
      OBVIOUS
    <3> QED
      BY <3>2 DEF RangeFrom
  <2>3. \A i, j \in 1 .. k : i < j => f[i] < f[j]
    BY DEF RangeFrom
  <2> HIDE DEF S, f, k
  <2>4. f = InOrder(S)
    BY <2>1, <2>2, <2>3, InOrderIsUnique
  <2> QED
    BY <2>4 DEF S, f
<1>10. s.ordinals = RangeFrom(a, l)
  BY <1>6, <1>7, <1>8, <1>9
<1>11. /\ InnerPage(a).items = s.ordinals /\ InnerPage(a).truncated = s.truncated
       /\ InnerPage(a).next = IF s.truncated THEN OrdinalCursor(ctx, s.last) ELSE NoCursor
  BY <1>3 DEF RecordPage, Page
<1>12. OrdinalCursor(ctx, s.last).at = s.last
  BY DEF OrdinalCursor
<1> QED
  BY <1>6, <1>7, <1>10, <1>11, <1>12, Zenon

\* It reads every test: the pages joined are all of them.
LEMMA EveryTestIsRead ==
    ASSUME NEW V, Records("tests") \in Seq(V)
    PROVE  ReadTests[0] = RangeFrom(0, Len(Records("tests")))
<1> DEFINE n == Len(Records("tests"))
           Body(g, a) == IF InnerPage(a).truncated
                         THEN InnerPage(a).items \o g[InnerPage(a).next.at]
                         ELSE InnerPage(a).items
           Solves(g) == g = [a \in 0 .. n |-> Body(g, a)]
           whole == [a \in 0 .. n |-> RangeFrom(a, n)]
<1>1. n \in Nat /\ DOMAIN Records("tests") = 1 .. n
  OBVIOUS
<1>2. ReadTests = CHOOSE g : Solves(g)
  BY DEF ReadTests, InnerPage
<1> HIDE DEF n
<1>3. \A a \in 0 .. n : \E l \in a .. n :
          /\ InnerPage(a).items = RangeFrom(a, l)
          /\ InnerPage(a).truncated => a < l /\ InnerPage(a).next.at = l
          /\ ~InnerPage(a).truncated => l = n
  BY <1>1, InnerPageIsRange
<1>4. \A a \in 0 .. n : \A l \in a .. n : RangeFrom(a, l) \o RangeFrom(l, n) = RangeFrom(a, n)
  <2>1. TAKE a \in 0 .. n
  <2>2. TAKE l \in a .. n
  <2> DEFINE f == RangeFrom(a, l)
             g == RangeFrom(l, n)
             h == RangeFrom(a, n)
  <2>3. a \in Nat /\ l \in Nat /\ l - a \in Nat /\ n - l \in Nat
    BY <1>1
  <2>4. f \in [1 .. l - a -> Nat] /\ g \in [1 .. n - l -> Nat] /\ h \in [1 .. n - a -> Nat]
    BY <1>1, <2>3 DEF RangeFrom
  <2>5. /\ \A i \in 1 .. l - a : f[i] = a + i
        /\ \A i \in 1 .. n - l : g[i] = l + i
        /\ \A i \in 1 .. n - a : h[i] = a + i
    BY DEF RangeFrom
  <2> HIDE DEF f, g, h
  <2>6. f \in Seq(Nat) /\ Len(f) = l - a /\ g \in Seq(Nat) /\ Len(g) = n - l
    BY <2>3, <2>4, ListIsSeq
  <2>7. PICK w \in Seq(Nat) :
            /\ w = f \o g /\ DOMAIN w = 1 .. Len(f) + Len(g)
            /\ \A i \in 1 .. Len(f) : w[i] = f[i]
            /\ \A i \in 1 .. Len(g) : w[Len(f) + i] = g[i]
    <3>1. PICK N : N = Nat /\ f \in Seq(N) /\ g \in Seq(N)
      BY <2>6
    <3>2. /\ f \o g \in Seq(N) /\ Len(f \o g) = Len(f) + Len(g)
          /\ DOMAIN (f \o g) = 1 .. Len(f) + Len(g)
          /\ \A i \in 1 .. Len(f) : (f \o g)[i] = f[i]
          /\ \A i \in 1 .. Len(g) : (f \o g)[Len(f) + i] = g[i]
      BY <3>1, JoinedSeq
    <3> QED
      BY <3>1, <3>2, Zenon
  <2>8. DOMAIN w = 1 .. n - a
    <3>1. Len(f) + Len(g) = n - a
      BY <1>1, <2>3, <2>6
    <3> QED
      BY <2>7, <3>1
  <2>9. \A i \in 1 .. n - a : w[i] = a + i
    <3>1. TAKE i \in 1 .. n - a
    <3>2. CASE i <= l - a
      <4>1. i \in 1 .. l - a /\ i \in 1 .. Len(f)
        BY <2>3, <2>6, <3>2
      <4> QED
        BY <2>5, <2>7, <4>1
    <3>3. CASE i > l - a
      <4>1. PICK j \in 1 .. n - l : i = (l - a) + j /\ l + j = a + i
        <5>1. /\ i - (l - a) \in 1 .. n - l /\ i = (l - a) + (i - (l - a))
              /\ l + (i - (l - a)) = a + i
          BY <1>1, <2>3, <3>3
        <5> QED
          BY <5>1
      <4>2. j \in 1 .. Len(g) /\ i = Len(f) + j
        BY <2>6, <4>1
      <4>3. w[i] = g[j] /\ g[j] = l + j
        BY <2>5, <2>7, <4>2
      <4> QED
        BY <4>1, <4>3
    <3> QED
      BY <2>3, <3>2, <3>3
  <2>10. w = h
    <3>1. w = [i \in 1 .. n - a |-> w[i]]
      BY <2>8
    <3> QED
      BY <2>4, <2>5, <2>9, <3>1
  <2> QED
    BY <2>7, <2>10 DEF f, g, h
<1>5. Solves(whole)
  <2>1. \A a \in 0 .. n : Body(whole, a) = RangeFrom(a, n)
    <3>1. TAKE a \in 0 .. n
    <3>2. PICK l \in a .. n : /\ InnerPage(a).items = RangeFrom(a, l)
                              /\ InnerPage(a).truncated => a < l /\ InnerPage(a).next.at = l
                              /\ ~InnerPage(a).truncated => l = n
      BY <1>3
    <3>3. whole[l] = RangeFrom(l, n)
      BY <1>1
    <3>4. RangeFrom(a, l) \o RangeFrom(l, n) = RangeFrom(a, n)
      BY <1>4
    <3> HIDE DEF whole
    <3> QED
      BY <3>2, <3>3, <3>4
  <2> QED
    BY <2>1
<1>6. Solves(ReadTests)
  <2> HIDE DEF Solves, whole
  <2>1. \E g : Solves(g)
    BY <1>5
  <2> QED
    BY <1>2, <2>1, Zenon
<1>7. \A a \in 0 .. n : ReadTests[a] = RangeFrom(a, n)
  <2> DEFINE Bad == {a \in 0 .. n : ReadTests[a] # RangeFrom(a, n)}
             T == {n - a : a \in Bad}
  <2>1. SUFFICES ASSUME Bad # {} PROVE FALSE
    OBVIOUS
  <2>2. \A a \in Bad : n - a \in Nat
    BY <1>1
  <2>3. T \subseteq Nat /\ T # {}
    <3> HIDE DEF Bad
    <3> QED
      BY <2>1, <2>2
  <2>4. PICK t \in T : \A u \in T : t <= u
    <3> HIDE DEF T
    <3> QED
      BY <2>3, LeastNumber
  <2>5. PICK a \in Bad : t = n - a
    BY <2>4
  <2>6. a \in 0 .. n /\ ReadTests[a] # RangeFrom(a, n)
    BY <2>5
  <2>7. \A b \in 0 .. n : a < b => ReadTests[b] = RangeFrom(b, n)
    <3>1. SUFFICES ASSUME NEW b \in 0 .. n, a < b, b \in Bad PROVE FALSE
      OBVIOUS
    <3>2. n - b \in T
      BY <3>1
    <3>3. n - a <= n - b
      BY <2>4, <2>5, <3>2
    <3> QED
      BY <1>1, <2>6, <3>1, <3>3
  <2>8. PICK l \in a .. n : /\ InnerPage(a).items = RangeFrom(a, l)
                            /\ InnerPage(a).truncated => a < l /\ InnerPage(a).next.at = l
                            /\ ~InnerPage(a).truncated => l = n
    BY <1>3, <2>6
  <2> HIDE DEF Bad, T
  <2>9. ReadTests[a] = Body(ReadTests, a)
    <3>1. PICK g : g = ReadTests
      OBVIOUS
    <3>2. g = [b \in 0 .. n |-> Body(g, b)]
      BY <1>6, <3>1
    <3> HIDE DEF Body
    <3>3. g[a] = Body(g, a)
      BY <2>6, <3>2
    <3> QED
      BY <3>1, <3>3
  <2>10. CASE InnerPage(a).truncated
    <3>1. l \in 0 .. n /\ a < l
      BY <1>1, <2>6, <2>8, <2>10
    <3>2. ReadTests[l] = RangeFrom(l, n)
      BY <2>7, <3>1
    <3>3. RangeFrom(a, l) \o RangeFrom(l, n) = RangeFrom(a, n)
      BY <1>4, <2>6
    <3> QED
      BY <2>6, <2>8, <2>9, <2>10, <3>2, <3>3
  <2>11. CASE ~InnerPage(a).truncated
    BY <2>6, <2>8, <2>9, <2>11
  <2> QED
    BY <2>10, <2>11
<1>8. 0 \in 0 .. n
  BY <1>1
<1> QED
  BY <1>7, <1>8 DEF n

LEMMA ReasonsAreSeq ==
    ASSUME NEW V, Records("tests") \in Seq(V)
    PROVE  UnavailableReasons \in Seq(V)
<1> DEFINE n == Len(Records("tests"))
           R == ReadTests[0]
           tests == [i \in DOMAIN R |-> Records("tests")[R[i]]]
<1>1. n \in Nat /\ \A i \in 1 .. n : Records("tests")[i] \in V
  OBVIOUS
<1>2. R = [i \in 1 .. n |-> i]
  <2>1. R = RangeFrom(0, n)
    BY EveryTestIsRead
  <2>2. RangeFrom(0, n) = [i \in 1 .. n |-> i]
    BY <1>1 DEF RangeFrom
  <2> QED
    BY <2>1, <2>2
<1> HIDE DEF n, R
<1>3. tests \in [1 .. n -> V]
  BY <1>1, <1>2
<1> HIDE DEF tests
<1>4. tests \in Seq(V)
  BY <1>1, <1>3, ListIsSeq
<1>5. PICK S : S = {i \in DOMAIN tests : tests[i].reason} /\ S \subseteq DOMAIN tests
  OBVIOUS
<1>6. Chosen(tests, S) \in Seq(V)
  BY <1>4, <1>5, ChosenIsSeq
<1> QED
  BY <1>5, <1>6 DEF UnavailableReasons, tests, R

\* One hit for each record of a view.
LEMMA OneHitEach ==
    ASSUME NEW V, NEW records \in Seq(V), NEW hits, DOMAIN hits = DOMAIN records,
           hits = [i \in DOMAIN hits |-> hits[i]]
    PROVE  Len(hits) = Len(records) /\ Len(hits) \in Nat
<1>1. Len(records) \in Nat /\ DOMAIN records = 1 .. Len(records)
  OBVIOUS
<1>2. PICK W : W = {hits[i] : i \in DOMAIN hits}
  OBVIOUS
<1>3. hits \in [1 .. Len(records) -> W]
  BY <1>1, <1>2
<1> QED
  BY <1>1, <1>3, ListIsSeq

AnyRecord == UNION {Sizes, [hit : BOOLEAN, reason : BOOLEAN, cases : Nat, size : Nat],
                    [hit : BOOLEAN, size : Nat, unavailable : BOOLEAN]}

LEMMA SeqOfMore ==
    ASSUME NEW V, NEW W, V \subseteq W, NEW f \in Seq(V)
    PROVE  f \in Seq(W)
<1>1. Len(f) \in Nat /\ f \in [1 .. Len(f) -> W]
  OBVIOUS
<1> QED
  BY <1>1, ListIsSeq

LEMMA RecordsAreSeq ==
    ASSUME inv \in Evidence, NEW view \in RecordViews
    PROVE  Records(view) \in Seq(AnyRecord)
<1> DEFINE A == Sizes
           B == [hit : BOOLEAN, reason : BOOLEAN, cases : Nat, size : Nat]
           C == [hit : BOOLEAN, size : Nat, unavailable : BOOLEAN]
<1>1. /\ inv.diagnostics \in Seq(A) /\ inv.coverage \in Seq(A)
      /\ inv.tests \in Seq(B) /\ inv.artifacts \in Seq(C)
  BY DEF Evidence
<1>2. A \subseteq AnyRecord /\ B \subseteq AnyRecord /\ C \subseteq AnyRecord
  <2> HIDE DEF A, B, C
  <2>1. AnyRecord = UNION {A, B, C}
    BY DEF AnyRecord, A, B, C
  <2> QED
    BY <2>1
<1> HIDE DEF A, B, C
<1>3. /\ inv.diagnostics \in Seq(AnyRecord) /\ inv.coverage \in Seq(AnyRecord)
      /\ inv.tests \in Seq(AnyRecord) /\ inv.artifacts \in Seq(AnyRecord)
  BY <1>1, <1>2, SeqOfMore
<1>4. <<>> \in Seq(AnyRecord)
  OBVIOUS
<1>5. Details(view) \in {inv.diagnostics, inv.tests, inv.coverage, inv.artifacts}
  BY DEF Details, RecordViews
<1> QED
  BY <1>3, <1>4, <1>5, Zenon DEF Records

\* The part of the console that is read is a console.
LEMMA ConsoleReadIsSeq ==
    ASSUME inv \in Evidence
    PROVE  ConsoleRead \in [out : Seq(Lines), err : Seq(Lines)]
<1>1. PICK out \in Seq(Lines), err \in Seq(Lines) :
        out = inv.console.out /\ err = inv.console.err
  BY DEF Evidence
<1>2. PICK n \in Nat : n = ConsoleTail
  BY InspectionAssumption DEF ConsoleTail
<1>3. LastOf(out, n) \in Seq(Lines) /\ LastOf(err, n) \in Seq(Lines)
  BY PartIsSeq
<1> QED
  BY <1>1, <1>2, <1>3 DEF ConsoleRead

LEMMA LogSourceIsSeq ==
    ASSUME inv \in Evidence, NEW view \in LogViews
    PROVE  \E V : LogSource(view) \in Seq(V)
<1>1. CASE view = "log"
  <2>1. ConsoleRead \in [out : Seq(Lines), err : Seq(Lines)]
    BY ConsoleReadIsSeq
  <2>2. LogRecords \in Seq(EvidenceRecords)
    <3>1. FailureEvidence(inv.testLike, inv.failed, ConsoleRead) \in Seq(EvidenceRecords)
      BY <2>1, FailureEvidenceIsSeq
    <3>2. FailureEvidence(FALSE, TRUE, ConsoleRead) \in Seq(EvidenceRecords)
      BY <2>1, FailureEvidenceIsSeq
    <3> QED
      BY <3>1, <3>2, Zenon DEF LogRecords
  <2> QED
    BY <1>1, <2>2 DEF LogSource
<1>2. CASE view = "test_log" /\ inv.hasTestlog
  <2>1. inv.testlog \in Seq([label : STRING, text : STRING, size : Nat])
    BY DEF Evidence
  <2>2. LogSource(view) = inv.testlog
    BY <1>2, Zenon DEF LogSource, TestLogRecords
  <2> QED
    BY <2>1, <2>2
<1>3. CASE view = "test_log" /\ ~inv.hasTestlog
  <2>1. PICK v \in RecordViews : v = "tests"
    BY DEF RecordViews
  <2>2. Records("tests") \in Seq(AnyRecord)
    BY <2>1, RecordsAreSeq
  <2>3. UnavailableReasons \in Seq(AnyRecord)
    BY <2>2, ReasonsAreSeq
  <2>4. LogSource(view) = UnavailableReasons
    BY <1>3, Zenon DEF LogSource
  <2> QED
    BY <2>3, <2>4
<1> QED
  BY <1>1, <1>2, <1>3, Zenon DEF LogViews

\* The hits of a view are one for each of its items.
LEMMA HitsAreListed ==
    ASSUME inv \in Evidence, NEW req, req.view \in EvidenceViews
    PROVE  /\ Len(ViewHits(req)) \in Nat
           /\ req.view \in RecordViews => Len(ViewHits(req)) = Len(Records(req.view))
<1>0. /\ req.view = "query_results" \/ req.view \in LogViews \/ req.view \in RecordViews
      /\ ~(req.view = "query_results" /\ req.view \in RecordViews)
      /\ ~(req.view \in LogViews /\ req.view \in RecordViews)
      /\ ~(req.view = "query_results" /\ req.view \in LogViews)
  BY DEF EvidenceViews, Views, RecordViews, LogViews, LedgerViews, SingleViews
<1>1. CASE req.view = "query_results"
  <2>1. inv.stdout \in Seq(Bytes)
    BY DEF Evidence
  <2> QED
    BY <1>0, <1>1, <2>1, RowsHaveHits
<1>2. CASE req.view \in LogViews
  <2>1. PICK V : LogSource(req.view) \in Seq(V)
    BY <1>2, LogSourceIsSeq
  <2>2. PICK records \in Seq(V) : records = LogSource(req.view)
    BY <2>1
  <2>3. ViewHits(req) = EvidenceHits(req, records)
    BY <1>0, <1>2, <2>2 DEF ViewHits
  <2>4. PICK hits : hits = EvidenceHits(req, records)
    OBVIOUS
  <2>5. DOMAIN hits = DOMAIN records /\ hits = [i \in DOMAIN hits |-> hits[i]]
    BY <2>4 DEF EvidenceHits
  <2>6. Len(hits) \in Nat
    BY <2>5, OneHitEach
  <2> QED
    BY <1>0, <1>2, <2>3, <2>4, <2>6
<1>3. CASE req.view \in RecordViews
  <2>1. PICK records \in Seq(AnyRecord) : records = Records(req.view)
    BY <1>3, RecordsAreSeq
  <2>2. PICK hits : hits = RecordHits(req.view, req)
    OBVIOUS
  <2>3. DOMAIN hits = DOMAIN records /\ hits = [i \in DOMAIN hits |-> hits[i]]
    BY <2>1, <2>2 DEF RecordHits
  <2>4. Len(hits) \in Nat /\ Len(hits) = Len(records)
    BY <2>3, OneHitEach
  <2>5. ViewHits(req) = hits
    BY <1>0, <1>3, <2>2 DEF ViewHits
  <2> QED
    BY <2>1, <2>4, <2>5
<1> QED
  BY <1>0, <1>1, <1>2, <1>3

-----------------------------------------------------------------------------
(***************************************************************************)
(* Every view's page reads on from its cursor, and its counts are true.    *)
(***************************************************************************)
CountedView(req) == req.view \in RecordViews \cup {"query_results"}

CountsOk(req, page) ==
    /\ page.total \in {Unknown, IF req.view = "query_results" THEN Len(RowsOf(0))
                                ELSE Len(Records(req.view))}
    /\ page.filtered \in {Unknown, Cardinality(HitsIn(ViewHits(req), 1, Len(ViewHits(req))))}

LEMMA CursorStandsAfter ==
    ASSUME NEW req, req.view \in RecordViews \cup LogViews, NEW cursor, CursorOk(req, cursor)
    PROVE  After(cursor) = From(cursor)
<1>1. CASE cursor = NoCursor
  BY <1>1 DEF After, From
<1>2. CASE cursor # NoCursor
  <2>1. cursor.kind \in {"ordinal", "log"}
    BY <1>2 DEF CursorOk, WalkKind, RecordViews, LogViews
  <2> QED
    BY <1>2, <2>1 DEF After, From, Ordinal
<1> QED
  BY <1>1, <1>2

LEMMA RecordPageReadsOn ==
    ASSUME inv \in Evidence, NEW req, req.view \in RecordViews,
           NEW cursor, CursorOk(req, cursor), NEW items \in Int, NEW scan \in Int,
           NEW page, page = PageOfRecords(req.view, req, cursor, items, scan)
    PROVE  (\E b : ReadsOn(req, cursor, page, b)) /\ CountsOk(req, page)
<1> DEFINE h == ViewHits(req)
           a == From(cursor)
           ctx == Context(req.view, req.id, req.filter)
           s == Scan(h, a, ItemLimit(items), ScanLimit(items, scan))
<1>1. /\ req.view # "query_results" /\ req.view \notin LogViews
      /\ req.view \in EvidenceViews /\ req.view \in RecordViews \cup LogViews
  BY DEF RecordViews, LogViews, EvidenceViews, Views, LedgerViews, SingleViews
<1>2. h = RecordHits(req.view, req)
  BY <1>1 DEF ViewHits
<1>3. Len(h) \in Nat /\ Len(h) = Len(Records(req.view))
  BY <1>1, HitsAreListed
<1>4. After(cursor) = a
  BY <1>1, CursorStandsAfter
<1>5. WalkKind(req) = "ordinal" /\ WalkContext(req) = ctx
  BY DEF WalkKind, WalkContext
<1> HIDE DEF ctx
<1>6. page = RecordPage(ctx, req.filter, h, a, s)
  <2> HIDE DEF a, h
  <2> QED
    BY <1>2, <1>4 DEF PageOfRecords, PageRecords, ctx, s
<1>7. a \in 0 .. Len(h)
  BY <1>3 DEF CursorOk, From
<1>8. GoesForward(h, a, s)
  <2>1. ItemLimit(items) \in Nat \ {0} /\ ScanLimit(items, scan) \in Nat \ {0}
    BY LimitsArePositive
  <2> HIDE DEF h, a
  <2> QED
    BY <1>3, <1>7, <2>1, ScanGoesForward
<1> HIDE DEF h, a
<1>9. PICK t : t = s
  OBVIOUS
<1> HIDE DEF s
<1>10. /\ t.last \in a .. Len(h) /\ t.ordinals = InOrder(HitsIn(h, a + 1, t.last))
       /\ t.truncated \in BOOLEAN /\ (~t.truncated => t.last = Len(h))
  BY <1>8, <1>9, Zenon DEF GoesForward
<1>11. page = Page(t.ordinals, [i \in DOMAIN t.ordinals |-> OrdinalCursor(ctx, t.ordinals[i])],
                   Len(h),
                   IF req.filter = "none" THEN Len(h)
                   ELSE IF a = 0 /\ ~t.truncated THEN Len(t.ordinals) ELSE Unknown,
                   IF t.truncated THEN OrdinalCursor(ctx, t.last) ELSE NoCursor, t.truncated)
  BY <1>6, <1>9 DEF RecordPage
<1>12. /\ page.items = t.ordinals /\ page.truncated = t.truncated /\ page.total = Len(h)
       /\ page.item_cursors = [i \in DOMAIN t.ordinals |-> OrdinalCursor(ctx, t.ordinals[i])]
       /\ page.filtered = IF req.filter = "none" THEN Len(h)
                          ELSE IF a = 0 /\ ~t.truncated THEN Len(t.ordinals) ELSE Unknown
       /\ page.next = IF t.truncated THEN OrdinalCursor(ctx, t.last) ELSE NoCursor
       /\ page = Page(page.items, page.item_cursors, page.total, page.filtered, page.next,
                      page.truncated)
  BY <1>11 DEF Page
<1>13. \A n : StandsAt(req, OrdinalCursor(ctx, n), n)
  BY <1>5 DEF StandsAt, OrdinalCursor
<1>14. ScannedPage(req, page, t)
  <2>1. IsPage(page)
    BY <1>10, <1>12 DEF IsPage
  <2>2. DOMAIN page.item_cursors = DOMAIN t.ordinals
    BY <1>12
  <2>3. \A i \in DOMAIN t.ordinals : StandsAt(req, page.item_cursors[i], t.ordinals[i])
    BY <1>12, <1>13
  <2>4. IF t.truncated THEN StandsAt(req, page.next, t.last) ELSE page.next = NoCursor
    BY <1>12, <1>13
  <2> QED
    BY <1>12, <2>1, <2>2, <2>3, <2>4 DEF ScannedPage
<1>15. ReadsOn(req, cursor, page, t.last)
  BY <1>1, <1>3, <1>9, <1>14, ScannedPageReadsOn DEF h, a, s
<1>16. page.total \in {Unknown, Len(Records(req.view))}
  BY <1>3, <1>12
<1>17. page.filtered \in {Unknown, Cardinality(HitsIn(h, 1, Len(h)))}
  <2>1. CASE req.filter = "none"
    <3>1. \A i \in DOMAIN h : h[i]
      BY <1>2, <2>1 DEF RecordHits, Matches
    <3>2. DOMAIN h = 1 .. Len(h)
      <4>1. PICK records \in Seq(AnyRecord) : records = Records(req.view)
        BY RecordsAreSeq
      <4>2. DOMAIN records = 1 .. Len(records)
        OBVIOUS
      <4>3. DOMAIN h = DOMAIN records
        BY <1>2, <4>1 DEF RecordHits
      <4> QED
        BY <1>3, <4>1, <4>2, <4>3
    <3>3. HitsIn(h, 1, Len(h)) = 1 .. Len(h)
      BY <3>1, <3>2 DEF HitsIn
    <3>4. Cardinality(1 .. Len(h)) = Len(h)
      <4>1. PICK one \in Int, n \in Int : one = 1 /\ n = Len(h)
        BY <1>3
      <4>2. Cardinality(one .. n) = IF one > n THEN 0 ELSE n - one + 1
        BY FS_Interval
      <4> QED
        BY <1>3, <4>1, <4>2
    <3> QED
      BY <1>12, <2>1, <3>3, <3>4
  <2>2. CASE req.filter # "none" /\ a = 0 /\ ~t.truncated
    <3> DEFINE S == HitsIn(h, 1, Len(h))
    <3>1. t.ordinals = InOrder(S)
      <4>1. t.last = Len(h) /\ a + 1 = 1
        BY <1>10, <2>2
      <4> QED
        BY <1>10, <4>1
    <3>2. S \subseteq Int /\ IsFiniteSet(S)
      <4>1. PICK one \in Int, n \in Int : one = 1 /\ n = Len(h)
        BY <1>3
      <4> QED
        BY <4>1, HitsAreFinite
    <3> HIDE DEF S
    <3>3. Cardinality(S) \in Nat /\ InOrder(S) \in [1 .. Cardinality(S) -> S]
      BY <3>2, InOrderLists, FS_CardinalityType
    <3>4. Len(t.ordinals) = Cardinality(S)
      BY <3>1, <3>3, ListIsSeq
    <3> QED
      BY <1>12, <2>2, <3>4 DEF S
  <2>3. CASE req.filter # "none" /\ ~(a = 0 /\ ~t.truncated)
    BY <1>12, <2>3
  <2> QED
    BY <2>1, <2>2, <2>3
<1> QED
  BY <1>1, <1>15, <1>16, <1>17 DEF CountsOk, h

LEMMA LogPageReadsOn ==
    ASSUME inv \in Evidence, NEW req, req.view \in LogViews,
           NEW cursor, CursorOk(req, cursor), NEW items \in Int, NEW scan \in Int,
           NEW page, page = PageEvidence(req.view, req.id, req.filter,
                                         EvidenceHits(req, LogSource(req.view)),
                                         cursor, items, scan)
    PROVE  \E b : ReadsOn(req, cursor, page, b)
<1> DEFINE h == ViewHits(req)
           a == From(cursor)
           s == Scan(h, a, ItemLimit(items), ScanLimit(items, scan))
<1>1. /\ req.view # "query_results" /\ req.view \notin RecordViews
      /\ req.view \in EvidenceViews /\ req.view \in RecordViews \cup LogViews
  BY DEF RecordViews, LogViews, EvidenceViews, Views, LedgerViews, SingleViews
<1>2. h = EvidenceHits(req, LogSource(req.view))
  BY <1>1 DEF ViewHits
<1>3. Len(h) \in Nat
  BY <1>1, HitsAreListed
<1>4. After(cursor) = a
  BY <1>1, CursorStandsAfter
<1>5. WalkKind(req) = "log" /\ WalkContext(req) = <<req.view, req.id, req.filter>>
  BY <1>1 DEF WalkKind, WalkContext
<1>6. page = EvidencePage(req.view, req.id, req.filter, s)
  <2> HIDE DEF a, h
  <2> QED
    BY <1>2, <1>4 DEF PageEvidence, s
<1>7. a \in 0 .. Len(h)
  BY <1>3 DEF CursorOk, From
<1>8. GoesForward(h, a, s)
  <2>1. ItemLimit(items) \in Nat \ {0} /\ ScanLimit(items, scan) \in Nat \ {0}
    BY LimitsArePositive
  <2> HIDE DEF h, a
  <2> QED
    BY <1>3, <1>7, <2>1, ScanGoesForward
<1> HIDE DEF h, a
<1>9. PICK t : t = s
  OBVIOUS
<1> HIDE DEF s
<1>10. t.truncated \in BOOLEAN
  BY <1>8, <1>9, Zenon DEF GoesForward
<1>12. /\ page.items = t.ordinals /\ page.truncated = t.truncated
       /\ page.item_cursors = [i \in DOMAIN t.ordinals |->
                                 LogCursor(req.view, req.id, req.filter, t.ordinals[i])]
       /\ page.next = IF t.truncated THEN LogCursor(req.view, req.id, req.filter, t.last)
                      ELSE NoCursor
       /\ page = Page(page.items, page.item_cursors, page.total, page.filtered, page.next,
                      page.truncated)
  BY <1>6, <1>9 DEF EvidencePage, Page
<1>13. \A n : StandsAt(req, LogCursor(req.view, req.id, req.filter, n), n)
  BY <1>5 DEF StandsAt, LogCursor
<1>14. ScannedPage(req, page, t)
  <2>1. IsPage(page)
    BY <1>10, <1>12 DEF IsPage
  <2>2. DOMAIN page.item_cursors = DOMAIN t.ordinals
    BY <1>12
  <2>3. \A i \in DOMAIN t.ordinals : StandsAt(req, page.item_cursors[i], t.ordinals[i])
    BY <1>12, <1>13
  <2>4. IF t.truncated THEN StandsAt(req, page.next, t.last) ELSE page.next = NoCursor
    BY <1>12, <1>13
  <2> QED
    BY <1>12, <2>1, <2>2, <2>3, <2>4 DEF ScannedPage
<1>15. ReadsOn(req, cursor, page, t.last)
  BY <1>1, <1>3, <1>9, <1>14, ScannedPageReadsOn DEF h, a, s
<1> QED
  BY <1>15

\* What finish_invocation recorded is the count of the rows there are.
CountHolds ==
    inv.state = "finished" => inv.count = Unknown \/ inv.count = CountQueryRows(inv.stdout)

LEMMA RowPageReadsOn ==
    ASSUME inv \in Evidence, CountHolds, NEW req, req.view = "query_results",
           NEW cursor, CursorOk(req, cursor), NEW items \in Int, NEW scan \in Int,
           NEW answer, answer = ReadRows(req, cursor, items, scan), ~answer.error
    PROVE  (\E b : ReadsOn(req, cursor, answer.page, b)) /\ CountsOk(req, answer.page)
<1>1. inv.stdout \in Seq(Bytes)
  BY DEF Evidence
<1>2. ItemLimit(items) \in Nat \ {0} /\ ScanLimit(items, scan) \in Nat \ {0}
  BY LimitsArePositive
<1>3. PICK rows : rows = RowsOf(RowStart(cursor).at)
  OBVIOUS
<1>4. PICK hit : hit = RowHits(req, rows)
  OBVIOUS
<1>5. PICK known : known = KnownTotal(req.filter)
  OBVIOUS
<1>6. KnownIsTrue(known)
  <2>1. CountQueryRows(inv.stdout) = Len(RowsOf(0))
    BY <1>1, RowsAreCounted
  <2> QED
    BY <1>5, <2>1 DEF KnownIsTrue, KnownTotal, CountHolds
<1>7. PICK l \in Nat \ {0}, n \in Nat \ {0} : l = ItemLimit(items) /\ n = ScanLimit(items, scan)
  BY <1>2
<1>8. PICK s : s = FileScan(rows, hit, l, n, req.filter, known)
  OBVIOUS
<1>9. WalkContext(req) = Context("query_rows", req.id, req.filter)
  BY DEF WalkContext, RecordViews, LogViews
<1>10. PICK page : page = FilePageOf(WalkContext(req), req.filter, rows, hit,
                                     RowStart(cursor), known, s)
  OBVIOUS
<1>11. ~DecodesFor(cursor, "file", Context("query_rows", req.id, req.filter)) => answer = Refused
  BY DEF ReadRows
<1>12. Refused.error
  BY DEF Refused
<1>13. answer = Answer(page)
  BY <1>3, <1>4, <1>5, <1>7, <1>8, <1>9, <1>10, <1>11, <1>12 DEF ReadRows, PageRows
<1>14. answer.page = page
  BY <1>13 DEF Answer
<1>15. ReadsOn(req, cursor, page, From(cursor) + s.last)
  BY <1>1, <1>3, <1>4, <1>6, <1>8, <1>10, FilePageReadsOn
<1>16. /\ page.total \in {Unknown, Len(RowsOf(0))}
       /\ page.filtered \in
             {Unknown, Cardinality(HitsIn(ViewHits(req), 1, Len(ViewHits(req))))}
  BY <1>1, <1>3, <1>4, <1>6, <1>8, <1>10, FilePageCounts
<1> QED
  BY <1>14, <1>15, <1>16 DEF CountsOk

PageViews == EvidenceViews \ {"coverage"}

LEMMA InspectReadsOn ==
    ASSUME inv \in Evidence, CountHolds, NEW req, req.view \in PageViews,
           NEW cursor, CursorOk(req, cursor), NEW items \in Int, NEW scan \in Int,
           NEW answer, answer = Inspect(req, cursor, items, scan), ~answer.error
    PROVE  /\ \E b : ReadsOn(req, cursor, answer.page, b)
           /\ CountedView(req) => CountsOk(req, answer.page)
<1>0. Refused.error /\ \A page : Answer(page).page = page
  BY DEF Refused, Answer
<1>1. /\ req.view = "query_results" \/ req.view \in LogViews
         \/ req.view \in RecordViews \ {"coverage"}
      /\ req.view \notin LedgerViews
  BY DEF PageViews, EvidenceViews, Views, RecordViews, LogViews, LedgerViews, SingleViews
<1>2. inv.state # "gone"
  BY <1>0, <1>1 DEF Inspect
<1>3. CASE req.view = "query_results"
  <2>1. answer = ReadRows(req, cursor, items, scan)
    BY <1>1, <1>2, <1>3 DEF Inspect, SingleViews, RecordViews, LogViews
  <2> QED
    BY <1>3, <2>1, RowPageReadsOn
<1>4. CASE req.view \in LogViews
  <2>1. answer = ReadLog(req, cursor, items, scan)
    BY <1>1, <1>2, <1>4 DEF Inspect, SingleViews, RecordViews, LogViews
  <2>2. PICK page : page = PageEvidence(req.view, req.id, req.filter,
                                        EvidenceHits(req, LogSource(req.view)),
                                        cursor, items, scan)
    OBVIOUS
  <2>3. answer = Answer(page)
    BY <1>0, <2>1, <2>2 DEF ReadLog
  <2>4. \E b : ReadsOn(req, cursor, page, b)
    BY <1>4, <2>2, LogPageReadsOn
  <2>5. ~CountedView(req)
    BY <1>4 DEF CountedView, LogViews, RecordViews
  <2> QED
    BY <1>0, <2>3, <2>4, <2>5
<1>5. CASE req.view \in RecordViews \ {"coverage"}
  <2>1. answer = ReadRecords(req, cursor, items, scan)
    BY <1>1, <1>2, <1>5 DEF Inspect, SingleViews, RecordViews, LogViews
  <2>2. PICK page : page = PageOfRecords(req.view, req, cursor, items, scan)
    OBVIOUS
  <2>3. answer = Answer(page)
    BY <1>0, <1>5, <2>1, <2>2 DEF ReadRecords
  <2>4. (\E b : ReadsOn(req, cursor, page, b)) /\ CountsOk(req, page)
    BY <1>5, <2>2, RecordPageReadsOn
  <2> QED
    BY <1>0, <2>3, <2>4
<1> QED
  BY <1>1, <1>3, <1>4, <1>5

\* What a response to a request of the walk does for its client.
Continues(req, cursor, items, page) ==
    /\ CursorOk(req, page.next)
    /\ page.next # NoCursor => items \o page.items = ItemsUpto(req, From(page.next))
    /\ ~page.truncated => items \o page.items = AllItems(req)
    /\ \E n \in 0 .. Len(ViewHits(req)) : items \o page.items = ItemsUpto(req, n)
    /\ CountedView(req) => CountsOk(req, page)

LEMMA ResponseContinues ==
    ASSUME inv \in Evidence, CountHolds, NEW req, req.view \in PageViews,
           NEW cursor, CursorOk(req, cursor), NEW limit \in Nat, NEW requested,
           NEW answer, answer = BazelInspect(req, cursor, limit, requested), ~answer.error
    PROVE  Continues(req, cursor, ItemsUpto(req, From(cursor)), answer.page)
<1>0. Refused.error
  BY DEF Refused
<1>1. PICK n \in Int : n = Clamp(limit, 1, MaxItems)
  BY LimitsAssumption DEF Clamp
<1>2. PICK m \in Int : m = HandlerScan(n)
  BY <1>1, LimitsAssumption, InspectionAssumption DEF HandlerScan, Clamp
<1>3. req.view # "tasks" /\ req.view \in EvidenceViews
  BY DEF PageViews, EvidenceViews, LedgerViews
<1>4. PICK read : read = Inspect(req, cursor, n, m)
  OBVIOUS
<1>5. PICK budget : budget = Budget(requested)
  OBVIOUS
<1>6. answer = Packed(req, read, budget, cursor)
  BY <1>0, <1>1, <1>2, <1>3, <1>4, <1>5 DEF BazelInspect
<1>7. ~read.error /\ answer = Pack(req, read.page, budget, cursor)
  BY <1>0, <1>6 DEF Packed
<1>8. PICK page : page = read.page
  OBVIOUS
<1>9. (\E b : ReadsOn(req, cursor, page, b)) /\ (CountedView(req) => CountsOk(req, page))
  BY <1>4, <1>7, <1>8, InspectReadsOn
<1>10. PICK b : ReadsOn(req, cursor, page, b)
  BY <1>9
<1>11. Len(ViewHits(req)) \in Nat
  BY <1>3, HitsAreListed
<1>12. PackContinues(req, cursor, page, Pack(req, page, budget, cursor).page)
  <2>1. ~Pack(req, page, budget, cursor).error
    BY <1>7, <1>8
  <2> QED
    BY <1>10, <1>11, <2>1, PackedPageReadsOn
<1>13. PackContinues(req, cursor, page, answer.page)
  BY <1>7, <1>8, <1>12
<1>14. CountedView(req) => CountsOk(req, answer.page)
  BY <1>9, <1>13 DEF CountsOk, PackContinues
<1> QED
  BY <1>13, <1>14 DEF Continues, PackContinues

-----------------------------------------------------------------------------
(***************************************************************************)
(* The ledger.  Its keys are ordered by time and then by identifier.       *)
(***************************************************************************)
LEMMA KeysAreOrdered ==
    ASSUME NEW k \in Nat \X Nat, NEW l \in Nat \X Nat, NEW m \in Nat \X Nat
    PROVE  /\ ~KeyBelow(k, k)
           /\ KeyBelow(k, l) /\ KeyBelow(l, m) => KeyBelow(k, m)
           /\ k # l => KeyBelow(k, l) \/ KeyBelow(l, k)
           /\ KeyBelow(k, l) /\ ~KeyBelow(m, l) => KeyBelow(k, m)
           /\ ~KeyBelow(l, k) /\ KeyBelow(l, m) => KeyBelow(k, m)
<1>1. /\ k[1] \in Nat /\ k[2] \in Nat /\ l[1] \in Nat /\ l[2] \in Nat
      /\ m[1] \in Nat /\ m[2] \in Nat
  OBVIOUS
<1>2. k # l => k[1] # l[1] \/ k[2] # l[2]
  OBVIOUS
<1> QED
  BY <1>1, <1>2 DEF KeyBelow

\* How many keys of S are above k.
KeyRank(S, k) == Cardinality({l \in S : KeyBelow(k, l)})

\* Ordered lists keys: once each, and in descending order.
LEMMA OrderedLists ==
    ASSUME NEW S, S \subseteq Nat \X Nat, IsFiniteSet(S)
    PROVE  /\ Ordered(S) \in [1 .. Cardinality(S) -> S]
           /\ \A x \in S : \E n \in 1 .. Cardinality(S) : Ordered(S)[n] = x
           /\ \A m, n \in 1 .. Cardinality(S) :
                  m < n => KeyBelow(Ordered(S)[n], Ordered(S)[m])
<1> DEFINE up == [x \in S |-> {y \in S : KeyBelow(x, y)}]
<1>1. \A x \in S : up[x] = {y \in S : KeyBelow(x, y)}
  OBVIOUS
<1>2. \A x, y \in S : x \in up[y] <=> KeyBelow(y, x)
  OBVIOUS
<1>3. up \in [S -> SUBSET S]
  OBVIOUS
<1> HIDE DEF up
<1>4. Ranks(S, up)
  <2>1. \A x \in S : x \notin up[x]
    BY <1>2, KeysAreOrdered
  <2>2. \A x, y \in S : x \in up[y] => up[x] \subseteq up[y]
    <3>1. SUFFICES ASSUME NEW x \in S, NEW y \in S, KeyBelow(y, x), NEW z \in up[x]
                   PROVE  z \in up[y]
      BY <1>2
    <3>2. z \in S
      BY <1>3
    <3>3. KeyBelow(x, z)
      BY <1>2, <3>2
    <3>4. KeyBelow(y, z)
      BY <3>1, <3>2, <3>3, KeysAreOrdered
    <3> QED
      BY <1>2, <3>2, <3>4
  <2>3. \A x, y \in S : x = y \/ x \in up[y] \/ y \in up[x]
    BY <1>2, KeysAreOrdered
  <2> QED
    BY <1>3, <2>1, <2>2, <2>3 DEF Ranks
<1>5. PICK f : f = Ordered(S)
  OBVIOUS
<1>6. NamesEachRank(S, up, f)
  <2>1. \A n \in 1 .. Cardinality(S) :
            (\E x \in S : KeyRank(S, x) = n - 1) => f[n] \in S /\ KeyRank(S, f[n]) = n - 1
    BY <1>5 DEF Ordered, KeyRank
  <2>3. \A x \in S : Cardinality(up[x]) = KeyRank(S, x)
    BY <1>1 DEF KeyRank
  <2>4. ASSUME NEW n \in 1 .. Cardinality(S), NEW x \in S, Cardinality(up[x]) = n - 1
        PROVE  f[n] \in S /\ Cardinality(up[f[n]]) = n - 1
    <3>1. KeyRank(S, x) = n - 1
      BY <2>3, <2>4
    <3>2. f[n] \in S /\ KeyRank(S, f[n]) = n - 1
      BY <2>1, <3>1
    <3> QED
      BY <2>3, <3>2
  <2> QED
    BY <2>4 DEF NamesEachRank
<1>7. /\ \A n \in 1 .. Cardinality(S) : f[n] \in S
      /\ \A x \in S : \E n \in 1 .. Cardinality(S) : f[n] = x
      /\ \A m, n \in 1 .. Cardinality(S) : m < n => f[m] \in up[f[n]]
  BY <1>4, <1>6, ListedByRank
<1>8. f \in [1 .. Cardinality(S) -> S]
  BY <1>5, <1>7 DEF Ordered
<1>9. \A m, n \in 1 .. Cardinality(S) : m < n => KeyBelow(f[n], f[m])
  BY <1>2, <1>7
<1> QED
  BY <1>5, <1>7, <1>8, <1>9

\* The keys a request lists.
LedgerSet(req) == IF req.view = "tasks" THEN DOMAIN ledger ELSE InWorkspace(req.ws)

LEMMA LedgerIsListed ==
    ASSUME IsLedger(ledger), NEW req
    PROVE  /\ LedgerKeys(req) = Ordered(LedgerSet(req))
           /\ LedgerSet(req) \subseteq DOMAIN ledger /\ LedgerSet(req) \subseteq Keys
           /\ LedgerSet(req) \subseteq Nat \X Nat /\ IsFiniteSet(LedgerSet(req))
           /\ Cardinality(LedgerSet(req)) \in Nat
<1>1. LedgerKeys(req) = Ordered(LedgerSet(req))
  BY DEF LedgerKeys, LedgerSet
<1>2. LedgerSet(req) \subseteq DOMAIN ledger
  BY DEF LedgerSet, InWorkspace
<1>3. DOMAIN ledger \subseteq Keys /\ IsFiniteSet(DOMAIN ledger)
  BY DEF IsLedger
<1>4. Keys \subseteq Nat \X Nat
  BY EvidenceAssumption
<1>5. IsFiniteSet(LedgerSet(req))
  BY <1>2, <1>3, FS_Subset
<1> QED
  BY <1>1, <1>2, <1>3, <1>4, <1>5, FS_CardinalityType

LedgerCursorOk(req, c) ==
    c = NoCursor \/ (c.kind = req.view /\ c.ctx = LedgerContext(req) /\ c.at \in Nat \X Nat)

\* A key the cursor has not passed.
Ahead(cursor, key) == cursor = NoCursor \/ KeyBelow(key, cursor.at)

Holds(items, key) == \E i \in 1 .. Len(items) : items[i] = key

\* A page of the ledger that goes on from a cursor.
LedgerPageOk(req, cursor, page) ==
    /\ page.items \in Seq(LedgerSet(req))
    /\ \A i, j \in 1 .. Len(page.items) : i < j => KeyBelow(page.items[j], page.items[i])
    /\ \A i \in 1 .. Len(page.items) : Ahead(cursor, page.items[i])
    /\ LedgerCursorOk(req, page.next)
    /\ page.next # NoCursor =>
          /\ \A i \in 1 .. Len(page.items) : ~KeyBelow(page.items[i], page.next.at)
          /\ cursor # NoCursor => ~KeyBelow(cursor.at, page.next.at)
          /\ \A z \in LedgerSet(req) :
                LedgerHit(req, z) /\ Ahead(cursor, z) /\ ~KeyBelow(z, page.next.at)
                  => Holds(page.items, z)
    /\ ~page.truncated =>
          \A z \in LedgerSet(req) :
             LedgerHit(req, z) /\ Ahead(cursor, z) => Holds(page.items, z)

\* It has a cursor for each item, and one behind it unless it is the last.
LedgerCursors(req, page) ==
    /\ IsPage(page) /\ (page.next = NoCursor => ~page.truncated)
    /\ DOMAIN page.item_cursors = 1 .. Len(page.items)
    /\ \A i \in 1 .. Len(page.items) :
          page.item_cursors[i] = TimeCursor(req.view, LedgerContext(req), page.items[i])

\* The keys at or above the cursor come first in the list.
LEMMA KeysBeforeAreFirst ==
    ASSUME NEW S, S \subseteq Nat \X Nat, IsFiniteSet(S), NEW keys, keys = Ordered(S),
           NEW cursor, cursor = NoCursor \/ cursor.at \in Nat \X Nat,
           NEW a, a = KeysBefore(keys, cursor)
    PROVE  /\ a \in 0 .. Cardinality(S)
           /\ \A i \in 1 .. Cardinality(S) : Ahead(cursor, keys[i]) <=> i > a
<1> DEFINE c == Cardinality(S)
<1>1. /\ c \in Nat /\ keys \in [1 .. c -> S]
      /\ \A m, n \in 1 .. c : m < n => KeyBelow(keys[n], keys[m])
  BY OrderedLists, FS_CardinalityType
<1> HIDE DEF c
<1>2. CASE cursor = NoCursor
  <2>1. a = 0
    BY <1>2 DEF KeysBefore
  <2> QED
    BY <1>1, <1>2, <2>1 DEF Ahead, c
<1>3. CASE cursor # NoCursor
  <2> DEFINE T == {i \in 1 .. c : ~KeyBelow(keys[i], cursor.at)}
  <2>1. a = Cardinality(T)
    BY <1>1, <1>3 DEF KeysBefore
  <2>2. T \subseteq 1 .. c /\ \A x \in T : \A y \in 1 .. c : y < x => y \in T
    <3>1. SUFFICES ASSUME NEW x \in 1 .. c, ~KeyBelow(keys[x], cursor.at), NEW y \in 1 .. c, y < x,
                          KeyBelow(keys[y], cursor.at)
                   PROVE  FALSE
      OBVIOUS
    <3>2. KeyBelow(keys[x], keys[y])
      BY <1>1, <3>1
    <3>3. keys[x] \in Nat \X Nat /\ keys[y] \in Nat \X Nat /\ cursor.at \in Nat \X Nat
      BY <1>1, <1>3
    <3>4. PICK p \in Nat \X Nat, q \in Nat \X Nat, u \in Nat \X Nat :
              p = keys[x] /\ q = keys[y] /\ u = cursor.at
      BY <3>3
    <3>5. KeyBelow(p, q) /\ KeyBelow(q, u) => KeyBelow(p, u)
      BY KeysAreOrdered
    <3> QED
      BY <3>1, <3>2, <3>4, <3>5
  <2>3. Cardinality(T) \in 0 .. c /\ T = 1 .. Cardinality(T)
    <3> HIDE DEF T
    <3> QED
      BY <1>1, <2>2, InitialRange
  <2>4. \A i \in 1 .. c : i \in T <=> ~(i > a)
    <3>1. \A i \in 1 .. c : i \in 1 .. Cardinality(T) <=> ~(i > Cardinality(T))
      <4> HIDE DEF T
      <4> QED
        BY <1>1, <2>3
    <3> HIDE DEF T
    <3> QED
      BY <2>1, <2>3, <3>1
  <2>5. \A i \in 1 .. c : i \in T <=> ~KeyBelow(keys[i], cursor.at)
    OBVIOUS
  <2> HIDE DEF T
  <2> QED
    BY <1>3, <2>1, <2>3, <2>4, <2>5 DEF Ahead, c
<1> QED
  BY <1>2, <1>3

LEMMA LedgerPageReadsOn ==
    ASSUME IsLedger(ledger), NEW req, NEW cursor, LedgerCursorOk(req, cursor),
           NEW items \in Int, NEW scan \in Int,
           NEW page, page = ListInvocations(req, cursor, items, scan)
    PROVE  /\ LedgerPageOk(req, cursor, page) /\ LedgerCursors(req, page)
           /\ page.next # NoCursor => Ahead(cursor, page.next.at)
<1> DEFINE K == LedgerSet(req)
           keys == LedgerKeys(req)
           c == Cardinality(K)
           ctx == LedgerContext(req)
           hit == [i \in DOMAIN keys |-> LedgerHit(req, keys[i])]
           a == KeysBefore(keys, cursor)
           s == Scan(hit, a, ItemLimit(items), ScanLimit(items, scan))
<1>1. /\ keys = Ordered(K) /\ K \subseteq Nat \X Nat /\ IsFiniteSet(K) /\ c \in Nat
  BY LedgerIsListed
<1> HIDE DEF K, keys
<1>2. /\ keys \in [1 .. c -> K] /\ DOMAIN keys = 1 .. c
      /\ \A z \in K : \E n \in 1 .. c : keys[n] = z
      /\ \A m, n \in 1 .. c : m < n => KeyBelow(keys[n], keys[m])
  BY <1>1, OrderedLists
<1>3. a \in 0 .. c /\ \A i \in 1 .. c : Ahead(cursor, keys[i]) <=> i > a
  <2>1. cursor = NoCursor \/ cursor.at \in Nat \X Nat
    BY DEF LedgerCursorOk
  <2> QED
    BY <1>1, <2>1, KeysBeforeAreFirst
<1>4. Len(hit) = c /\ \A i \in 1 .. c : hit[i] = LedgerHit(req, keys[i])
  <2>1. PICK W : W = {hit[i] : i \in 1 .. c}
    OBVIOUS
  <2>2. hit \in [1 .. c -> W]
    BY <1>2, <2>1
  <2>3. Len(hit) = c
    <3> HIDE DEF hit
    <3> QED
      BY <1>1, <2>2, ListIsSeq
  <2> QED
    BY <1>2, <2>3
<1> HIDE DEF c, hit, a
<1>5. GoesForward(hit, a, s)
  <2>1. ItemLimit(items) \in Nat \ {0} /\ ScanLimit(items, scan) \in Nat \ {0}
    BY LimitsArePositive
  <2> QED
    BY <1>1, <1>3, <1>4, <2>1, ScanGoesForward
<1>6. page = LedgerPage(req.view, ctx, keys, s)
  BY DEF ListInvocations, ListKeys, PageLedger, keys, hit, a
<1>7. PICK t : t = s
  OBVIOUS
<1> HIDE DEF s, ctx
<1> DEFINE T == HitsIn(hit, a + 1, t.last)
           k == Cardinality(T)
<1>8. /\ t.last \in a .. c /\ t.ordinals = InOrder(T) /\ t.truncated \in BOOLEAN
      /\ (t.truncated => a < t.last) /\ (~t.truncated => t.last = c)
  BY <1>4, <1>5, <1>7, Zenon DEF GoesForward
<1>9. /\ T \subseteq a + 1 .. t.last /\ T \subseteq Int /\ IsFiniteSet(T)
  <2>1. a + 1 \in Int /\ t.last \in Int
    BY <1>1, <1>3, <1>8
  <2> QED
    BY <2>1, HitsAreFinite
<1>10. \A i : i \in T <=> i \in a + 1 .. t.last /\ hit[i]
  BY DEF HitsIn
<1> HIDE DEF T
<1>11. /\ k \in Nat /\ InOrder(T) \in [1 .. k -> T]
       /\ \A x \in T : \E n \in 1 .. k : InOrder(T)[n] = x
       /\ \A m, n \in 1 .. k : m < n => InOrder(T)[m] < InOrder(T)[n]
  BY <1>9, InOrderLists, FS_CardinalityType
<1> HIDE DEF k
<1>12. /\ page.items = [i \in 1 .. k |-> keys[InOrder(T)[i]]]
       /\ page.item_cursors = [i \in 1 .. k |-> TimeCursor(req.view, ctx, keys[InOrder(T)[i]])]
       /\ page.next = IF t.truncated THEN TimeCursor(req.view, ctx, keys[t.last]) ELSE NoCursor
       /\ page.truncated = t.truncated
       /\ page = Page(page.items, page.item_cursors, page.total, page.filtered, page.next,
                      page.truncated)
  <2>1. DOMAIN t.ordinals = 1 .. k
    BY <1>8, <1>11
  <2> QED
    BY <1>6, <1>7, <1>8, <2>1 DEF LedgerPage, Page
<1>13. \A i \in 1 .. k : InOrder(T)[i] \in T /\ InOrder(T)[i] \in 1 .. c /\ InOrder(T)[i] > a
                         /\ InOrder(T)[i] <= t.last
  <2>1. \A x \in T : x \in 1 .. c /\ x > a /\ x <= t.last
    BY <1>1, <1>3, <1>8, <1>9
  <2> QED
    BY <1>11, <2>1
<1>14. page.items \in Seq(K) /\ Len(page.items) = k
  <2>1. page.items \in [1 .. k -> K]
    BY <1>2, <1>12, <1>13
  <2> QED
    BY <1>11, <2>1, ListIsSeq
<1>15. \A i, j \in 1 .. k : i < j => KeyBelow(page.items[j], page.items[i])
  <2>1. SUFFICES ASSUME NEW i \in 1 .. k, NEW j \in 1 .. k, i < j
                 PROVE  KeyBelow(page.items[j], page.items[i])
    OBVIOUS
  <2>2. InOrder(T)[i] < InOrder(T)[j]
    BY <1>11, <2>1
  <2>3. KeyBelow(keys[InOrder(T)[j]], keys[InOrder(T)[i]])
    BY <1>2, <1>13, <2>2
  <2> QED
    BY <1>12, <2>3
<1>16. \A i \in 1 .. k : Ahead(cursor, page.items[i])
  BY <1>3, <1>12, <1>13
<1>17. \A i, j \in 1 .. c : ~KeyBelow(keys[i], keys[j]) => i <= j
  BY <1>1, <1>2
<1>18. \A z \in K : LedgerHit(req, z) /\ Ahead(cursor, z) =>
           \E j \in a + 1 .. c : keys[j] = z /\ hit[j]
  <2>1. SUFFICES ASSUME NEW z \in K, LedgerHit(req, z), Ahead(cursor, z)
                 PROVE  \E j \in a + 1 .. c : keys[j] = z /\ hit[j]
    OBVIOUS
  <2>2. PICK j \in 1 .. c : keys[j] = z
    BY <1>2
  <2>3. j > a /\ hit[j]
    BY <1>3, <1>4, <2>1, <2>2
  <2>4. j \in a + 1 .. c
    BY <1>1, <1>3, <2>3
  <2> QED
    BY <2>2, <2>3, <2>4
<1>19. \A j \in a + 1 .. c : j <= t.last /\ hit[j] => Holds(page.items, keys[j])
  <2>1. SUFFICES ASSUME NEW j \in a + 1 .. c, j <= t.last, hit[j] PROVE Holds(page.items, keys[j])
    OBVIOUS
  <2>2. j \in T
    <3>1. j \in a + 1 .. t.last
      BY <1>1, <1>3, <1>8, <2>1
    <3> QED
      BY <1>10, <2>1, <3>1
  <2>3. PICK n \in 1 .. k : InOrder(T)[n] = j
    BY <1>11, <2>2
  <2>4. page.items[n] = keys[j]
    BY <1>12, <2>3
  <2> QED
    BY <1>14, <2>3, <2>4 DEF Holds
<1>20. ASSUME ~t.truncated, NEW z \in K, LedgerHit(req, z), Ahead(cursor, z)
       PROVE  Holds(page.items, z)
  <2>1. PICK j \in a + 1 .. c : keys[j] = z /\ hit[j]
    BY <1>18, <1>20
  <2>2. j <= t.last
    BY <1>1, <1>3, <1>8, <1>20, <2>1
  <2> QED
    BY <1>19, <2>1, <2>2
<1>21. ASSUME t.truncated
       PROVE  /\ page.next # NoCursor /\ LedgerCursorOk(req, page.next)
              /\ Ahead(cursor, page.next.at)
              /\ \A i \in 1 .. k : ~KeyBelow(page.items[i], page.next.at)
              /\ cursor # NoCursor => ~KeyBelow(cursor.at, page.next.at)
              /\ \A z \in K : LedgerHit(req, z) /\ Ahead(cursor, z) /\ ~KeyBelow(z, page.next.at)
                    => Holds(page.items, z)
  <2>1. t.last \in 1 .. c /\ t.last > a
    BY <1>1, <1>3, <1>8, <1>21
  <2>2. PICK q \in K : q = keys[t.last]
    BY <1>2, <2>1
  <2>3. page.next = TimeCursor(req.view, ctx, q)
    BY <1>12, <1>21, <2>2
  <2>4. page.next.kind = req.view /\ page.next.ctx = ctx /\ page.next.at = q
    BY <2>3 DEF TimeCursor
  <2>5. page.next # NoCursor
    <3>1. NoCursor = [kind |-> "none"] /\ DOMAIN NoCursor = {"kind"}
      BY DEF NoCursor
    <3>2. DOMAIN TimeCursor(req.view, ctx, q) = {"kind", "ctx", "at"}
      BY DEF TimeCursor
    <3> QED
      BY <2>3, <3>1, <3>2
  <2>6. LedgerCursorOk(req, page.next)
    BY <1>1, <2>4 DEF LedgerCursorOk, ctx
  <2>7. \A i \in 1 .. k : ~KeyBelow(page.items[i], q)
    <3>1. TAKE i \in 1 .. k
    <3>2. PICK x \in 1 .. c : x = InOrder(T)[i] /\ x <= t.last
      BY <1>13
    <3>3. PICK p \in K : p = keys[x]
      BY <1>2
    <3>4. x = t.last \/ KeyBelow(q, p)
      <4>1. PICK last \in 1 .. c : last = t.last
        BY <2>1
      <4>2. x = last \/ x < last
        BY <1>1, <3>2, <4>1
      <4>3. x < last => KeyBelow(keys[last], keys[x])
        BY <1>2
      <4> QED
        BY <2>2, <3>3, <4>1, <4>2, <4>3, Zenon
    <3>5. ~KeyBelow(q, q) /\ (KeyBelow(p, q) /\ KeyBelow(q, p) => KeyBelow(p, p)) /\ ~KeyBelow(p, p)
      BY <1>1, KeysAreOrdered
    <3>6. page.items[i] = p
      BY <1>12, <3>2, <3>3
    <3> QED
      BY <2>2, <3>2, <3>3, <3>4, <3>5, <3>6
  <2>8. cursor # NoCursor => ~KeyBelow(cursor.at, q)
    <3>1. SUFFICES ASSUME cursor # NoCursor PROVE ~KeyBelow(cursor.at, q)
      OBVIOUS
    <3>2. KeyBelow(q, cursor.at)
      BY <1>3, <2>1, <2>2, <3>1 DEF Ahead
    <3>3. PICK u \in Nat \X Nat : u = cursor.at
      BY <3>1 DEF LedgerCursorOk
    <3>4. (KeyBelow(u, q) /\ KeyBelow(q, u) => KeyBelow(u, u)) /\ ~KeyBelow(u, u)
      BY <1>1, KeysAreOrdered
    <3> QED
      BY <3>2, <3>3, <3>4
  <2>9. \A z \in K : LedgerHit(req, z) /\ Ahead(cursor, z) /\ ~KeyBelow(z, q)
            => Holds(page.items, z)
    <3>1. SUFFICES ASSUME NEW z \in K, LedgerHit(req, z), Ahead(cursor, z), ~KeyBelow(z, q)
                   PROVE  Holds(page.items, z)
      OBVIOUS
    <3>2. PICK j \in a + 1 .. c : keys[j] = z /\ hit[j]
      BY <1>18, <3>1
    <3>3. j \in 1 .. c
      BY <1>1, <1>3
    <3>4. j <= t.last
      BY <1>17, <2>1, <2>2, <3>1, <3>2, <3>3
    <3> QED
      BY <1>19, <3>2, <3>4
  <2>10. Ahead(cursor, q)
    BY <1>3, <2>1, <2>2
  <2> QED
    BY <2>4, <2>5, <2>6, <2>7, <2>8, <2>9, <2>10
<1>22. LedgerCursorOk(req, page.next) /\ (page.next # NoCursor => t.truncated)
       /\ (page.next = NoCursor => ~t.truncated)
  <2>1. CASE t.truncated
    BY <1>21, <2>1
  <2>2. CASE ~t.truncated
    BY <1>12, <2>2 DEF LedgerCursorOk
  <2> QED
    BY <2>1, <2>2
<1>23. LedgerPageOk(req, cursor, page)
  <2>1. page.next # NoCursor =>
          /\ \A i \in 1 .. Len(page.items) : ~KeyBelow(page.items[i], page.next.at)
          /\ cursor # NoCursor => ~KeyBelow(cursor.at, page.next.at)
          /\ \A z \in K : LedgerHit(req, z) /\ Ahead(cursor, z) /\ ~KeyBelow(z, page.next.at)
                => Holds(page.items, z)
    BY <1>14, <1>21, <1>22
  <2>2. ~page.truncated =>
          \A z \in K : LedgerHit(req, z) /\ Ahead(cursor, z) => Holds(page.items, z)
    BY <1>12, <1>20
  <2> QED
    BY <1>14, <1>15, <1>16, <1>22, <2>1, <2>2 DEF LedgerPageOk, K
<1>24. LedgerCursors(req, page)
  <2>1. IsPage(page)
    BY <1>8, <1>12 DEF IsPage
  <2>2. DOMAIN page.item_cursors = 1 .. k
    BY <1>12
  <2>3. \A i \in 1 .. k : page.item_cursors[i] = TimeCursor(req.view, ctx, page.items[i])
    BY <1>12
  <2>4. page.next = NoCursor => ~page.truncated
    BY <1>12, <1>22
  <2> QED
    BY <1>14, <2>1, <2>2, <2>3, <2>4 DEF LedgerCursors, ctx
<1>25. page.next # NoCursor => Ahead(cursor, page.next.at)
  BY <1>21, <1>22
<1> QED
  BY <1>23, <1>24, <1>25

\* Packing keeps the first keys of a ledger's page, and the cursor of the last of them.
LEMMA PackedLedgerPage ==
    ASSUME IsLedger(ledger), NEW req, NEW cursor, LedgerCursorOk(req, cursor),
           NEW page, LedgerPageOk(req, cursor, page), LedgerCursors(req, page),
           NEW budget, ~Pack(req, page, budget, cursor).error
    PROVE  LedgerPageOk(req, cursor, Pack(req, page, budget, cursor).page)
<1> SUFFICES ASSUME NEW packed, packed = Pack(req, page, budget, cursor).page
             PROVE  LedgerPageOk(req, cursor, packed)
  BY Zenon
<1> DEFINE K == LedgerSet(req)
           k == Len(page.items)
<1>1. K \subseteq Nat \X Nat
  BY LedgerIsListed
<1>2. /\ page.items \in Seq(K)
      /\ \A i, j \in 1 .. k : i < j => KeyBelow(page.items[j], page.items[i])
      /\ \A i \in 1 .. k : Ahead(cursor, page.items[i])
      /\ LedgerCursorOk(req, page.next)
      /\ page.next # NoCursor =>
            /\ \A i \in 1 .. k : ~KeyBelow(page.items[i], page.next.at)
            /\ cursor # NoCursor => ~KeyBelow(cursor.at, page.next.at)
            /\ \A z \in K : LedgerHit(req, z) /\ Ahead(cursor, z) /\ ~KeyBelow(z, page.next.at)
                  => Holds(page.items, z)
      /\ ~page.truncated =>
            \A z \in K : LedgerHit(req, z) /\ Ahead(cursor, z) => Holds(page.items, z)
  BY DEF LedgerPageOk
<1>3. /\ IsPage(page) /\ (page.next = NoCursor => ~page.truncated)
      /\ DOMAIN page.item_cursors = 1 .. k
      /\ \A i \in 1 .. k :
            page.item_cursors[i] = TimeCursor(req.view, LedgerContext(req), page.items[i])
  BY DEF LedgerCursors
<1> HIDE DEF K
<1>4. k \in Nat /\ \A i \in 1 .. k : page.items[i] \in K /\ page.items[i] \in Nat \X Nat
  BY <1>1, <1>2
<1>5. PICK n \in 0 .. k : PackedTo(page, cursor, n, packed)
  BY <1>2, <1>3, PackKeepsTheFirst
<1> HIDE DEF k
<1>6. /\ packed.items = SubSeq(page.items, 1, n)
      /\ n = k => packed.next = page.next
      /\ n < k => packed.truncated
                  /\ packed.next = IF n = 0 THEN cursor
                                   ELSE IF n \in DOMAIN page.item_cursors
                                   THEN page.item_cursors[n] ELSE NoCursor
      /\ ~packed.truncated => ~page.truncated /\ n = k
  BY <1>5, Zenon DEF PackedTo, k
<1>7. /\ packed.items \in Seq(K) /\ Len(packed.items) = n
      /\ \A i \in 1 .. n : packed.items[i] = page.items[i] /\ i \in 1 .. k
  BY <1>2, <1>4, <1>6 DEF k
<1>8. \A i, j \in 1 .. n : i < j => KeyBelow(packed.items[j], packed.items[i])
  BY <1>2, <1>7
<1>9. \A i \in 1 .. n : Ahead(cursor, packed.items[i])
  BY <1>2, <1>7
<1>10. n = k => \A z : Holds(page.items, z) => Holds(packed.items, z)
  BY <1>7 DEF Holds, k
<1>11. ~packed.truncated =>
          \A z \in K : LedgerHit(req, z) /\ Ahead(cursor, z) => Holds(packed.items, z)
  BY <1>2, <1>6, <1>10
<1>12. ASSUME n \in 1 .. k, NEW z \in K, LedgerHit(req, z), Ahead(cursor, z),
              ~KeyBelow(z, page.items[n])
       PROVE  Holds(packed.items, z)
  <2>1. PICK q \in Nat \X Nat : q = page.items[n]
    BY <1>4, <1>12
  <2>2. z \in Nat \X Nat
    BY <1>1
  <2>3. Holds(page.items, z)
    <3>1. CASE page.next = NoCursor
      BY <1>2, <1>3, <1>12, <3>1
    <3>2. CASE page.next # NoCursor
      <4>1. PICK u \in Nat \X Nat : u = page.next.at
        BY <1>2, <3>2 DEF LedgerCursorOk
      <4>2. KeyBelow(z, u) /\ ~KeyBelow(q, u) => KeyBelow(z, q)
        BY <2>2, KeysAreOrdered
      <4>3. ~KeyBelow(q, u)
        BY <1>2, <1>12, <2>1, <3>2, <4>1
      <4>4. ~KeyBelow(z, page.next.at)
        BY <1>12, <2>1, <4>1, <4>2, <4>3
      <4> QED
        BY <1>2, <1>12, <3>2, <4>4
    <3> QED
      BY <3>1, <3>2
  <2>4. PICK i \in 1 .. k : page.items[i] = z
    BY <2>3 DEF Holds, k
  <2>5. ~(n < i)
    BY <1>2, <1>12, <2>4
  <2>6. i \in 1 .. n
    BY <1>4, <1>12, <2>5
  <2> QED
    BY <1>7, <2>4, <2>6 DEF Holds
<1>13. LedgerCursorOk(req, packed.next)
  <2>1. CASE n = k
    BY <1>2, <1>6, <2>1
  <2>2. CASE n # k /\ n = 0
    BY <1>4, <1>6, <2>2
  <2>3. CASE n # k /\ n # 0
    <3>1. n \in 1 .. k /\ n < k
      BY <1>4, <2>3
    <3>2. packed.next = TimeCursor(req.view, LedgerContext(req), page.items[n])
      BY <1>3, <1>6, <2>3, <3>1
    <3> QED
      BY <1>4, <3>1, <3>2 DEF LedgerCursorOk, TimeCursor
  <2> QED
    BY <2>1, <2>2, <2>3
<1>14. ASSUME packed.next # NoCursor
       PROVE  /\ \A i \in 1 .. n : ~KeyBelow(packed.items[i], packed.next.at)
              /\ cursor # NoCursor => ~KeyBelow(cursor.at, packed.next.at)
              /\ \A z \in K : LedgerHit(req, z) /\ Ahead(cursor, z) /\ ~KeyBelow(z, packed.next.at)
                    => Holds(packed.items, z)
  <2>1. CASE n = k
    BY <1>2, <1>6, <1>7, <1>10, <1>14, <2>1
  <2>2. CASE n # k /\ n = 0
    <3>1. packed.next = cursor
      BY <1>4, <1>6, <2>2
    <3>2. PICK u \in Nat \X Nat : u = cursor.at
      BY <1>14, <3>1 DEF LedgerCursorOk
    <3>3. ~KeyBelow(u, u)
      BY KeysAreOrdered
    <3> QED
      BY <1>14, <2>2, <3>1, <3>2, <3>3 DEF Ahead
  <2>3. CASE n # k /\ n # 0
    <3>1. n \in 1 .. k /\ n < k /\ n \in 1 .. n
      BY <1>4, <2>3
    <3>2. packed.next = TimeCursor(req.view, LedgerContext(req), page.items[n])
      BY <1>3, <1>6, <2>3, <3>1
    <3>3. PICK q \in Nat \X Nat : q = page.items[n]
      BY <1>4, <3>1
    <3>4. packed.next.at = q
      BY <3>2, <3>3 DEF TimeCursor
    <3>5. \A i \in 1 .. n : ~KeyBelow(packed.items[i], q)
      <4>1. TAKE i \in 1 .. n
      <4>2. PICK p \in Nat \X Nat : p = packed.items[i]
        BY <1>4, <1>7
      <4>3. p = q \/ KeyBelow(q, p)
        <5>1. i = n \/ i < n
          BY <3>1
        <5> QED
          BY <1>2, <1>7, <3>1, <3>3, <4>2, <5>1
      <4>4. /\ ~KeyBelow(q, q) /\ ~KeyBelow(p, p)
            /\ KeyBelow(p, q) /\ KeyBelow(q, p) => KeyBelow(p, p)
        BY KeysAreOrdered
      <4> QED
        BY <4>2, <4>3, <4>4
    <3>6. cursor # NoCursor => ~KeyBelow(cursor.at, q)
      <4>1. SUFFICES ASSUME cursor # NoCursor PROVE ~KeyBelow(cursor.at, q)
        OBVIOUS
      <4>2. PICK u \in Nat \X Nat : u = cursor.at
        BY <4>1 DEF LedgerCursorOk
      <4>3. KeyBelow(q, u)
        BY <1>2, <3>1, <3>3, <4>1, <4>2 DEF Ahead
      <4>4. (KeyBelow(u, q) /\ KeyBelow(q, u) => KeyBelow(u, u)) /\ ~KeyBelow(u, u)
        BY KeysAreOrdered
      <4> QED
        BY <4>2, <4>3, <4>4
    <3> QED
      BY <1>12, <3>1, <3>3, <3>4, <3>5, <3>6
  <2> QED
    BY <2>1, <2>2, <2>3
<1> QED
  BY <1>7, <1>8, <1>9, <1>11, <1>13, <1>14 DEF LedgerPageOk, K

\* A response about the ledger goes on from the cursor it was asked with.
LEMMA LedgerResponse ==
    ASSUME IsLedger(ledger), NEW req, req.view \in LedgerViews, NEW cursor,
           LedgerCursorOk(req, cursor), NEW limit \in Nat, NEW requested,
           NEW answer, answer = BazelInspect(req, cursor, limit, requested), ~answer.error
    PROVE  LedgerPageOk(req, cursor, answer.page)
<1>0. Refused.error /\ \A page : Answer(page).page = page
  BY DEF Refused, Answer
<1>1. PICK n \in Int : n = Clamp(limit, 1, MaxItems)
  BY LimitsAssumption DEF Clamp
<1>2. PICK m \in Int : m = HandlerScan(n)
  BY <1>1, LimitsAssumption, InspectionAssumption DEF HandlerScan, Clamp
<1>3. ASSUME NEW items \in Int, NEW scan \in Int, NEW read,
             read = Inspect(req, cursor, items, scan), ~read.error
      PROVE  LedgerPageOk(req, cursor, read.page) /\ LedgerCursors(req, read.page)
  <2>1. read.page = ListInvocations(req, cursor, items, scan)
    BY <1>0, <1>3 DEF Inspect, ReadLedger
  <2> QED
    BY <2>1, LedgerPageReadsOn
<1>4. CASE req.view = "tasks"
  <2>1. answer = Inspect(req, cursor, MaxItems, MinScan) /\ MaxItems \in Int /\ MinScan \in Int
    BY <1>0, <1>4, LimitsAssumption, InspectionAssumption DEF BazelInspect
  <2> QED
    BY <1>3, <2>1
<1>5. CASE req.view # "tasks"
  <2>1. PICK read : read = Inspect(req, cursor, n, m)
    OBVIOUS
  <2>2. PICK budget : budget = Budget(requested)
    OBVIOUS
  <2>3. answer = Packed(req, read, budget, cursor)
    BY <1>0, <1>1, <1>2, <1>5, <2>1, <2>2 DEF BazelInspect
  <2>4. ~read.error /\ answer = Pack(req, read.page, budget, cursor)
    BY <1>0, <2>3 DEF Packed
  <2>5. LedgerPageOk(req, cursor, read.page) /\ LedgerCursors(req, read.page)
    BY <1>3, <2>1, <2>4
  <2>6. ~Pack(req, read.page, budget, cursor).error
    BY <2>4
  <2>7. LedgerPageOk(req, cursor, Pack(req, read.page, budget, cursor).page)
    BY <2>5, <2>6, PackedLedgerPage
  <2> QED
    BY <2>4, <2>7
<1> QED
  BY <1>4, <1>5

-----------------------------------------------------------------------------
(***************************************************************************)
(* The invariant.  The variables a part speaks of are bound by quantifiers *)
(* so that its operators have rigid arguments in both states of a step.    *)
(***************************************************************************)

\* The client is a record, and has read nothing while it has no cursor.
ClientOk ==
    /\ client = [req |-> client.req, cursor |-> client.cursor, items |-> client.items,
                 page |-> client.page, status |-> client.status, steady |-> client.steady,
                 changed |-> client.changed]
    /\ client.req \in Requests
    /\ client.status \in {"walking", "done", "refused", "confused"}
    /\ client.changed \in BOOLEAN
    /\ client.status = "walking" /\ client.cursor = NoCursor => client.items = <<>>
    /\ client.cursor # NoCursor => ValidParams(client.req)

\* Every cursor is one of the client's own walk, but for the coverage view.
Named(req, c) ==
    \/ c = NoCursor
    \/ /\ c.kind = WalkKind(req) /\ c # NoCursor
       /\ req.view = "coverage" \/ c.ctx = WalkContext(req)

CursorCounts(c) ==
    c.kind = "file" => c.total = c.ordinal /\ c.filtered <= c.total

\* The walk reads evidence that is there, and that has not changed behind its cursor.
Intact ==
    /\ client.status = "walking" /\ client.req.view \in PageViews /\ inv.state # "gone"
    /\ client.req.view \in LogViews => ~client.changed

Reads(req, c, items) == CursorOk(req, c) /\ items = ItemsUpto(req, From(c))

EvidenceIsRead ==
    \A r \in {client.req}, c \in {client.cursor}, i \in {client.items} :
        Intact => Reads(r, c, i)

\* The walk through the ledger has passed the key.
Past(key) ==
    \/ client.status = "walking" /\ client.cursor # NoCursor /\ ~KeyBelow(key, client.cursor.at)
    \/ client.status = "done" /\ ~client.page.truncated

\* The keys read so far come in descending order, none below the cursor.
Descends(items) ==
    /\ items \in Seq(Nat \X Nat)
    /\ \A i, j \in 1 .. Len(items) : i < j => KeyBelow(items[j], items[i])

Reaches(items, c) ==
    c # NoCursor => \A i \in 1 .. Len(items) : ~KeyBelow(items[i], c.at)

LedgerIsRead ==
    /\ Descends(client.items) /\ Reaches(client.items, client.cursor)
    /\ LedgerCursorOk(client.req, client.cursor)
    /\ \A r \in {client.req} : \A key \in client.steady :
          LedgerHit(r, key) /\ key \in LedgerSet(r) /\ Past(key) => Holds(client.items, key)

WalkInvariant ==
    /\ inv \in Evidence /\ IsLedger(ledger) /\ client.steady \subseteq DOMAIN ledger
    /\ ClientOk
    /\ Named(client.req, client.cursor)
    /\ CursorCounts(client.cursor)
    /\ CountHolds
    /\ EvidenceIsRead
    /\ client.req.view \in LedgerViews => LedgerIsRead
    /\ CursorStaysInItsWalk

-----------------------------------------------------------------------------
(***************************************************************************)
(* What a step leaves of the evidence behind a cursor.                     *)
(***************************************************************************)

\* The evidence of an invocation that does not change.
LEMMA HitsStay ==
    ASSUME inv' = inv, NEW r
    PROVE  ViewHits(r)' = ViewHits(r) /\ RowsOf(0)' = RowsOf(0)
  BY DEF ViewHits, RowHits, RowsOf, EvidenceHits, LogSource, LogRecords, Retained,
         ConsoleRead, ConsoleTail, TestLogRecords, UnavailableReasons, ReadTests, RecordHits, Records, Details

LEMMA EvidenceStays ==
    ASSUME inv' = inv, NEW r, NEW c, NEW i
    PROVE  Reads(r, c, i)' <=> Reads(r, c, i)
<1>1. ViewHits(r)' = ViewHits(r) /\ RowsOf(0)' = RowsOf(0)
  BY HitsStay
<1>2. CursorOk(r, c)' <=> CursorOk(r, c)
  BY <1>1 DEF CursorOk, RowOk, WalkContext, LedgerContext
<1>3. \A n : ItemsUpto(r, n)' = ItemsUpto(r, n)
  BY <1>1 DEF ItemsUpto, Shown
<1> QED
  BY <1>2, <1>3 DEF Reads

\* Finishing a query leaves its rows alone.
LEMMA RowsOutliveFinish ==
    ASSUME inv'.stdout = inv.stdout, NEW r, r.view = "query_results", NEW c, NEW i
    PROVE  Reads(r, c, i)' <=> Reads(r, c, i)
<1>1. RowsOf(0)' = RowsOf(0)
  BY DEF RowsOf
<1>2. ViewHits(r)' = ViewHits(r)
  BY <1>1 DEF ViewHits, RowHits
<1>3. CursorOk(r, c)' <=> CursorOk(r, c)
  BY <1>1, <1>2 DEF CursorOk, RowOk, WalkContext, LedgerContext
<1>4. \A n : ItemsUpto(r, n)' = ItemsUpto(r, n)
  BY <1>1, <1>2 DEF ItemsUpto, Shown
<1> QED
  BY <1>3, <1>4 DEF Reads

\* Nothing is read before the first page.
LEMMA NothingIsRead ==
    ASSUME NEW r, NEW i
    PROVE  Reads(r, NoCursor, i) <=> i = <<>>
<1>1. \A h : HitsIn(h, 1, 0) = {}
  BY DEF HitsIn
<1>2. Cardinality({}) = 0
  BY FS_EmptySet
<1>3. InOrder({}) = <<>>
  BY <1>2 DEF InOrder
<1>4. ItemsUpto(r, 0) = <<>>
  <2>1. HitsIn(ViewHits(r), 1, 0) = {}
    BY <1>1
  <2> QED
    BY <1>3, <2>1 DEF ItemsUpto
<1> QED
  BY <1>4 DEF Reads, CursorOk, From

LEMMA NothingIsReadNext ==
    ASSUME NEW r, NEW i
    PROVE  Reads(r, NoCursor, i)' <=> i = <<>>
<1>1. \A h : HitsIn(h, 1, 0) = {}
  BY DEF HitsIn
<1>2. Cardinality({}) = 0
  BY FS_EmptySet
<1>3. InOrder({}) = <<>>
  BY <1>2 DEF InOrder
<1>4. ItemsUpto(r, 0)' = <<>>
  <2>1. HitsIn(ViewHits(r), 1, 0)' = {}
    BY <1>1
  <2> QED
    BY <1>3, <2>1 DEF ItemsUpto
<1> QED
  BY <1>4 DEF Reads, CursorOk, From

\* A byte that Bazel adds to the output leaves the rows behind the cursor as they are.
LEMMA RowsOutliveWrite ==
    ASSUME inv.stdout \in Seq(Bytes), NEW byte \in Bytes,
           inv'.stdout = Append(inv.stdout, byte),
           NEW r, r.view = "query_results", NEW c, c # NoCursor, NEW i, Reads(r, c, i)
    PROVE  Reads(r, c, i)'
<1>1. PICK bytes \in Seq(Bytes) : bytes = inv.stdout
  OBVIOUS
<1>2. PICK more \in Seq(Bytes) : more = Append(bytes, byte)
  <2>1. Append(bytes, byte) \in Seq(Bytes)
    BY AppendedSeq
  <2> QED
    BY <2>1
<1>3. inv'.stdout = more /\ Len(more) = Len(bytes) + 1 /\ Len(bytes) \in Nat
      /\ \A j \in 1 .. Len(bytes) : more[j] = bytes[j]
  BY <1>1, <1>2
<1>4. PICK S : S = LineStarts(bytes, 0)
  OBVIOUS
<1>5. PICK U : U = LineStarts(more, 0)
  OBVIOUS
<1>6. PICK z \in Nat : z = 0
  OBVIOUS
<1>7. Cardinality(S) \in Nat /\ Cardinality(U) \in Nat
  BY <1>4, <1>5, <1>6, StartsAreFinite
<1>8. /\ RowsOf(0) = [j \in 1 .. Cardinality(S) |-> Row(bytes, InOrder(S)[j])]
      /\ Len(RowsOf(0)) = Cardinality(S)
  BY <1>1, <1>4, <1>6, RowsAreLines
<1>9. RowsOf(0)' = [j \in 1 .. Cardinality(U) |-> Row(more, InOrder(U)[j])]
  <2>1. DOMAIN InOrder(U) = 1 .. Cardinality(U)
    BY DEF InOrder
  <2>2. RowsFrom(more, 0) = RowsAt(more, InOrder(U))
    BY <1>5 DEF RowsFrom
  <2>3. RowsAt(more, InOrder(U)) =
          [j \in 1 .. Cardinality(U) |->
             [end   |-> LineEnds(more, InOrder(U)[j]),
              value |-> LineValue(more, InOrder(U)[j], LineEnds(more, InOrder(U)[j]))]]
    BY <2>1 DEF RowsAt
  <2>4. PICK rows : rows = RowsFrom(more, 0)
    OBVIOUS
  <2>5. RowsOf(0)' = [j \in DOMAIN rows |-> [rows[j] EXCEPT !.value = Redact(@)]]
    <3>1. RowsOf(0)' = LET rs == RowsFrom(inv'.stdout, 0)
                       IN [j \in DOMAIN rs |-> [rs[j] EXCEPT !.value = Redact(@)]]
      BY Zenon DEF RowsOf
    <3>2. RowsFrom(inv'.stdout, 0) = rows
      BY <1>3, <2>4, Zenon
    <3> QED
      BY <3>1, <3>2, Zenon
  <2>6. DOMAIN rows = 1 .. Cardinality(U)
        /\ \A j \in 1 .. Cardinality(U) :
              [rows[j] EXCEPT !.value = Redact(@)] = Row(more, InOrder(U)[j])
    <3>1. rows = [j \in 1 .. Cardinality(U) |->
                    [end   |-> LineEnds(more, InOrder(U)[j]),
                     value |-> LineValue(more, InOrder(U)[j], LineEnds(more, InOrder(U)[j]))]]
      BY <2>2, <2>3, <2>4, Zenon
    <3>2. \A j \in 1 .. Cardinality(U) :
             rows[j] = [end   |-> LineEnds(more, InOrder(U)[j]),
                        value |-> LineValue(more, InOrder(U)[j], LineEnds(more, InOrder(U)[j]))]
      BY <3>1
    <3>3. \A e, v : [[end |-> e, value |-> v] EXCEPT !.value = Redact(@)]
                      = [end |-> e, value |-> Redact(v)]
      OBVIOUS
    <3>4. DOMAIN rows = 1 .. Cardinality(U)
      BY <3>1
    <3> QED
      BY <3>2, <3>3, <3>4 DEF Row
  <2> QED
    BY <2>5, <2>6
<1>10. PICK n : n = c.ordinal
  OBVIOUS
<1>11. /\ c.kind = "file" /\ c.ctx = WalkContext(r) /\ Ordinal(c) = n
       /\ n \in 1 .. Cardinality(S) /\ ViewHits(r) = RowHits(r, RowsOf(0))
       /\ c.at = RowsOf(0)[n].end /\ c.at \in 1 .. Len(bytes) /\ bytes[c.at] = Newline
       /\ c.total = n /\ c.filtered = Cardinality(HitsIn(ViewHits(r), 1, n))
       /\ i = ItemsUpto(r, n)
  <2>1. c.kind = "file"
    BY DEF Reads, CursorOk, WalkKind, RecordViews, LogViews
  <2>2. Len(ViewHits(r)) = Cardinality(S) /\ ViewHits(r) = RowHits(r, RowsOf(0))
    BY <1>8, RowsHaveHits
  <2> QED
    BY <1>1, <1>10, <2>1, <2>2 DEF Reads, CursorOk, RowOk, Ordinal, From
<1>12. Cardinality(S) <= Cardinality(U) /\ \A j \in 1 .. Cardinality(S) : InOrder(U)[j] = InOrder(S)[j]
  <2>1. Len(bytes) # 0
    BY <1>3, <1>11
  <2> QED
    BY <1>2, <1>4, <1>5, <2>1, StartsStay
<1>13. \A j \in 1 .. n : Row(more, InOrder(U)[j]) = Row(bytes, InOrder(S)[j])
  <2>1. TAKE j \in 1 .. n
  <2>2. j \in 1 .. Cardinality(S) /\ (j < n => j < Cardinality(S))
    BY <1>7, <1>11
  <2>3. PICK x : x = InOrder(S)[j]
    OBVIOUS
  <2>4. /\ RowsOf(0)[j].end = LineEnds(bytes, x) /\ x \in 0 .. Len(bytes) - 1
        /\ j < Cardinality(S) => bytes[RowsOf(0)[j].end] = Newline
    BY <1>1, <1>4, <1>8, <2>2, <2>3, RowsEnd
  <2>5. bytes[LineEnds(bytes, x)] = Newline
    <3>1. CASE j = n
      BY <1>11, <2>4, <3>1
    <3>2. CASE j # n
      BY <1>11, <2>2, <2>4, <3>2
    <3> QED
      BY <3>1, <3>2
  <2>6. Row(more, x) = Row(bytes, x)
    BY <1>2, <2>4, <2>5, RowStays
  <2> QED
    BY <1>12, <2>2, <2>3, <2>6
<1>14. \A j \in 1 .. n : j \in 1 .. Cardinality(S) /\ j \in 1 .. Cardinality(U)
  BY <1>7, <1>11, <1>12
<1>15. \A j \in 1 .. n : RowsOf(0)'[j] = RowsOf(0)[j]
  BY <1>8, <1>9, <1>13, <1>14
<1>16. PICK now : now = ViewHits(r)
  OBVIOUS
<1>17. PICK then : then = ViewHits(r)'
  OBVIOUS
<1>18. then = [j \in 1 .. Cardinality(U) |-> RowMatches(r.filter, RowsOf(0)'[j].value)]
  <2>1. DOMAIN RowsOf(0)' = 1 .. Cardinality(U)
    BY <1>9
  <2> QED
    BY <1>17, <2>1 DEF ViewHits, RowHits
<1>19. now = [j \in 1 .. Cardinality(S) |-> RowMatches(r.filter, RowsOf(0)[j].value)]
  <2>1. DOMAIN RowsOf(0) = 1 .. Cardinality(S)
    BY <1>8
  <2> QED
    BY <1>11, <1>16, <2>1 DEF RowHits
<1>20. \A j \in 1 .. n : then[j] = now[j]
  BY <1>14, <1>15, <1>18, <1>19
<1>21. Len(then) = Cardinality(U)
  <2>1. PICK W : W = {then[j] : j \in 1 .. Cardinality(U)}
    OBVIOUS
  <2>2. then \in [1 .. Cardinality(U) -> W]
    BY <1>18, <2>1
  <2> QED
    BY <1>7, <2>2, ListIsSeq
<1>22. PICK T : T = HitsIn(now, 1, n)
  OBVIOUS
<1>23. HitsIn(then, 1, n) = T
  BY <1>20, <1>22 DEF HitsIn
<1>24. CursorOk(r, c)'
  <2>1. Ordinal(c) \in 1 .. Len(then)
    BY <1>7, <1>11, <1>12, <1>21
  <2>2. c.at = RowsOf(0)'[c.ordinal].end
    <3>1. n \in 1 .. n
      BY <1>7, <1>11
    <3> QED
      BY <1>10, <1>11, <1>15, <3>1
  <2>3. c.at \in 1 .. Len(more) /\ more[c.at] = Newline
    BY <1>3, <1>11
  <2>4. c.filtered = Cardinality(HitsIn(then, 1, c.ordinal))
    BY <1>10, <1>11, <1>16, <1>22, <1>23
  <2>5. RowOk(r, c)'
    BY <1>3, <1>10, <1>11, <1>17, <2>2, <2>3, <2>4 DEF RowOk
  <2>6. c.kind = WalkKind(r) /\ c.ctx = WalkContext(r)'
    BY <1>11 DEF WalkKind, WalkContext, RecordViews, LogViews, LedgerContext
  <2> QED
    BY <1>17, <2>1, <2>5, <2>6 DEF CursorOk
<1>25. ItemsUpto(r, n)' = ItemsUpto(r, n)
  <2>1. T \subseteq 1 .. n /\ T \subseteq Int /\ IsFiniteSet(T)
    <3>1. PICK o \in Int : o = 1
      OBVIOUS
    <3>2. n \in Int
      BY <1>7, <1>11
    <3> QED
      BY <1>22, <3>1, <3>2, HitsAreFinite
  <2>2. DOMAIN InOrder(T) = 1 .. Cardinality(T)
        /\ \A j \in 1 .. Cardinality(T) : InOrder(T)[j] \in 1 .. n
    BY <2>1, InOrderLists
  <2>3. \A j \in 1 .. n : Shown(r, j)' = Shown(r, j)
    BY <1>15 DEF Shown
  <2>4. ItemsUpto(r, n) = [j \in 1 .. Cardinality(T) |-> Shown(r, InOrder(T)[j])]
    BY <1>16, <1>22, <2>2 DEF ItemsUpto
  <2>5. ItemsUpto(r, n)' = [j \in 1 .. Cardinality(T) |-> Shown(r, InOrder(T)[j])']
    BY <1>17, <1>23, <2>2 DEF ItemsUpto
  <2> QED
    BY <2>2, <2>3, <2>4, <2>5
<1>26. From(c) = n
  BY <1>11 DEF From
<1> QED
  BY <1>11, <1>24, <1>25, <1>26 DEF Reads

-----------------------------------------------------------------------------
(***************************************************************************)
(* Cursors name their walk.                                                *)
(***************************************************************************)

\* No cursor that a page makes is the absent one.
LEMMA CursorsAreMade ==
    ASSUME NEW ctx, NEW x, NEW kind
    PROVE  /\ OrdinalCursor(ctx, x) # NoCursor /\ OrdinalCursor(ctx, x).kind = "ordinal"
           /\ OrdinalCursor(ctx, x).ctx = ctx
           /\ TimeCursor(kind, ctx, x) # NoCursor /\ TimeCursor(kind, ctx, x).kind = kind
           /\ TimeCursor(kind, ctx, x).ctx = ctx
<1>1. DOMAIN NoCursor = {"kind"}
  BY DEF NoCursor
<1>2. DOMAIN OrdinalCursor(ctx, x) = {"kind", "ctx", "at"}
      /\ DOMAIN TimeCursor(kind, ctx, x) = {"kind", "ctx", "at"}
  BY DEF OrdinalCursor, TimeCursor
<1>3. OrdinalCursor(ctx, x) # NoCursor
  BY <1>1, <1>2
<1>4. TimeCursor(kind, ctx, x) # NoCursor
  BY <1>1, <1>2
<1> QED
  BY <1>3, <1>4 DEF OrdinalCursor, TimeCursor

LEMMA LogCursorsAreMade ==
    ASSUME NEW view, NEW id, NEW filter, NEW x
    PROVE  /\ LogCursor(view, id, filter, x) # NoCursor
           /\ LogCursor(view, id, filter, x).kind = "log"
           /\ LogCursor(view, id, filter, x).ctx = <<view, id, filter>>
<1>1. DOMAIN NoCursor = {"kind"}
  BY DEF NoCursor
<1>2. DOMAIN LogCursor(view, id, filter, x) = {"kind", "ctx", "at"}
  BY DEF LogCursor
<1>3. LogCursor(view, id, filter, x) # NoCursor
  BY <1>1, <1>2
<1> QED
  BY <1>3 DEF LogCursor

LEMMA RowCursorsAreMade ==
    ASSUME NEW ctx, NEW start, NEW rows, NEW hit, NEW x
    PROVE  /\ RowCursor(ctx, start, rows, hit, x) # NoCursor
           /\ RowCursor(ctx, start, rows, hit, x).kind = "file"
           /\ RowCursor(ctx, start, rows, hit, x).ctx = ctx
<1>1. DOMAIN NoCursor = {"kind"}
  BY DEF NoCursor
<1>2. DOMAIN RowCursor(ctx, start, rows, hit, x) =
          {"kind", "ctx", "at", "ordinal", "total", "filtered"}
  BY DEF RowCursor, FileCursor
<1>3. RowCursor(ctx, start, rows, hit, x) # NoCursor
  BY <1>1, <1>2
<1> QED
  BY <1>3 DEF RowCursor, FileCursor

\* A page all of whose cursors are of its walk.
PageNames(req, page) ==
    /\ page = Page(page.items, page.item_cursors, page.total, page.filtered, page.next,
                   page.truncated)
    /\ Named(req, page.next)
    /\ \A n \in DOMAIN page.item_cursors : Named(req, page.item_cursors[n])

LEMMA PackNames ==
    ASSUME NEW req, NEW page, PageNames(req, page), NEW start, Named(req, start),
           NEW budget, ~Pack(req, page, budget, start).error
    PROVE  Named(req, Pack(req, page, budget, start).page.next)
<1> SUFFICES ASSUME NEW answer, answer = Pack(req, page, budget, start)
             PROVE  Named(req, answer.page.next)
  BY Zenon
<1>1. CASE answer = Answer(page)
  BY <1>1 DEF Answer, PageNames
<1>2. CASE answer # Answer(page)
  <2> DEFINE n == Max(Kept(req, page, budget, start))
             cut == TruncateItems(page, n, start)
  <2>1. answer = Answer([cut EXCEPT !.truncated = TRUE])
    BY <1>2 DEF Pack, Refused, Answer
  <2> HIDE DEF n
  <2>2. cut = page \/ cut = [page EXCEPT !.items = SubSeq(page.items, 1, n),
                                         !.item_cursors = Upto(page.item_cursors, n),
                                         !.truncated = TRUE,
                                         !.next = IF n = 0 THEN start ELSE ItemCursor(page, n)]
    BY DEF TruncateItems
  <2>3. Named(req, ItemCursor(page, n))
    BY DEF ItemCursor, PageNames, Named
  <2>4. cut.next \in {page.next, start, ItemCursor(page, n)} /\ DOMAIN cut = DOMAIN page
    <3>1. "next" \in DOMAIN page /\ "truncated" \in DOMAIN page
      BY DEF PageNames, Page
    <3>2. CASE cut = page
      BY <3>2
    <3>3. CASE cut # page
      <4> HIDE DEF cut
      <4>1. PICK nx : nx = IF n = 0 THEN start ELSE ItemCursor(page, n)
        OBVIOUS
      <4>2. cut = [page EXCEPT !.items = SubSeq(page.items, 1, n),
                               !.item_cursors = Upto(page.item_cursors, n),
                               !.truncated = TRUE, !.next = nx]
        BY <2>2, <3>3, <4>1
      <4>3. cut.next = nx /\ DOMAIN cut = DOMAIN page
        BY <3>1, <4>2
      <4> QED
        BY <4>1, <4>3
    <3> QED
      BY <3>2, <3>3
  <2> HIDE DEF cut
  <2>5. answer.page = [cut EXCEPT !.truncated = TRUE]
    BY <2>1 DEF Answer
  <2>6. "next" \in DOMAIN cut
    BY <2>4 DEF PageNames, Page
  <2>7. answer.page.next = cut.next
    BY <2>5, <2>6
  <2> QED
    BY <2>3, <2>4, <2>7 DEF PageNames
<1> QED
  BY <1>1, <1>2

\* The pages of each kind: the cursors are of the context they are made for.
MadeFor(kind, ctx, page) ==
    /\ page = Page(page.items, page.item_cursors, page.total, page.filtered, page.next,
                   page.truncated)
    /\ page.next = NoCursor \/ (page.next # NoCursor /\ page.next.kind = kind /\ page.next.ctx = ctx)
    /\ \A n \in DOMAIN page.item_cursors :
          /\ page.item_cursors[n] # NoCursor
          /\ page.item_cursors[n].kind = kind /\ page.item_cursors[n].ctx = ctx

LEMMA RecordPageMade ==
    ASSUME NEW ctx, NEW filter, NEW hit, NEW cursor, NEW items, NEW scan
    PROVE  /\ MadeFor("ordinal", ctx, PageRecords(ctx, filter, hit, cursor, items, scan))
           /\ DOMAIN PageRecords(ctx, filter, hit, cursor, items, scan).item_cursors =
              DOMAIN PageRecords(ctx, filter, hit, cursor, items, scan).items
<1> SUFFICES ASSUME NEW page, page = PageRecords(ctx, filter, hit, cursor, items, scan)
             PROVE  MadeFor("ordinal", ctx, page) /\ DOMAIN page.item_cursors = DOMAIN page.items
  BY Zenon
<1>1. PICK s : s = Scan(hit, After(cursor), ItemLimit(items), ScanLimit(items, scan))
  OBVIOUS
<1>2. page = RecordPage(ctx, filter, hit, After(cursor), s)
  BY <1>1 DEF PageRecords
<1>3. /\ page.items = s.ordinals
      /\ page.item_cursors = [i \in DOMAIN s.ordinals |-> OrdinalCursor(ctx, s.ordinals[i])]
      /\ page.next = IF s.truncated THEN OrdinalCursor(ctx, s.last) ELSE NoCursor
      /\ page = Page(page.items, page.item_cursors, page.total, page.filtered, page.next,
                     page.truncated)
  BY <1>2 DEF RecordPage, Page
<1> QED
  BY <1>3, CursorsAreMade DEF MadeFor

LEMMA LedgerPageMade ==
    ASSUME NEW kind, NEW ctx, NEW keys, NEW hit, NEW cursor, NEW items, NEW scan
    PROVE  MadeFor(kind, ctx, PageLedger(kind, ctx, keys, hit, cursor, items, scan))
<1> SUFFICES ASSUME NEW page, page = PageLedger(kind, ctx, keys, hit, cursor, items, scan)
             PROVE  MadeFor(kind, ctx, page)
  BY Zenon
<1>1. PICK s : s = Scan(hit, KeysBefore(keys, cursor), ItemLimit(items), ScanLimit(items, scan))
  OBVIOUS
<1>2. page = LedgerPage(kind, ctx, keys, s)
  BY <1>1 DEF PageLedger
<1>3. /\ page.item_cursors = [i \in DOMAIN s.ordinals |-> TimeCursor(kind, ctx, keys[s.ordinals[i]])]
      /\ page.next = IF s.truncated THEN TimeCursor(kind, ctx, keys[s.last]) ELSE NoCursor
      /\ page = Page(page.items, page.item_cursors, page.total, page.filtered, page.next,
                     page.truncated)
  BY <1>2 DEF LedgerPage, Page
<1> QED
  BY <1>3, CursorsAreMade DEF MadeFor

LEMMA LogPageMade ==
    ASSUME NEW view, NEW id, NEW filter, NEW hit, NEW cursor, NEW items, NEW scan
    PROVE  MadeFor("log", <<view, id, filter>>,
                   PageEvidence(view, id, filter, hit, cursor, items, scan))
<1> SUFFICES ASSUME NEW page, page = PageEvidence(view, id, filter, hit, cursor, items, scan)
             PROVE  MadeFor("log", <<view, id, filter>>, page)
  BY Zenon
<1>1. PICK s : s = Scan(hit, After(cursor), ItemLimit(items), ScanLimit(items, scan))
  OBVIOUS
<1>2. page = EvidencePage(view, id, filter, s)
  BY <1>1 DEF PageEvidence
<1>3. /\ page.item_cursors = [i \in DOMAIN s.ordinals |-> LogCursor(view, id, filter, s.ordinals[i])]
      /\ page.next = IF s.truncated THEN LogCursor(view, id, filter, s.last) ELSE NoCursor
      /\ page = Page(page.items, page.item_cursors, page.total, page.filtered, page.next,
                     page.truncated)
  BY <1>2 DEF EvidencePage, Page
<1>4. PICK ctx : ctx = <<view, id, filter>>
  OBVIOUS
<1>5. MadeFor("log", ctx, page)
  BY <1>3, <1>4, LogCursorsAreMade DEF MadeFor
<1> QED
  BY <1>4, <1>5

LEMMA RowPageMade ==
    ASSUME NEW ctx, NEW filter, NEW rows, NEW hit, NEW start, NEW known, NEW items, NEW scan
    PROVE  MadeFor("file", ctx, PageRows(ctx, filter, rows, hit, start, known, items, scan))
<1> SUFFICES ASSUME NEW page, page = PageRows(ctx, filter, rows, hit, start, known, items, scan)
             PROVE  MadeFor("file", ctx, page)
  BY Zenon
<1>1. PICK s : s = FileScan(rows, hit, items, scan, filter, known)
  OBVIOUS
<1>2. PICK more : more = FileTruncated(rows, s, start, known, filter)
  OBVIOUS
<1>3. page = FilePage(ctx, filter, rows, hit, start, known, s, more)
  BY <1>1, <1>2 DEF PageRows, FilePageOf
<1>4. /\ page.item_cursors = [i \in DOMAIN s.shown |-> RowCursor(ctx, start, rows, hit, s.shown[i])]
      /\ page.next = IF more /\ s.last > 0 THEN RowCursor(ctx, start, rows, hit, s.last)
                     ELSE NoCursor
      /\ page = Page(page.items, page.item_cursors, page.total, page.filtered, page.next,
                     page.truncated)
  BY <1>3 DEF FilePage, Page
<1> QED
  BY <1>4, RowCursorsAreMade DEF MadeFor

LEMMA MadeForItsWalk ==
    ASSUME NEW req, NEW kind, kind = WalkKind(req), NEW ctx, ctx = WalkContext(req),
           NEW page, MadeFor(kind, ctx, page)
    PROVE  PageNames(req, page)
  BY DEF MadeFor, PageNames, Named

\* The coverage view's pages have cursors of ordinals, if not always its own.
LEMMA CoveragePageNames ==
    ASSUME inv \in Evidence, NEW req, req.view = "coverage", NEW cursor,
           NEW items \in Int, NEW scan \in Int,
           NEW page, page = PageOfRecords("coverage", req, cursor, items, scan),
           NEW others, others = PageOfRecords("artifacts", req, NoCursor, items, scan)
    PROVE  PageNames(req, CoveragePage(page, others))
<1>1. WalkKind(req) = "ordinal"
  BY DEF WalkKind, RecordViews
<1>2. PageNames(req, page)
  <2>1. PICK ctx : ctx = Context("coverage", req.id, req.filter)
    OBVIOUS
  <2>2. MadeFor("ordinal", ctx, page)
    BY <2>1, RecordPageMade DEF PageOfRecords
  <2> QED
    BY <1>1, <2>2 DEF MadeFor, PageNames, Named
<1>3. PICK ctx : ctx = Context("artifacts", req.id, req.filter)
  OBVIOUS
<1>4. MadeFor("ordinal", ctx, others) /\ DOMAIN others.item_cursors = DOMAIN others.items
  BY <1>3, RecordPageMade DEF PageOfRecords
<1>5. PICK k \in Nat : DOMAIN others.items = 1 .. k
  <2>1. PICK r : r = Request("artifacts", req.id, req.filter, req.ws)
    OBVIOUS
  <2>2. r.view = "artifacts" /\ r.id = req.id /\ r.filter = req.filter
    BY <2>1 DEF Request
  <2>3. others = PageOfRecords(r.view, r, NoCursor, items, scan)
    BY <2>2 DEF PageOfRecords, RecordHits
  <2>4. PICK c : c = NoCursor
    OBVIOUS
  <2>5. CursorOk(r, c) /\ r.view \in RecordViews /\ From(c) = 0 /\ r.view \in EvidenceViews
    BY <2>2, <2>4 DEF CursorOk, RecordViews, From, EvidenceViews, Views, LedgerViews, SingleViews
  <2>6. PICK b : ReadsOn(r, c, others, b)
    BY <2>3, <2>4, <2>5, RecordPageReadsOn
  <2>7. PICK T : T = HitsIn(ViewHits(r), From(c) + 1, b)
    OBVIOUS
  <2>8. b \in 0 .. Len(ViewHits(r)) /\ others.items = [i \in 1 .. Cardinality(T) |-> Shown(r, InOrder(T)[i])]
    BY <2>5, <2>6, <2>7 DEF ReadsOn
  <2>9. b \in Int
    BY <2>5, <2>8, HitsAreListed
  <2>10. PICK o \in Int : o = From(c) + 1
    BY <2>5
  <2>11. IsFiniteSet(T)
    BY <2>7, <2>9, <2>10, HitsAreFinite
  <2>12. Cardinality(T) \in Nat
    BY <2>11, FS_CardinalityType
  <2> QED
    BY <2>8, <2>12
<1>6. PageNames(req, UnavailableCoverage(others))
  <2> DEFINE S == {i \in DOMAIN others.items : inv.artifacts[others.items[i]].unavailable}
             answer == UnavailableCoverage(others)
  <2>1. /\ answer = Page(answer.items, answer.item_cursors, answer.total, answer.filtered,
                         answer.next, answer.truncated)
        /\ answer.next = others.next
        /\ answer.item_cursors = <<>> \/ answer.item_cursors = Chosen(others.item_cursors, S)
    <3>1. CASE S = {}
      <4>1. answer = Page(<<0>>, <<>>, 1, 1, others.next, others.truncated)
        BY <3>1 DEF UnavailableCoverage
      <4> QED
        BY <4>1 DEF Page
    <3>2. CASE S # {}
      <4>1. PICK u : u = Chosen([i \in DOMAIN others.items |-> -others.items[i]], S)
        OBVIOUS
      <4>2. PICK v : v = Chosen(others.item_cursors, S)
        OBVIOUS
      <4>3. answer = Page(u, v, Cardinality(S), Cardinality(S), others.next, others.truncated)
        BY <3>2, <4>1, <4>2 DEF UnavailableCoverage
      <4> HIDE DEF answer, S
      <4> QED
        BY <4>2, <4>3 DEF Page
    <3> QED
      BY <3>1, <3>2
  <2>2. S \subseteq 1 .. k
    BY <1>5
  <2> HIDE DEF S, answer
  <2>3. S \subseteq Int /\ IsFiniteSet(S)
    <3>1. IsFiniteSet(1 .. k) /\ S \subseteq Int
      BY <2>2, FS_Interval
    <3> QED
      BY <2>2, <3>1, FS_Subset
  <2>4. DOMAIN InOrder(S) = 1 .. Cardinality(S)
        /\ \A n \in 1 .. Cardinality(S) : InOrder(S)[n] \in 1 .. k
    BY <2>2, <2>3, InOrderLists
  <2>5. \A n \in DOMAIN Chosen(others.item_cursors, S) :
            Named(req, Chosen(others.item_cursors, S)[n])
    <3>1. \A m \in 1 .. k : Named(req, others.item_cursors[m])
      BY <1>1, <1>4, <1>5 DEF MadeFor, Named
    <3> QED
      BY <2>4, <3>1 DEF Chosen
  <2>6. \A n \in DOMAIN answer.item_cursors : Named(req, answer.item_cursors[n])
    BY <2>1, <2>5
  <2>7. Named(req, answer.next)
    BY <1>1, <1>4, <2>1 DEF MadeFor, Named
  <2> QED
    BY <2>1, <2>6, <2>7 DEF PageNames, answer
<1> QED
  BY <1>2, <1>6 DEF CoveragePage

\* What a request without an error says of the cursor it was sent with, and its page of
\* the cursors it returns.
LEMMA InspectNames ==
    ASSUME inv \in Evidence, NEW req, req.view \in Views, NEW cursor,
           NEW items \in Int, NEW scan \in Int,
           NEW answer, answer = Inspect(req, cursor, items, scan), ~answer.error
    PROVE  /\ PageNames(req, answer.page)
           /\ req.view \notin SingleViews =>
                 DecodesFor(cursor, WalkKind(req), WalkContext(req))
<1>0. Refused.error /\ \A page : Answer(page).page = page
  BY DEF Refused, Answer
<1> USE <1>0
<1>1. CASE req.view \in LedgerViews
  <2>1. WalkKind(req) = req.view /\ WalkContext(req) = LedgerContext(req)
    BY <1>1 DEF WalkKind, WalkContext, LedgerViews, RecordViews, LogViews
  <2>2. answer = ReadLedger(req, cursor, items, scan)
    BY <1>1 DEF Inspect
  <2>3. PICK page : page = ListInvocations(req, cursor, items, scan)
    OBVIOUS
  <2>4. answer = Answer(page) /\ DecodesFor(cursor, req.view, LedgerContext(req))
    BY <2>2, <2>3 DEF ReadLedger
  <2>5. MadeFor(req.view, LedgerContext(req), page)
    BY <2>3, LedgerPageMade DEF ListInvocations, ListKeys
  <2> QED
    BY <2>1, <2>4, <2>5, MadeForItsWalk
<1>2. CASE req.view \notin LedgerViews
  <2>1. inv.state # "gone"
    BY <1>2 DEF Inspect
  <2>2. CASE req.view \in SingleViews
    <3>1. answer = ReadSingle(req)
      BY <1>2, <2>1, <2>2 DEF Inspect, SingleViews, RecordViews, LogViews
    <3>2. PICK u, v : answer = Answer(Page(u, <<>>, Unknown, Unknown, NoCursor, v))
      BY <3>1 DEF ReadSingle
    <3>3. PICK page : page = Page(u, <<>>, Unknown, Unknown, NoCursor, v)
      OBVIOUS
    <3>4. /\ page = Page(page.items, page.item_cursors, page.total, page.filtered, page.next,
                         page.truncated)
          /\ page.next = NoCursor /\ DOMAIN page.item_cursors = {}
      BY <3>3 DEF Page
    <3>5. PageNames(req, page)
      BY <3>4 DEF PageNames, Named
    <3> QED
      BY <2>2, <3>2, <3>3, <3>5
  <2>3. CASE req.view \in RecordViews
    <3>1. answer = ReadRecords(req, cursor, items, scan)
      BY <1>2, <2>1, <2>3 DEF Inspect, SingleViews, RecordViews, LogViews
    <3>2. PICK ctx : ctx = Context(req.view, req.id, req.filter)
      OBVIOUS
    <3>3. WalkKind(req) = "ordinal" /\ WalkContext(req) = ctx
      BY <2>3, <3>2 DEF WalkKind, WalkContext
    <3>4. DecodesFor(cursor, "ordinal", ctx)
      BY <3>1, <3>2 DEF ReadRecords
    <3>5. PageNames(req, answer.page)
      <4>1. PICK page : page = PageOfRecords(req.view, req, cursor, items, scan)
        OBVIOUS
      <4>2. CASE req.view = "coverage"
        <5>1. PICK others : others = PageOfRecords("artifacts", req, NoCursor, items, scan)
          OBVIOUS
        <5>2. answer = Answer(CoveragePage(page, others))
          BY <3>1, <3>2, <3>4, <4>1, <4>2, <5>1 DEF ReadRecords
        <5>3. PageNames(req, CoveragePage(page, others))
          BY <4>1, <4>2, <5>1, CoveragePageNames
        <5> QED
          BY <5>2, <5>3
      <4>3. CASE req.view # "coverage"
        <5>1. answer = Answer(page)
          BY <3>1, <3>2, <3>4, <4>1, <4>3 DEF ReadRecords
        <5>2. MadeFor("ordinal", ctx, page)
          BY <3>2, <4>1, RecordPageMade DEF PageOfRecords
        <5> QED
          BY <3>3, <5>1, <5>2, MadeForItsWalk
      <4> QED
        BY <4>2, <4>3
    <3> QED
      BY <3>3, <3>4, <3>5
  <2>4. CASE req.view = "query_results"
    <3>1. answer = ReadRows(req, cursor, items, scan)
      BY <1>2, <2>1, <2>4 DEF Inspect, SingleViews, RecordViews, LogViews
    <3>2. PICK ctx : ctx = Context("query_rows", req.id, req.filter)
      OBVIOUS
    <3>3. WalkKind(req) = "file" /\ WalkContext(req) = ctx
      BY <2>4, <3>2 DEF WalkKind, WalkContext, RecordViews, LogViews
    <3>4. DecodesFor(cursor, "file", ctx)
      BY <3>1, <3>2 DEF ReadRows
    <3>5. PICK page : page = PageRows(ctx, req.filter, RowsOf(RowStart(cursor).at),
                                      RowHits(req, RowsOf(RowStart(cursor).at)),
                                      RowStart(cursor), KnownTotal(req.filter),
                                      ItemLimit(items), ScanLimit(items, scan))
      OBVIOUS
    <3>6. answer = Answer(page)
      BY <3>1, <3>2, <3>4, <3>5 DEF ReadRows
    <3>7. MadeFor("file", ctx, page)
      BY <3>5, RowPageMade
    <3> QED
      BY <3>3, <3>4, <3>6, <3>7, MadeForItsWalk
  <2>5. CASE req.view \in LogViews
    <3>1. answer = ReadLog(req, cursor, items, scan)
      BY <1>2, <2>1, <2>5 DEF Inspect, SingleViews, RecordViews, LogViews
    <3>2. PICK ctx : ctx = <<req.view, req.id, req.filter>>
      OBVIOUS
    <3>3. WalkKind(req) = "log" /\ WalkContext(req) = ctx
      BY <2>5, <3>2 DEF WalkKind, WalkContext, RecordViews, LogViews
    <3>4. DecodesFor(cursor, "log", ctx)
      BY <3>1, <3>2 DEF ReadLog
    <3>5. PICK page : page = PageEvidence(req.view, req.id, req.filter,
                                          EvidenceHits(req, LogSource(req.view)),
                                          cursor, items, scan)
      OBVIOUS
    <3>6. answer = Answer(page)
      BY <3>1, <3>2, <3>4, <3>5 DEF ReadLog
    <3>7. MadeFor("log", ctx, page)
      BY <3>2, <3>5, LogPageMade
    <3> QED
      BY <3>3, <3>4, <3>6, <3>7, MadeForItsWalk
  <2> QED
    BY <1>2, <2>2, <2>3, <2>4, <2>5 DEF Views
<1> QED
  BY <1>1, <1>2

LEMMA ResponseNames ==
    ASSUME inv \in Evidence, NEW req, req.view \in Views, NEW cursor, Named(req, cursor),
           NEW limit \in Nat, NEW requested,
           NEW answer, answer = BazelInspect(req, cursor, limit, requested), ~answer.error
    PROVE  Named(req, answer.page.next) /\ ValidParams(req)
<1>0. Refused.error
  BY DEF Refused
<1>1. PICK n \in Int : n = Clamp(limit, 1, MaxItems)
  BY LimitsAssumption DEF Clamp
<1>2. PICK m \in Int : m = HandlerScan(n)
  BY <1>1, LimitsAssumption, InspectionAssumption DEF HandlerScan, Clamp
<1>3. ValidParams(req)
  BY <1>0 DEF BazelInspect
<1>4. CASE req.view = "tasks"
  <2>1. answer = Inspect(req, cursor, MaxItems, MinScan) /\ MaxItems \in Int /\ MinScan \in Int
    BY <1>3, <1>4, LimitsAssumption, InspectionAssumption DEF BazelInspect
  <2>2. PageNames(req, answer.page)
    BY <2>1, InspectNames
  <2> QED
    BY <1>3, <2>2 DEF PageNames
<1>5. CASE req.view # "tasks"
  <2>1. PICK read : read = Inspect(req, cursor, n, m)
    OBVIOUS
  <2>2. PICK budget : budget = Budget(requested)
    OBVIOUS
  <2>3. answer = Packed(req, read, budget, cursor)
    BY <1>1, <1>2, <1>3, <1>5, <2>1, <2>2 DEF BazelInspect
  <2>4. ~read.error /\ answer = Pack(req, read.page, budget, cursor)
    BY <1>0, <2>3 DEF Packed
  <2>5. PageNames(req, read.page)
    BY <2>1, <2>4, InspectNames
  <2>6. ~Pack(req, read.page, budget, cursor).error
    BY <2>4
  <2>7. Named(req, Pack(req, read.page, budget, cursor).page.next)
    BY <2>5, <2>6, PackNames
  <2> QED
    BY <1>3, <2>4, <2>7
<1> QED
  BY <1>4, <1>5

LEMMA ResponseDecodes ==
    ASSUME inv \in Evidence, NEW req, req.view \in Views \ SingleViews, NEW cursor,
           NEW limit \in Nat, NEW requested,
           ~BazelInspect(req, cursor, limit, requested).error
    PROVE  DecodesFor(cursor, WalkKind(req), WalkContext(req))
<1>0. Refused.error
  BY DEF Refused
<1>1. PICK n \in Int : n = Clamp(limit, 1, MaxItems)
  BY LimitsAssumption DEF Clamp
<1>2. PICK m \in Int : m = HandlerScan(n)
  BY <1>1, LimitsAssumption, InspectionAssumption DEF HandlerScan, Clamp
<1>3. PICK o \in Int : o = MaxItems
  BY LimitsAssumption
<1>4. PICK p \in Int : p = MinScan
  BY InspectionAssumption
<1>5. ~Inspect(req, cursor, o, p).error \/ ~Inspect(req, cursor, n, m).error
  BY <1>0, <1>1, <1>2, <1>3, <1>4 DEF BazelInspect, Packed
<1> QED
  BY <1>5, InspectNames

LEMMA RequestsAreKnown ==
    ASSUME NEW r \in Requests
    PROVE  /\ r.view \in Views
           /\ r.view = "tasks" => r.ws = "none" /\ r.filter = "none"
           /\ r = Request(r.view, r.id, r.filter, r.ws)
<1>1. ASSUME NEW v \in Views, NEW f \in FiltersOf(v),
             r = Request(v, IF v \in LedgerViews THEN "none" ELSE "a", f, "none")
      PROVE  /\ r.view \in Views /\ (r.view = "tasks" => r.ws = "none" /\ r.filter = "none")
             /\ r = Request(r.view, r.id, r.filter, r.ws)
  <2>1. r.view = v /\ r.filter = f /\ r.ws = "none" /\ r = Request(r.view, r.id, r.filter, r.ws)
    BY <1>1 DEF Request
  <2>2. v = "tasks" => f = "none"
    BY <1>1 DEF FiltersOf, LogViews, SingleViews
  <2> QED
    BY <2>1, <2>2
<1>2. ASSUME NEW v \in {"invocations", "metrics"}, NEW id, NEW f, NEW ws, r = Request(v, id, f, ws)
      PROVE  r.view \in Views /\ r.view # "tasks" /\ r = Request(r.view, r.id, r.filter, r.ws)
  BY <1>2 DEF Request, Views, LedgerViews, SingleViews
<1>3. \/ \E v \in Views : \E f \in FiltersOf(v) :
            r = Request(v, IF v \in LedgerViews THEN "none" ELSE "a", f, "none")
      \/ \E v \in {"invocations", "metrics"} : \E id, f, ws : r = Request(v, id, f, ws)
  <2> DEFINE Of(v) == {Request(v, IF v \in LedgerViews THEN "none" ELSE "a", f, "none") :
                          f \in FiltersOf(v)}
  <2>1. \/ r \in UNION {Of(v) : v \in Views}
        \/ r \in {Request("invocations", "none", f, "w1") : f \in FiltersOf("invocations")}
        \/ r \in {Request("invocations", "a", "none", "none"),
                  Request("metrics", "a", "none", "w1"), Request("metrics", "none", "none", "none")}
    <3>1. Requests = (UNION {Of(v) : v \in Views})
                       \cup {Request("invocations", "none", f, "w1") :
                                f \in FiltersOf("invocations")}
                       \cup {Request("invocations", "a", "none", "none"),
                             Request("metrics", "a", "none", "w1"),
                             Request("metrics", "none", "none", "none")}
      BY DEF Requests
    <3>2. r \in Requests
      OBVIOUS
    <3> QED
      BY <3>1, <3>2
  <2>2. CASE r \in UNION {Of(v) : v \in Views}
    <3>1. PICK v \in Views : r \in Of(v)
      BY <2>2
    <3> QED
      BY <3>1
  <2>3. CASE r \in {Request("invocations", "none", f, "w1") : f \in FiltersOf("invocations")}
    <3>1. PICK f : r = Request("invocations", "none", f, "w1")
      BY <2>3
    <3> QED
      BY <3>1
  <2>4. CASE r \in {Request("invocations", "a", "none", "none"),
                  Request("metrics", "a", "none", "w1"), Request("metrics", "none", "none", "none")}
    BY <2>4
  <2> QED
    BY <2>1, <2>2, <2>3, <2>4
<1> QED
  BY <1>1, <1>2, <1>3

\* So are the requests for the second invocation.
LEMMA OthersAreKnown ==
    ASSUME NEW r \in Requests \cup OfAnother
    PROVE  r.view \in Views /\ (r.view = "tasks" => r.ws = "none" /\ r.filter = "none")
<1>1. CASE r \in Requests
  BY <1>1, RequestsAreKnown
<1>2. CASE r \in OfAnother
  <2>1. PICK q \in Requests : r = [q EXCEPT !.id = "b"]
    BY <1>2 DEF OfAnother
  <2>2. /\ q.view \in Views /\ (q.view = "tasks" => q.ws = "none" /\ q.filter = "none")
        /\ q = Request(q.view, q.id, q.filter, q.ws)
    BY RequestsAreKnown
  <2>3. r.view = q.view /\ r.filter = q.filter /\ r.ws = q.ws
    BY <2>1, <2>2 DEF Request
  <2> QED
    BY <2>2, <2>3
<1> QED
  BY <1>1, <1>2

\* Two requests whose cursors have one kind and context are of one walk.
LEMMA OneWalk ==
    ASSUME NEW r \in Requests \cup OfAnother, NEW q \in Requests \cup OfAnother,
           q.view \notin SingleViews, ValidParams(r), ValidParams(q),
           WalkKind(r) = WalkKind(q), WalkContext(r) = WalkContext(q)
    PROVE  /\ r.view = q.view /\ r.id = q.id /\ r.ws = q.ws
           /\ StoreFilter(r.filter) = StoreFilter(q.filter)
<1>1. r.view \in Views /\ q.view \in Views
  BY OthersAreKnown
<1>2. CASE q.view \in RecordViews
  <2>1. r.view \in RecordViews
    BY <1>1, <1>2 DEF WalkKind, Views, RecordViews, LogViews, LedgerViews, SingleViews
  <2>2. <<r.view, r.id, StoreFilter(r.filter)>> = <<q.view, q.id, StoreFilter(q.filter)>>
    BY <1>2, <2>1 DEF WalkContext, Context
  <2>3. r.ws = "none" /\ q.ws = "none"
    BY <1>2, <2>1 DEF ValidParams, RecordViews, LedgerViews
  <2> QED
    BY <2>2, <2>3
<1>3. CASE q.view \in LogViews
  <2>1. r.view \in LogViews /\ r.view \notin RecordViews /\ q.view \notin RecordViews
    BY <1>1, <1>3 DEF WalkKind, Views, RecordViews, LogViews, LedgerViews, SingleViews
  <2>2. <<r.view, r.id, r.filter>> = <<q.view, q.id, q.filter>>
    BY <1>3, <2>1 DEF WalkContext
  <2>3. r.ws = "none" /\ q.ws = "none"
    BY <1>3, <2>1 DEF ValidParams, LogViews, LedgerViews
  <2> QED
    BY <2>2, <2>3
<1>4. CASE q.view = "query_results"
  <2>1. r.view = "query_results"
    BY <1>1, <1>4 DEF WalkKind, Views, RecordViews, LogViews, LedgerViews, SingleViews
  <2>2. <<"query_rows", r.id, StoreFilter(r.filter)>> = <<"query_rows", q.id, StoreFilter(q.filter)>>
    BY <1>4, <2>1 DEF WalkContext, Context, RecordViews, LogViews
  <2>3. r.ws = "none" /\ q.ws = "none"
    BY <1>4, <2>1 DEF ValidParams, LedgerViews
  <2> QED
    BY <1>4, <2>1, <2>2, <2>3
<1>5. CASE q.view \in LedgerViews
  <2>1. r.view = q.view
    BY <1>1, <1>5 DEF WalkKind, Views, RecordViews, LogViews, LedgerViews, SingleViews
  <2>2. LedgerContext(r) = LedgerContext(q)
    BY <1>5, <2>1 DEF WalkContext, RecordViews, LogViews, LedgerViews
  <2>5. r.id = "none" /\ q.id = "none"
    BY <1>5, <2>1 DEF ValidParams
  <2>3. CASE q.view = "tasks"
    BY <2>1, <2>3, <2>5, OthersAreKnown
  <2>4. CASE q.view # "tasks"
    <3>1. <<"invocations", r.ws, StoreFilter(r.filter)>> = <<"invocations", q.ws, StoreFilter(q.filter)>>
      BY <2>1, <2>2, <2>4 DEF LedgerContext
    <3> QED
      BY <2>1, <2>5, <3>1
  <2> QED
    BY <2>3, <2>4
<1> QED
  BY <1>1, <1>2, <1>3, <1>4, <1>5 DEF Views

-----------------------------------------------------------------------------
(***************************************************************************)
(* The steps of the client.                                                *)
(***************************************************************************)
LEMMA AnsweredIsThere ==
    ASSUME NEW req, req.view \notin LedgerViews, NEW cursor, NEW limit, NEW requested,
           ~BazelInspect(req, cursor, limit, requested).error
    PROVE  inv.state # "gone"
  BY DEF BazelInspect, Packed, Inspect, Refused, LedgerViews

\* A page goes on from what the client has read, of evidence that is intact.
LEMMA AskContinues ==
    ASSUME WalkInvariant, client.status = "walking", client.req.view \in PageViews,
           client.req.view \in LogViews => client.cursor = NoCursor \/ ~client.changed,
           NEW limit \in Nat, NEW requested,
           ~BazelInspect(client.req, client.cursor, limit, requested).error
    PROVE  Continues(client.req, client.cursor, client.items,
                     BazelInspect(client.req, client.cursor, limit, requested).page)
<1>1. PICK r : r = client.req
  OBVIOUS
<1>2. PICK c : c = client.cursor
  OBVIOUS
<1>3. PICK i : i = client.items
  OBVIOUS
<1>4. PICK answer : answer = BazelInspect(r, c, limit, requested)
  OBVIOUS
<1>5. r.view \notin LedgerViews
  BY <1>1 DEF PageViews, EvidenceViews
<1>6. inv.state # "gone"
  BY <1>1, <1>2, <1>5, AnsweredIsThere
<1>7. Reads(r, c, i)
  <2>1. CASE c = NoCursor
    <3>1. i = <<>>
      BY <1>2, <1>3, <2>1 DEF WalkInvariant, ClientOk
    <3> QED
      BY <2>1, <3>1, NothingIsRead
  <2>2. CASE c # NoCursor
    <3>1. Intact
      BY <1>1, <1>2, <1>6, <2>2 DEF Intact
    <3> QED
      BY <1>1, <1>2, <1>3, <3>1 DEF WalkInvariant, EvidenceIsRead
  <2> QED
    BY <2>1, <2>2
<1>8. CursorOk(r, c) /\ i = ItemsUpto(r, From(c))
  BY <1>7 DEF Reads
<1>9. inv \in Evidence /\ CountHolds
  BY DEF WalkInvariant
<1>10. ~answer.error /\ r.view \in PageViews
  BY <1>1, <1>2, <1>4
<1>11. Continues(r, c, ItemsUpto(r, From(c)), answer.page)
  BY <1>4, <1>8, <1>9, <1>10, ResponseContinues
<1> QED
  BY <1>1, <1>2, <1>3, <1>4, <1>8, <1>11

\* A file cursor has counted the rows it has numbered.
LEMMA RowsAreNumbered ==
    ASSUME NEW r, NEW c, CursorOk(r, c), Len(ViewHits(r)) \in Nat, r.view = "query_results"
    PROVE  CursorCounts(c)
<1>1. CASE c = NoCursor
  BY <1>1 DEF CursorCounts, NoCursor
<1>2. CASE c # NoCursor
  <2>1. c.kind = "file"
    BY <1>2 DEF CursorOk, WalkKind, RecordViews, LogViews
  <2>2. PICK n \in Int : n = c.ordinal
    BY <1>2, <2>1 DEF CursorOk, Ordinal
  <2>3. n \in 1 .. Len(ViewHits(r)) /\ c.total = n /\ c.filtered = Cardinality(HitsIn(ViewHits(r), 1, n))
    BY <1>2, <2>1, <2>2 DEF CursorOk, RowOk, Ordinal
  <2>4. PICK T : T = HitsIn(ViewHits(r), 1, n)
    OBVIOUS
  <2>5. T \subseteq 1 .. n
    BY <2>4 DEF HitsIn
  <2>6. PICK U : U = 1 .. n
    OBVIOUS
  <2>7. IsFiniteSet(U) /\ Cardinality(U) = n
    <3>1. PICK o \in Int : o = 1
      OBVIOUS
    <3>2. Cardinality(o .. n) = (IF o > n THEN 0 ELSE n - o + 1) /\ IsFiniteSet(o .. n)
      BY FS_Interval
    <3> QED
      BY <2>3, <2>6, <3>1, <3>2
  <2>8. Cardinality(T) <= n
    <3>1. T \in SUBSET U
      BY <2>5, <2>6
    <3>2. Cardinality(T) <= Cardinality(U)
      BY <2>7, <3>1, FS_Subset
    <3> QED
      BY <2>7, <3>2
  <2> QED
    BY <2>2, <2>3, <2>4, <2>8 DEF CursorCounts
<1> QED
  BY <1>1, <1>2

\* A page of the ledger behind the items read so far.
LEMMA LedgerReadOn ==
    ASSUME IsLedger(ledger), NEW r, NEW c, LedgerCursorOk(r, c),
           NEW items, Descends(items), Reaches(items, c), c = NoCursor => items = <<>>,
           NEW page, LedgerPageOk(r, c, page)
    PROVE  /\ Descends(items \o page.items) /\ Reaches(items \o page.items, page.next)
           /\ \A z : Holds(items, z) \/ Holds(page.items, z) => Holds(items \o page.items, z)
<1>1. PICK f \in Seq(Nat \X Nat) : f = items
  BY DEF Descends
<1>2. LedgerSet(r) \subseteq Nat \X Nat
  BY LedgerIsListed
<1>3. PICK g \in Seq(Nat \X Nat) : g = page.items
  <2>1. page.items \in Seq(LedgerSet(r))
    BY DEF LedgerPageOk
  <2>2. page.items \in Seq(Nat \X Nat)
    BY <1>2, <2>1, SeqOfMore
  <2> QED
    BY <2>2
<1>4. PICK m \in Nat : m = Len(f)
  BY <1>1
<1>5. PICK n \in Nat : n = Len(g)
  BY <1>3
<1>6. PICK h : h = f \o g
  OBVIOUS
<1>7. /\ h \in Seq(Nat \X Nat) /\ Len(h) = m + n
      /\ \A i \in 1 .. m : h[i] = f[i]
      /\ \A i \in 1 .. n : h[m + i] = g[i]
  BY <1>4, <1>5, <1>6, JoinedSeq
<1>8. /\ \A i \in 1 .. m : f[i] \in Nat \X Nat
      /\ \A i \in 1 .. n : g[i] \in Nat \X Nat
  BY <1>4, <1>5
<1>9. /\ \A i, j \in 1 .. m : i < j => KeyBelow(f[j], f[i])
      /\ \A i, j \in 1 .. n : i < j => KeyBelow(g[j], g[i])
      /\ \A i \in 1 .. n : Ahead(c, g[i])
      /\ c # NoCursor => c.at \in Nat \X Nat /\ \A i \in 1 .. m : ~KeyBelow(f[i], c.at)
      /\ c = NoCursor => m = 0
  <2>1. \A i, j \in 1 .. m : i < j => KeyBelow(f[j], f[i])
    BY <1>1, <1>4 DEF Descends
  <2>2. (\A i, j \in 1 .. n : i < j => KeyBelow(g[j], g[i])) /\ \A i \in 1 .. n : Ahead(c, g[i])
    BY <1>3, <1>5 DEF LedgerPageOk
  <2>3. c # NoCursor => c.at \in Nat \X Nat /\ \A i \in 1 .. m : ~KeyBelow(f[i], c.at)
    BY <1>1, <1>4 DEF LedgerCursorOk, Reaches
  <2>4. c = NoCursor => m = 0
    BY <1>1, <1>4
  <2> QED
    BY <2>1, <2>2, <2>3, <2>4
<1>10. \A i \in 1 .. m, j \in 1 .. n : KeyBelow(g[j], f[i])
  <2>1. SUFFICES ASSUME NEW i \in 1 .. m, NEW j \in 1 .. n PROVE KeyBelow(g[j], f[i])
    OBVIOUS
  <2>2. c # NoCursor
    BY <1>9
  <2>3. PICK p \in Nat \X Nat, q \in Nat \X Nat, u \in Nat \X Nat : p = f[i] /\ q = g[j] /\ u = c.at
    BY <1>8, <1>9, <2>2
  <2>4. KeyBelow(q, u) /\ ~KeyBelow(p, u)
    BY <1>9, <2>2, <2>3 DEF Ahead
  <2>5. KeyBelow(q, u) /\ ~KeyBelow(p, u) => KeyBelow(q, p)
    BY KeysAreOrdered
  <2> QED
    BY <2>3, <2>4, <2>5
<1>11. \A j \in 1 .. m + n : j \in 1 .. m \/ \E k \in 1 .. n : j = m + k
  <2>1. TAKE j \in 1 .. m + n
  <2>2. CASE j <= m
    BY <2>2
  <2>3. CASE ~(j <= m)
    <3>1. j - m \in 1 .. n /\ j = m + (j - m)
      BY <2>3
    <3> QED
      BY <3>1
  <2> QED
    BY <2>2, <2>3
<1>12. ASSUME NEW i \in 1 .. m + n, NEW j \in 1 .. m + n, i < j
       PROVE  KeyBelow(h[j], h[i])
  <2>1. CASE j \in 1 .. m
    <3>1. i \in 1 .. m
      BY <1>12, <2>1
    <3> QED
      BY <1>7, <1>9, <1>12, <2>1, <3>1
  <2>2. CASE j \notin 1 .. m
    <3>1. PICK k \in 1 .. n : j = m + k
      BY <1>11, <2>2
    <3>2. CASE i \in 1 .. m
      BY <1>7, <1>10, <3>1, <3>2
    <3>3. CASE i \notin 1 .. m
      <4>1. PICK l \in 1 .. n : i = m + l
        BY <1>11, <3>3
      <4>2. l < k
        BY <1>12, <3>1, <4>1
      <4> QED
        BY <1>7, <1>9, <3>1, <4>1, <4>2
    <3> QED
      BY <3>2, <3>3
  <2> QED
    BY <2>1, <2>2
<1>13. Descends(h)
  BY <1>7, <1>12 DEF Descends
<1>14. Reaches(h, page.next)
  <2>1. SUFFICES ASSUME page.next # NoCursor, NEW j \in 1 .. m + n
                 PROVE  ~KeyBelow(h[j], page.next.at)
    BY <1>7 DEF Reaches
  <2>2. PICK v \in Nat \X Nat : v = page.next.at
    BY <2>1 DEF LedgerPageOk, LedgerCursorOk
  <2>3. \A i \in 1 .. n : ~KeyBelow(g[i], v)
    BY <1>3, <1>5, <2>1, <2>2 DEF LedgerPageOk
  <2>4. CASE j \in 1 .. m
    <3>1. c # NoCursor
      BY <1>9, <2>4
    <3>2. PICK p \in Nat \X Nat, u \in Nat \X Nat : p = f[j] /\ u = c.at
      BY <1>8, <1>9, <2>4, <3>1
    <3>3. ~KeyBelow(p, u) /\ ~KeyBelow(u, v)
      BY <1>9, <2>1, <2>2, <2>4, <3>1, <3>2 DEF LedgerPageOk
    <3>4. KeyBelow(p, v) /\ ~KeyBelow(u, v) => KeyBelow(p, u)
      BY KeysAreOrdered
    <3> QED
      BY <1>7, <2>2, <2>4, <3>2, <3>3, <3>4
  <2>5. CASE j \notin 1 .. m
    <3>1. PICK k \in 1 .. n : j = m + k
      BY <1>11, <2>5
    <3> QED
      BY <1>7, <2>2, <2>3, <3>1
  <2> QED
    BY <2>4, <2>5
<1>15. ASSUME NEW z, Holds(f, z) \/ Holds(g, z)
       PROVE  Holds(h, z)
  <2>1. CASE Holds(f, z)
    <3>1. PICK i \in 1 .. m : f[i] = z
      BY <1>4, <2>1 DEF Holds
    <3>2. i \in 1 .. m + n
      OBVIOUS
    <3> QED
      BY <1>7, <3>1, <3>2 DEF Holds
  <2>2. CASE Holds(g, z)
    <3>1. PICK i \in 1 .. n : g[i] = z
      BY <1>5, <2>2 DEF Holds
    <3>2. m + i \in 1 .. m + n
      OBVIOUS
    <3> QED
      BY <1>7, <3>1, <3>2 DEF Holds
  <2> QED
    BY <1>15, <2>1, <2>2
<1> QED
  BY <1>1, <1>3, <1>6, <1>13, <1>14, <1>15

\* A request leaves the invariant as it is.
LEMMA AskKeeps ==
    ASSUME WalkInvariant, NEW limit \in Limits, NEW budget \in Budgets, Ask(limit, budget)
    PROVE  WalkInvariant'
<1> DEFINE r == client.req
           c == client.cursor
           answer == BazelInspect(client.req, client.cursor, limit, budget)
           page == answer.page
<1>1. /\ inv \in Evidence /\ IsLedger(ledger) /\ client.steady \subseteq DOMAIN ledger
      /\ ClientOk /\ Named(r, c) /\ CursorCounts(c) /\ CountHolds /\ EvidenceIsRead
      /\ r.view \in LedgerViews => LedgerIsRead
  BY DEF WalkInvariant
<1>2. client.status = "walking" /\ inv' = inv /\ ledger' = ledger /\ Receive(answer)
  BY DEF Ask
<1>3. limit \in Nat /\ r.view \in Views /\ r \in Requests /\ client.changed \in BOOLEAN
  BY <1>1, EvidenceAssumption, RequestsAreKnown DEF ClientOk
<1>4. inv' \in Evidence /\ IsLedger(ledger)' /\ CountHolds'
  BY <1>1, <1>2 DEF IsLedger, CountHolds
<1>5. CASE answer.error
  <2>1. client' = [client EXCEPT !.status = "refused"]
    BY <1>2, <1>5 DEF Receive
  <2>2. /\ client'.req = r /\ client'.cursor = c /\ client'.items = client.items
        /\ client'.page = client.page /\ client'.status = "refused"
        /\ client'.steady = client.steady /\ client'.changed = client.changed
        /\ client' = [req |-> client'.req, cursor |-> client'.cursor, items |-> client'.items,
                      page |-> client'.page, status |-> client'.status,
                      steady |-> client'.steady, changed |-> client'.changed]
    BY <1>1, <2>1 DEF ClientOk
  <2>3. ClientOk'
    BY <1>1, <2>2 DEF ClientOk
  <2>4. EvidenceIsRead'
    BY <2>2 DEF EvidenceIsRead, Intact
  <2>5. r.view \in LedgerViews => LedgerIsRead'
    BY <1>1, <2>2 DEF LedgerIsRead, Past
  <2> QED
    BY <1>1, <1>2, <1>4, <2>2, <2>3, <2>4, <2>5 DEF WalkInvariant, CursorStaysInItsWalk
<1>6. CASE ~answer.error
  <2>1. PICK next, more, said :
            /\ next = page.next /\ more = client.items \o page.items
            /\ said = [total |-> page.total, filtered |-> page.filtered,
                       truncated |-> page.truncated]
    OBVIOUS
  <2>2. client' = [client EXCEPT !.items = more, !.cursor = next, !.page = said,
                                 !.steady = Steady, !.changed = (c # NoCursor /\ client.changed),
                                 !.status = IF next = NoCursor THEN "done" ELSE client.status]
    <3> HIDE DEF answer
    <3> QED
      BY <1>2, <1>6, <2>1 DEF Receive
  <2>3. /\ client'.req = r /\ client'.cursor = next /\ client'.items = more
        /\ client'.page = said /\ client'.steady = Steady
        /\ client'.changed = (c # NoCursor /\ client.changed)
        /\ client'.status = IF next = NoCursor THEN "done" ELSE "walking"
        /\ client' = [req |-> client'.req, cursor |-> client'.cursor, items |-> client'.items,
                      page |-> client'.page, status |-> client'.status,
                      steady |-> client'.steady, changed |-> client'.changed]
    <3> HIDE DEF answer
    <3> QED
      BY <1>1, <1>2, <2>2 DEF ClientOk
  <2>4. Named(r, next) /\ ValidParams(r)
    BY <1>1, <1>3, <1>6, <2>1, ResponseNames
  <2>5. ClientOk'
    <3>1. client'.changed \in BOOLEAN
      BY <2>3
    <3>2. client'.status \in {"walking", "done", "refused", "confused"}
          /\ ~(client'.status = "walking" /\ client'.cursor = NoCursor)
      BY <2>3
    <3> HIDE DEF answer
    <3> QED
      BY <1>3, <2>3, <2>4, <3>1, <3>2 DEF ClientOk
  <2>6. CursorCounts(next)
    <3>1. CASE r.view = "query_results"
      <4>1. r.view \in PageViews /\ r.view \notin LogViews /\ r.view \in EvidenceViews
        BY <3>1 DEF PageViews, EvidenceViews, Views, LogViews, LedgerViews, SingleViews
      <4>2. Continues(r, c, client.items, page)
        BY <1>2, <1>3, <1>6, <4>1, AskContinues
      <4>3. CursorOk(r, next)
        BY <2>1, <4>2 DEF Continues
      <4>4. Len(ViewHits(r)) \in Nat
        BY <1>1, <4>1, HitsAreListed
      <4> QED
        BY <3>1, <4>3, <4>4, RowsAreNumbered
    <3>2. CASE r.view # "query_results"
      <4>1. next.kind # "file"
        BY <1>3, <2>4, <3>2 DEF Named, NoCursor, WalkKind, Views, RecordViews, LogViews,
                                LedgerViews, SingleViews
      <4> QED
        BY <4>1 DEF CursorCounts
    <3> QED
      BY <3>1, <3>2
  <2>7. EvidenceIsRead'
    <3>1. SUFFICES ASSUME NEW q, q = r, Intact' PROVE Reads(q, next, more)'
      BY <2>3 DEF EvidenceIsRead
    <3>2. /\ next # NoCursor /\ r.view \in PageViews
          /\ r.view \in LogViews => client.cursor = NoCursor \/ ~client.changed
      BY <2>3, <3>1 DEF Intact
    <3>3. Continues(r, c, client.items, page)
      BY <1>2, <1>3, <1>6, <3>2, AskContinues
    <3>4. Reads(q, next, more)
      BY <2>1, <3>1, <3>2, <3>3 DEF Continues, Reads
    <3> QED
      BY <1>2, <3>4, EvidenceStays
  <2>8. ASSUME r.view \in LedgerViews
        PROVE  LedgerIsRead'
    <3>1. /\ Descends(client.items) /\ Reaches(client.items, c) /\ LedgerCursorOk(r, c)
          /\ \A key \in client.steady :
                LedgerHit(r, key) /\ key \in LedgerSet(r) /\ Past(key) => Holds(client.items, key)
      BY <1>1, <2>8 DEF LedgerIsRead
    <3>2. LedgerPageOk(r, c, page)
      BY <1>1, <1>3, <1>6, <2>8, <3>1, LedgerResponse
    <3>3. c = NoCursor => client.items = <<>>
      BY <1>1, <1>2 DEF ClientOk
    <3> HIDE DEF answer
    <3>4. /\ Descends(more) /\ Reaches(more, next)
          /\ \A z : Holds(client.items, z) \/ Holds(page.items, z) => Holds(more, z)
      BY <1>1, <2>1, <3>1, <3>2, <3>3, LedgerReadOn
    <3>5. LedgerCursorOk(r, next)
      BY <2>1, <3>2 DEF LedgerPageOk
    <3>6. ASSUME NEW q, q = r, NEW key \in Steady, LedgerHit(q, key), key \in LedgerSet(q), Past(key)'
          PROVE  Holds(more, key)
      <4>1. CASE Ahead(c, key)
        <5>1. Holds(page.items, key)
          <6>1. CASE next # NoCursor
            <7>1. ~KeyBelow(key, next.at)
              BY <2>3, <3>6, <6>1 DEF Past
            <7> QED
              BY <2>1, <3>2, <3>6, <4>1, <6>1, <7>1 DEF LedgerPageOk
          <6>2. CASE next = NoCursor
            <7>1. ~said.truncated
              BY <2>3, <3>6, <6>2 DEF Past
            <7>2. ~page.truncated
              BY <2>1, <7>1
            <7> QED
              BY <3>2, <3>6, <4>1, <7>2 DEF LedgerPageOk
          <6> QED
            BY <6>1, <6>2
        <5> QED
          BY <3>4, <5>1
      <4>2. CASE ~Ahead(c, key)
        <5>1. c # NoCursor /\ ~KeyBelow(key, c.at)
          BY <4>2 DEF Ahead
        <5>2. key \in client.steady /\ Past(key)
          BY <1>2, <3>6, <5>1 DEF Steady, Past
        <5>3. Holds(client.items, key)
          BY <3>1, <3>6, <5>2
        <5> QED
          BY <3>4, <5>3
      <4> QED
        BY <4>1, <4>2
    <3>7. \A q, key : /\ LedgerHit(q, key)' <=> LedgerHit(q, key)
                      /\ LedgerSet(q)' = LedgerSet(q)
      BY <1>2 DEF LedgerHit, LedgerSet, InWorkspace
    <3> QED
      BY <2>3, <3>4, <3>5, <3>6, <3>7 DEF LedgerIsRead
  <2>9. client'.steady \subseteq DOMAIN ledger'
    BY <1>1, <1>2, <2>3 DEF Steady
  <2>10. CursorStaysInItsWalk'
    BY <2>3 DEF CursorStaysInItsWalk
  <2> HIDE DEF answer
  <2> QED
    BY <1>4, <2>3, <2>4, <2>5, <2>6, <2>7, <2>8, <2>9, <2>10 DEF WalkInvariant
<1> QED
  BY <1>5, <1>6

\* A cursor sent with another walk's request is refused, or belongs to that walk.
LEMMA ConfuseKeeps ==
    ASSUME WalkInvariant, NEW req \in Requests \cup OfAnother, Confuse(req)
    PROVE  WalkInvariant'
<1> DEFINE r == client.req
           c == client.cursor
           refuses == BazelInspect(req, client.cursor, 1, MaxBudget).error
           same == /\ req.view = client.req.view /\ req.id = client.req.id
                   /\ req.ws = client.req.ws
                   /\ StoreFilter(req.filter) = StoreFilter(client.req.filter)
           st == IF refuses THEN "refused" ELSE IF same THEN "walking" ELSE "confused"
<1>1. /\ inv \in Evidence /\ IsLedger(ledger) /\ client.steady \subseteq DOMAIN ledger
      /\ ClientOk /\ Named(r, c) /\ CursorCounts(c) /\ CountHolds /\ EvidenceIsRead
      /\ r.view \in LedgerViews => LedgerIsRead
  BY DEF WalkInvariant
<1>2. /\ client.status = "walking" /\ c # NoCursor /\ req.view \notin SingleViews
      /\ ValidParams(req) /\ inv' = inv /\ ledger' = ledger
  BY DEF Confuse
<1>3. client' = [client EXCEPT !.status = st]
  BY DEF Confuse
<1>4. st # "confused" \/ r.view = "coverage"
  <2>1. SUFFICES ASSUME ~refuses, r.view # "coverage" PROVE same
    BY DEF st
  <2>2. req.view \in Views \ SingleViews
    BY <1>2, OthersAreKnown
  <2>3. PICK one \in Nat : one = 1
    OBVIOUS
  <2>4. DecodesFor(c, WalkKind(req), WalkContext(req))
    BY <1>1, <2>1, <2>2, <2>3, ResponseDecodes
  <2>5. c.kind = WalkKind(req) /\ c.ctx = WalkContext(req)
    BY <1>2, <2>4 DEF DecodesFor
  <2>6. c.kind = WalkKind(r) /\ c.ctx = WalkContext(r)
    BY <1>1, <1>2, <2>1 DEF Named
  <2>7. r \in Requests /\ ValidParams(r)
    BY <1>1, <1>2 DEF ClientOk
  <2>8. WalkKind(r) = WalkKind(req) /\ WalkContext(r) = WalkContext(req)
    BY <2>5, <2>6
  <2> HIDE DEF r
  <2>9. /\ r.view = req.view /\ r.id = req.id /\ r.ws = req.ws
        /\ StoreFilter(r.filter) = StoreFilter(req.filter)
    BY <1>2, <2>7, <2>8, OneWalk
  <2> QED
    BY <2>9 DEF r
<1>5. st \in {"walking", "refused", "confused"}
  BY DEF st
<1> HIDE DEF st
<1>6. /\ client'.req = r /\ client'.cursor = c /\ client'.items = client.items
      /\ client'.page = client.page /\ client'.status = st
      /\ client'.steady = client.steady /\ client'.changed = client.changed
      /\ client' = [req |-> client'.req, cursor |-> client'.cursor, items |-> client'.items,
                    page |-> client'.page, status |-> client'.status,
                    steady |-> client'.steady, changed |-> client'.changed]
  BY <1>1, <1>3 DEF ClientOk
<1>7. ClientOk'
  BY <1>1, <1>2, <1>5, <1>6 DEF ClientOk
<1>8. EvidenceIsRead'
  <2>1. SUFFICES ASSUME NEW q, q = r, NEW d, d = c, NEW i, i = client.items, Intact'
                 PROVE  Reads(q, d, i)'
    BY <1>6 DEF EvidenceIsRead
  <2>2. Intact
    BY <1>2, <1>6, <2>1 DEF Intact
  <2>3. Reads(q, d, i)
    BY <1>1, <2>1, <2>2 DEF EvidenceIsRead
  <2> QED
    BY <1>2, <2>3, EvidenceStays
<1>9. ASSUME r.view \in LedgerViews PROVE LedgerIsRead'
  <2>1. LedgerIsRead
    BY <1>1, <1>9
  <2>2. \A q, key : (LedgerHit(q, key)' <=> LedgerHit(q, key)) /\ LedgerSet(q)' = LedgerSet(q)
    BY <1>2 DEF LedgerHit, LedgerSet, InWorkspace
  <2>3. \A key : Past(key)' => Past(key)
    BY <1>2, <1>5, <1>6 DEF Past
  <2> QED
    BY <1>6, <2>1, <2>2, <2>3 DEF LedgerIsRead
<1>10. inv' \in Evidence /\ IsLedger(ledger)' /\ CountHolds'
  BY <1>1, <1>2 DEF IsLedger, CountHolds
<1>11. CursorStaysInItsWalk'
  BY <1>4, <1>6 DEF CursorStaysInItsWalk
<1> QED
  BY <1>1, <1>2, <1>6, <1>7, <1>8, <1>9, <1>10, <1>11 DEF WalkInvariant

-----------------------------------------------------------------------------
(***************************************************************************)
(* The steps of the invocation.                                            *)
(***************************************************************************)

\* What a step of the invocation has to keep: the ledger, and all of the client but
\* whether the log it reads has changed.
SameWalk(changed) ==
    ledger' = ledger /\ client' = [client EXCEPT !.changed = changed]

LEMMA EvidenceStepKeeps ==
    ASSUME WalkInvariant, NEW changed \in BOOLEAN, SameWalk(changed),
           inv' \in Evidence, CountHolds',
           \A q \in {client.req}, d \in {client.cursor}, i \in {client.items} :
              Intact' => Reads(q, d, i)'
    PROVE  WalkInvariant'
<1>1. /\ IsLedger(ledger) /\ client.steady \subseteq DOMAIN ledger
      /\ ClientOk /\ Named(client.req, client.cursor) /\ CursorCounts(client.cursor)
      /\ client.req.view \in LedgerViews => LedgerIsRead
      /\ CursorStaysInItsWalk
  BY DEF WalkInvariant
<1>2. /\ client'.req = client.req /\ client'.cursor = client.cursor
      /\ client'.items = client.items /\ client'.page = client.page
      /\ client'.status = client.status /\ client'.steady = client.steady
      /\ client'.changed = changed /\ ledger' = ledger
      /\ client' = [req |-> client'.req, cursor |-> client'.cursor, items |-> client'.items,
                    page |-> client'.page, status |-> client'.status,
                    steady |-> client'.steady, changed |-> client'.changed]
  BY <1>1 DEF ClientOk, SameWalk
<1>3. ClientOk'
  BY <1>1, <1>2 DEF ClientOk
<1>4. EvidenceIsRead'
  BY <1>2 DEF EvidenceIsRead
<1>5. ASSUME client.req.view \in LedgerViews PROVE LedgerIsRead'
  <2>1. LedgerIsRead
    BY <1>1, <1>5
  <2>2. \A q, key : (LedgerHit(q, key)' <=> LedgerHit(q, key)) /\ LedgerSet(q)' = LedgerSet(q)
    BY <1>2 DEF LedgerHit, LedgerSet, InWorkspace
  <2>3. \A key : Past(key)' => Past(key)
    BY <1>2 DEF Past
  <2> QED
    BY <1>2, <2>1, <2>2, <2>3 DEF LedgerIsRead
<1>6. IsLedger(ledger)'
  BY <1>1, <1>2 DEF IsLedger
<1>7. CursorStaysInItsWalk'
  BY <1>1, <1>2 DEF CursorStaysInItsWalk
<1> QED
  BY <1>1, <1>2, <1>3, <1>4, <1>5, <1>6, <1>7 DEF WalkInvariant

\* Bazel writes a byte of a query's result.
LEMMA WriteByteKeeps ==
    ASSUME WalkInvariant, NEW byte \in Bytes, WriteByte(byte)
    PROVE  WalkInvariant'
<1>1. /\ inv \in Evidence /\ ClientOk /\ EvidenceIsRead /\ client.changed \in BOOLEAN
  BY DEF WalkInvariant, ClientOk
<1>2. /\ client.status = "walking" /\ client.req.view = "query_results"
      /\ inv.state = "running" /\ inv' = [inv EXCEPT !.stdout = Append(@, byte)]
      /\ ledger' = ledger /\ client' = client
  BY DEF WriteByte, Walking
<1>3. inv.stdout \in Seq(Bytes)
  BY <1>1 DEF Evidence
<1>4. Append(inv.stdout, byte) \in Seq(Bytes)
  BY <1>3, AppendedSeq
<1>5. inv' \in Evidence /\ inv'.stdout = Append(inv.stdout, byte) /\ inv'.state = "running"
  BY <1>1, <1>2, <1>4 DEF Evidence
<1>6. CountHolds'
  BY <1>5 DEF CountHolds
<1>7. SameWalk(client.changed)
  BY <1>1, <1>2 DEF SameWalk, ClientOk
<1>8. ASSUME NEW q, q = client.req, NEW d, d = client.cursor, NEW i, i = client.items, Intact'
      PROVE  Reads(q, d, i)'
  <2>1. Intact
    BY <1>2, <1>8 DEF Intact
  <2>2. Reads(q, d, i)
    BY <1>1, <1>8, <2>1 DEF EvidenceIsRead
  <2>3. CASE d = NoCursor
    <3>1. i = <<>>
      BY <1>1, <1>2, <1>8, <2>3 DEF ClientOk
    <3> QED
      BY <2>3, <3>1, NothingIsReadNext
  <2>4. CASE d # NoCursor
    BY <1>2, <1>3, <1>5, <1>8, <2>2, <2>4, RowsOutliveWrite
  <2> QED
    BY <2>3, <2>4
<1> QED
  BY <1>1, <1>5, <1>6, <1>7, <1>8, EvidenceStepKeeps

LEMMA WriteLineKeeps ==
    ASSUME WalkInvariant, NEW stream \in {"out", "err"}, NEW line \in Lines,
           WriteLine(stream, line)
    PROVE  WalkInvariant'
<1>1. /\ inv \in Evidence /\ ClientOk
  BY DEF WalkInvariant
<1>2. /\ client.req.view = "log" /\ inv.state = "running"
      /\ inv' = [inv EXCEPT !.console[stream] = Append(@, line)]
      /\ ledger' = ledger /\ client' = [client EXCEPT !.changed = TRUE]
  BY DEF WriteLine, Walking
<1>3. inv.console \in [out : Seq(Lines), err : Seq(Lines)]
  BY <1>1 DEF Evidence
<1>4. inv.console[stream] \in Seq(Lines)
  BY <1>3
<1>5. Append(inv.console[stream], line) \in Seq(Lines)
  BY <1>4, AppendedSeq
<1>6. PICK console : console = [inv.console EXCEPT ![stream] = Append(@, line)]
  OBVIOUS
<1>7. console \in [out : Seq(Lines), err : Seq(Lines)]
  <2>1. CASE stream = "out"
    BY <1>3, <1>5, <1>6, <2>1
  <2>2. CASE stream = "err"
    BY <1>3, <1>5, <1>6, <2>2
  <2> QED
    BY <2>1, <2>2
<1>8. inv' = [inv EXCEPT !.console = console]
  BY <1>2, <1>6
<1>9. inv' \in Evidence /\ inv'.state = "running"
  BY <1>1, <1>2, <1>7, <1>8 DEF Evidence
<1>10. CountHolds'
  BY <1>9 DEF CountHolds
<1>11. SameWalk(TRUE)
  BY <1>2 DEF SameWalk
<1>12. ~Intact'
  <2>1. client'.changed = TRUE /\ client'.req.view = "log"
    BY <1>1, <1>2 DEF ClientOk
  <2> QED
    BY <2>1 DEF Intact, LogViews
<1> QED
  BY <1>9, <1>10, <1>11, <1>12, EvidenceStepKeeps

\* The invocation finishes. A walk through its log is then through another log, one
\* through its records has not begun, and its rows are what they were.
LEMMA FinishKeeps ==
    ASSUME WalkInvariant, NEW failed \in BOOLEAN, Finish(failed)
    PROVE  WalkInvariant'
<1>1. inv \in Evidence /\ ClientOk /\ EvidenceIsRead
  BY DEF WalkInvariant
<1>2. PICK count : count = IF failed \/ ~inv.query THEN Unknown ELSE CountQueryRows(inv.stdout)
  OBVIOUS
<1>3. /\ client.status = "walking" /\ inv.state = "running"
      /\ inv' = [inv EXCEPT !.state = "finished", !.failed = failed,
                            !.persisted = ShouldPersist(inv.query, failed), !.count = count]
      /\ client' = [client EXCEPT !.changed = TRUE] /\ ledger' = ledger
  BY <1>2 DEF Finish
<1>4. inv.stdout \in Seq(Bytes) /\ inv.query \in BOOLEAN
  BY <1>1 DEF Evidence
<1>5. count \in Int
  <2>1. CountQueryRows(inv.stdout) = Len(RowsOf(0))
    BY <1>4, RowsAreCounted
  <2>2. PICK q : q = [view |-> "query_results"]
    OBVIOUS
  <2>3. q.view = "query_results"
    BY <2>2
  <2>4. Len(RowsOf(0)) \in Nat
    BY <1>4, <2>3, RowsHaveHits
  <2> QED
    BY <1>2, <2>1, <2>4 DEF Unknown
<1>6. ShouldPersist(inv.query, failed) \in BOOLEAN
  BY <1>4 DEF ShouldPersist
<1>7. inv' \in Evidence /\ inv'.stdout = inv.stdout /\ inv'.count = count
  BY <1>1, <1>3, <1>5, <1>6 DEF Evidence
<1>8. CountHolds'
  BY <1>2, <1>7 DEF CountHolds
<1>9. SameWalk(TRUE)
  BY <1>3 DEF SameWalk
<1>10. ASSUME NEW q, q = client.req, NEW d, d = client.cursor, NEW i, i = client.items, Intact'
       PROVE  Reads(q, d, i)'
  <2>1. client'.changed = TRUE /\ client'.req = client.req /\ client'.status = "walking"
    BY <1>1, <1>3 DEF ClientOk
  <2>2. q.view \in PageViews /\ q.view \notin LogViews
    BY <1>10, <2>1 DEF Intact
  <2>3. Intact
    BY <1>3, <1>10, <2>2 DEF Intact
  <2>4. Reads(q, d, i)
    BY <1>1, <1>10, <2>3 DEF EvidenceIsRead
  <2>5. CASE q.view = "query_results"
    BY <1>7, <2>4, <2>5, RowsOutliveFinish
  <2>6. CASE q.view # "query_results"
    <3>1. q.view \in RecordViews /\ q.view \in EvidenceViews
      BY <2>2, <2>6 DEF PageViews, EvidenceViews, Views, RecordViews, LogViews, LedgerViews, SingleViews
    <3>2. Records(q.view) = <<>>
      BY <1>3 DEF Records
    <3>3. Len(ViewHits(q)) = 0
      BY <1>1, <3>1, <3>2, HitsAreListed
    <3>4. d = NoCursor
      BY <2>4, <3>3 DEF Reads, CursorOk
    <3>5. i = <<>>
      BY <1>1, <1>3, <1>10, <3>4 DEF ClientOk
    <3> QED
      BY <3>4, <3>5, NothingIsReadNext
  <2> QED
    BY <2>5, <2>6
<1> QED
  BY <1>7, <1>8, <1>9, <1>10, EvidenceStepKeeps

LEMMA ExpireKeeps ==
    ASSUME WalkInvariant, Expire
    PROVE  WalkInvariant'
<1>1. inv \in Evidence /\ ClientOk /\ client.changed \in BOOLEAN
  BY DEF WalkInvariant, ClientOk
<1>2. inv' = [inv EXCEPT !.state = "gone"] /\ ledger' = ledger /\ client' = client
  BY DEF Expire
<1>3. inv' \in Evidence /\ inv'.state = "gone"
  BY <1>1, <1>2 DEF Evidence
<1>4. CountHolds' /\ ~Intact'
  BY <1>3 DEF CountHolds, Intact
<1>5. SameWalk(client.changed)
  BY <1>1, <1>2 DEF SameWalk, ClientOk
<1> QED
  BY <1>1, <1>3, <1>4, <1>5, EvidenceStepKeeps

\* A step that changes nothing, as when the walk is over.
LEMMA StutterKeeps ==
    ASSUME WalkInvariant, UNCHANGED vars
    PROVE  WalkInvariant'
<1>1. inv \in Evidence /\ ClientOk /\ EvidenceIsRead /\ client.changed \in BOOLEAN /\ CountHolds
  BY DEF WalkInvariant, ClientOk
<1>2. inv' = inv /\ ledger' = ledger /\ client' = client
  BY DEF vars
<1>3. SameWalk(client.changed)
  BY <1>1, <1>2 DEF SameWalk, ClientOk
<1>4. ASSUME NEW q, q = client.req, NEW d, d = client.cursor, NEW i, i = client.items, Intact'
      PROVE  Reads(q, d, i)'
  <2>1. Intact
    BY <1>2, <1>4 DEF Intact
  <2>2. Reads(q, d, i)
    BY <1>1, <1>4, <2>1 DEF EvidenceIsRead
  <2> QED
    BY <1>2, <2>2, EvidenceStays
<1>5. CountHolds'
  BY <1>1, <1>2 DEF CountHolds
<1> QED
  BY <1>1, <1>2, <1>3, <1>4, <1>5, EvidenceStepKeeps

-----------------------------------------------------------------------------
(***************************************************************************)
(* The steps of the ledger.                                                *)
(***************************************************************************)
LEMMA LedgerStepKeeps ==
    ASSUME WalkInvariant, InLedger, inv' = inv, IsLedger(ledger)',
           NEW S, S \subseteq client.steady, S \subseteq DOMAIN ledger',
           client' = [client EXCEPT !.steady = S],
           \A k \in S : ledger'[k] = ledger[k]
    PROVE  WalkInvariant'
<1>1. /\ inv \in Evidence /\ client.steady \subseteq DOMAIN ledger
      /\ ClientOk /\ Named(client.req, client.cursor) /\ CursorCounts(client.cursor)
      /\ CountHolds /\ CursorStaysInItsWalk
  BY DEF WalkInvariant
<1>2. client.status = "walking" /\ client.req.view \in LedgerViews /\ LedgerIsRead
  BY DEF InLedger, WalkInvariant
<1>3. /\ client'.req = client.req /\ client'.cursor = client.cursor
      /\ client'.items = client.items /\ client'.page = client.page
      /\ client'.status = client.status /\ client'.steady = S
      /\ client'.changed = client.changed
      /\ client' = [req |-> client'.req, cursor |-> client'.cursor, items |-> client'.items,
                    page |-> client'.page, status |-> client'.status,
                    steady |-> client'.steady, changed |-> client'.changed]
  BY <1>1 DEF ClientOk
<1>4. ClientOk'
  BY <1>1, <1>3 DEF ClientOk
<1>5. EvidenceIsRead'
  <2>1. ~Intact'
    BY <1>2, <1>3 DEF Intact, PageViews, EvidenceViews
  <2> QED
    BY <2>1 DEF EvidenceIsRead
<1>6. LedgerIsRead'
  <2>1. /\ Descends(client.items) /\ Reaches(client.items, client.cursor)
        /\ LedgerCursorOk(client.req, client.cursor)
    BY <1>2 DEF LedgerIsRead
  <2>2. ASSUME NEW q, q = client.req, NEW key \in S, LedgerHit(q, key)', key \in LedgerSet(q)',
               Past(key)'
        PROVE  Holds(client.items, key)
    <3>1. ledger'[key] = ledger[key] /\ key \in DOMAIN ledger /\ key \in client.steady
      BY <1>1
    <3>2. LedgerHit(q, key)
      BY <2>2, <3>1 DEF LedgerHit
    <3>3. key \in LedgerSet(q)
      BY <2>2, <3>1 DEF LedgerSet, InWorkspace
    <3>4. Past(key)
      BY <1>3, <2>2 DEF Past
    <3> QED
      BY <1>2, <2>2, <3>1, <3>2, <3>3, <3>4 DEF LedgerIsRead
  <2> QED
    BY <1>3, <2>1, <2>2 DEF LedgerIsRead
<1>7. inv' \in Evidence /\ CountHolds'
  BY <1>1 DEF CountHolds
<1>8. CursorStaysInItsWalk'
  BY <1>1, <1>3 DEF CursorStaysInItsWalk
<1> QED
  BY <1>1, <1>3, <1>4, <1>5, <1>6, <1>7, <1>8 DEF WalkInvariant

LEMMA EnterKeeps ==
    ASSUME WalkInvariant, NEW key \in Keys, NEW entry \in Entries, Enter(key, entry)
    PROVE  WalkInvariant'
<1>1. IsLedger(ledger) /\ client.steady \subseteq DOMAIN ledger /\ ClientOk
  BY DEF WalkInvariant
<1>2. /\ InLedger /\ key \notin DOMAIN ledger /\ inv' = inv /\ client' = client
      /\ ledger' = [k \in DOMAIN ledger \cup {key} |-> IF k = key THEN entry ELSE ledger[k]]
  BY DEF Enter
<1>3. DOMAIN ledger' = DOMAIN ledger \cup {key}
      /\ \A k \in DOMAIN ledger : ledger'[k] = ledger[k]
  BY <1>2
<1>4. IsLedger(ledger)'
  <2>1. IsFiniteSet(DOMAIN ledger')
    BY <1>1, <1>3, FS_AddElement DEF IsLedger
  <2>2. DOMAIN ledger' \subseteq Keys
    BY <1>1, <1>3 DEF IsLedger
  <2>3. \A k \in DOMAIN ledger : ledger[k] \in Entries
    BY <1>1 DEF IsLedger
  <2>4. ledger' \in [DOMAIN ledger' -> Entries]
    BY <1>2, <1>3, <2>3
  <2> QED
    BY <2>1, <2>2, <2>4 DEF IsLedger
<1>5. PICK S : S = client.steady
  OBVIOUS
<1>6. client' = [client EXCEPT !.steady = S]
  BY <1>1, <1>2, <1>5 DEF ClientOk
<1>7. S \subseteq client.steady /\ S \subseteq DOMAIN ledger' /\ \A k \in S : ledger'[k] = ledger[k]
  BY <1>1, <1>3, <1>5
<1> QED
  BY <1>2, <1>4, <1>6, <1>7, LedgerStepKeeps

LEMMA LeaveKeeps ==
    ASSUME WalkInvariant, NEW key \in Keys, Leave(key)
    PROVE  WalkInvariant'
<1>1. IsLedger(ledger) /\ client.steady \subseteq DOMAIN ledger /\ ClientOk
  BY DEF WalkInvariant
<1>2. PICK S : S = client.steady \ {key}
  OBVIOUS
<1>3. /\ InLedger /\ inv' = inv /\ client' = [client EXCEPT !.steady = S]
      /\ ledger' = [k \in DOMAIN ledger \ {key} |-> ledger[k]]
  BY <1>2 DEF Leave
<1>4. DOMAIN ledger' = DOMAIN ledger \ {key}
      /\ \A k \in DOMAIN ledger \ {key} : ledger'[k] = ledger[k]
  BY <1>3
<1>5. IsLedger(ledger)'
  <2>1. IsFiniteSet(DOMAIN ledger')
    BY <1>1, <1>4, FS_Subset DEF IsLedger
  <2>2. DOMAIN ledger' \subseteq Keys
    BY <1>1, <1>4 DEF IsLedger
  <2>3. \A k \in DOMAIN ledger : ledger[k] \in Entries
    BY <1>1 DEF IsLedger
  <2>4. ledger' \in [DOMAIN ledger' -> Entries]
    BY <1>3, <1>4, <2>3
  <2> QED
    BY <2>1, <2>2, <2>4 DEF IsLedger
<1>6. S \subseteq client.steady /\ S \subseteq DOMAIN ledger' /\ \A k \in S : ledger'[k] = ledger[k]
  BY <1>1, <1>2, <1>4
<1> QED
  BY <1>3, <1>5, <1>6, LedgerStepKeeps

LEMMA TurnKeeps ==
    ASSUME WalkInvariant, NEW key \in Keys, Turn(key)
    PROVE  WalkInvariant'
<1>1. IsLedger(ledger) /\ client.steady \subseteq DOMAIN ledger /\ ClientOk
  BY DEF WalkInvariant
<1>2. PICK S : S = client.steady \ {key}
  OBVIOUS
<1>3. /\ InLedger /\ inv' = inv /\ client' = [client EXCEPT !.steady = S]
      /\ key \in DOMAIN ledger /\ ledger' = [ledger EXCEPT ![key].hit = ~@]
  BY <1>2 DEF Turn
<1>4. \A k \in DOMAIN ledger : ledger[k] \in Entries
  BY <1>1 DEF IsLedger
<1>5. PICK entry : entry = [ledger[key] EXCEPT !.hit = ~@]
  OBVIOUS
<1>6. entry \in Entries
  <2>1. ledger[key] \in [ws : {"w1", "w2"}, hit : BOOLEAN]
    BY <1>3, <1>4 DEF Entries
  <2> QED
    BY <1>5, <2>1 DEF Entries
<1>7. ledger' = [ledger EXCEPT ![key] = entry]
  BY <1>3, <1>5
<1>8. DOMAIN ledger' = DOMAIN ledger
      /\ \A k \in DOMAIN ledger \ {key} : ledger'[k] = ledger[k]
  BY <1>7
<1>9. IsLedger(ledger)'
  <2>1. ledger \in [DOMAIN ledger -> Entries]
    BY <1>1 DEF IsLedger
  <2>2. ledger' \in [DOMAIN ledger' -> Entries]
    BY <1>3, <1>6, <1>7, <1>8, <2>1
  <2> QED
    BY <1>1, <1>8, <2>2 DEF IsLedger
<1>10. S \subseteq client.steady /\ S \subseteq DOMAIN ledger' /\ \A k \in S : ledger'[k] = ledger[k]
  BY <1>1, <1>2, <1>8
<1> QED
  BY <1>3, <1>9, <1>10, LedgerStepKeeps

-----------------------------------------------------------------------------
(***************************************************************************)
(* The theorems.                                                           *)
(***************************************************************************)
LEMMA WalkBegins ==
    Init => WalkInvariant
<1> SUFFICES ASSUME Init PROVE WalkInvariant
  OBVIOUS
<1>1. /\ client.req \in Requests /\ client.cursor = NoCursor /\ client.items = <<>>
      /\ client.status = "walking" /\ client.steady = {} /\ client.changed = FALSE
      /\ client = [req |-> client.req, cursor |-> client.cursor, items |-> client.items,
                   page |-> client.page, status |-> client.status,
                   steady |-> client.steady, changed |-> client.changed]
      /\ inv \in Invocations[client.req.view] /\ ledger \in Ledgers[client.req.view]
  BY DEF Init
<1>2. client.req.view \in Views
  BY <1>1, RequestsAreKnown
<1>3. inv \in Evidence /\ IsLedger(ledger) /\ CountHolds
  BY <1>1, <1>2, EvidenceAssumption DEF CountHolds
<1>4. ClientOk
  BY <1>1 DEF ClientOk
<1>5. Named(client.req, client.cursor) /\ CursorCounts(client.cursor) /\ CursorStaysInItsWalk
  BY <1>1 DEF Named, CursorCounts, CursorStaysInItsWalk, NoCursor
<1>6. EvidenceIsRead
  BY <1>1, NothingIsRead DEF EvidenceIsRead
<1>7. LedgerIsRead
  BY <1>1 DEF LedgerIsRead, Descends, Reaches, LedgerCursorOk, NoCursor
<1> QED
  BY <1>1, <1>3, <1>4, <1>5, <1>6, <1>7 DEF WalkInvariant

LEMMA WalkGoesOn ==
    WalkInvariant /\ [Next]_vars => WalkInvariant'
<1> SUFFICES ASSUME WalkInvariant, [Next]_vars PROVE WalkInvariant'
  OBVIOUS
<1>1. ASSUME NEW limit \in Limits, NEW budget \in Budgets, Ask(limit, budget)
      PROVE  WalkInvariant'
  BY <1>1, AskKeeps
<1>2. ASSUME NEW req \in Requests \cup OfAnother, Confuse(req) PROVE WalkInvariant'
  BY <1>2, ConfuseKeeps
<1>3. ASSUME NEW byte \in Bytes, WriteByte(byte) PROVE WalkInvariant'
  BY <1>3, WriteByteKeeps
<1>4. ASSUME NEW stream \in {"out", "err"}, NEW line \in Lines, WriteLine(stream, line)
      PROVE  WalkInvariant'
  BY <1>4, WriteLineKeeps
<1>5. ASSUME NEW failed \in BOOLEAN, Finish(failed) PROVE WalkInvariant'
  BY <1>5, FinishKeeps
<1>6. CASE Expire
  BY <1>6, ExpireKeeps
<1>7. ASSUME NEW key \in Keys, NEW entry \in Entries, Enter(key, entry) PROVE WalkInvariant'
  BY <1>7, EnterKeeps
<1>8. ASSUME NEW key \in Keys, Leave(key) PROVE WalkInvariant'
  BY <1>8, LeaveKeeps
<1>9. ASSUME NEW key \in Keys, Turn(key) PROVE WalkInvariant'
  BY <1>9, TurnKeeps
<1>10. CASE Stop \/ UNCHANGED vars
  BY <1>10, StutterKeeps DEF Stop
<1> QED
  BY <1>1, <1>2, <1>3, <1>4, <1>5, <1>6, <1>7, <1>8, <1>9, <1>10 DEF Next

\* The inductive invariant holds in every state of every walk.
THEOREM WalkInvariantHolds ==
    Spec => []WalkInvariant
  BY WalkBegins, WalkGoesOn, PTL DEF Spec

LEMMA NoGap ==
    ASSUME WalkInvariant
    PROVE  NoGapNoRepeat
<1> SUFFICES ASSUME client.status = "walking", client.cursor # NoCursor,
                    client.req.view \in EvidenceViews, inv.state # "gone", Reliable
             PROVE  /\ client.items = ItemsUpto(client.req, Ordinal(client.cursor))
                    /\ client.cursor.kind = "file" =>
                          client.cursor.at = RowsOf(0)[Ordinal(client.cursor)].end
  BY DEF NoGapNoRepeat
<1>1. Intact
  BY DEF Intact, PageViews, Reliable
<1>2. PICK r, c, i : r = client.req /\ c = client.cursor /\ i = client.items
  OBVIOUS
<1>3. Reads(r, c, i)
  BY <1>1, <1>2 DEF WalkInvariant, EvidenceIsRead
<1>4. CursorOk(r, c) /\ i = ItemsUpto(r, From(c)) /\ c # NoCursor /\ r.view \in PageViews
  BY <1>1, <1>2, <1>3 DEF Reads, Intact
<1>5. i = ItemsUpto(r, Ordinal(c))
  BY <1>4 DEF From
<1>6. ASSUME c.kind = "file" PROVE c.at = RowsOf(0)[Ordinal(c)].end
  <2>1. WalkKind(r) = "file"
    BY <1>4, <1>6 DEF CursorOk
  <2>2. r.view = "query_results"
    BY <1>4, <2>1 DEF WalkKind, PageViews, EvidenceViews, Views, LedgerViews, SingleViews
  <2>3. RowOk(r, c)
    BY <1>4, <2>2 DEF CursorOk
  <2> QED
    BY <1>6, <2>3 DEF RowOk, Ordinal
<1> QED
  BY <1>2, <1>5, <1>6

LEMMA LedgerIsWhole ==
    ASSUME WalkInvariant
    PROVE  LedgerReadsEveryEntry
<1> SUFFICES ASSUME client.req.view \in LedgerViews
             PROVE  /\ \A i \in 1 .. Len(client.items) - 1 :
                          KeyBelow(client.items[i + 1], client.items[i])
                    /\ \A key \in client.steady :
                          LedgerHit(client.req, key) /\ Listed(client.req, key) /\ Passed(key)
                            => Contains(client.items, key)
  BY DEF LedgerReadsEveryEntry
<1>1. PICK r, items : r = client.req /\ items = client.items
  OBVIOUS
<1>2. IsLedger(ledger) /\ Descends(items)
      /\ \A key \in client.steady :
            LedgerHit(r, key) /\ key \in LedgerSet(r) /\ Past(key) => Holds(items, key)
  BY <1>1 DEF WalkInvariant, LedgerIsRead
<1>3. \A i \in 1 .. Len(items) - 1 : KeyBelow(items[i + 1], items[i])
  <2>1. Len(items) \in Nat
    BY <1>2 DEF Descends
  <2>2. TAKE i \in 1 .. Len(items) - 1
  <2>3. PICK j \in Int : j = i + 1
    BY <2>1
  <2>4. i \in 1 .. Len(items) /\ j \in 1 .. Len(items) /\ i < j
    BY <2>1, <2>3
  <2> QED
    BY <1>2, <2>3, <2>4 DEF Descends
<1>4. ASSUME NEW key \in client.steady, LedgerHit(r, key), Listed(r, key), Passed(key)
      PROVE  Contains(items, key)
  <2>1. PICK S : S = LedgerSet(r)
    OBVIOUS
  <2>2. S \subseteq Nat \X Nat /\ IsFiniteSet(S) /\ LedgerKeys(r) = Ordered(S)
    BY <1>2, <2>1, LedgerIsListed
  <2>3. PICK f : f = Ordered(S)
    OBVIOUS
  <2>4. key \in S
    <3>1. PICK i \in 1 .. Len(f) : f[i] = key
      BY <1>4, <2>2, <2>3 DEF Listed, Contains
    <3>2. f \in Seq(S)
      <4>1. PICK k \in Nat : k = Cardinality(S)
        BY <2>2, FS_CardinalityType
      <4>2. f \in [1 .. k -> S]
        BY <2>2, <2>3, <4>1, OrderedLists
      <4> QED
        BY <4>2, ListIsSeq
    <3> QED
      BY <3>1, <3>2
  <2>5. Past(key)
    BY <1>4 DEF Passed, Past
  <2>6. Holds(items, key)
    BY <1>2, <1>4, <2>1, <2>4, <2>5
  <2> QED
    BY <2>6 DEF Holds, Contains
<1> QED
  BY <1>1, <1>3, <1>4

\* The inductive invariant is as strong as what the run checks.
LEMMA WalkIsRead ==
    WalkInvariant => TypeOK /\ NothingIsSkipped /\ CursorStaysInItsWalk
<1> SUFFICES ASSUME WalkInvariant PROVE TypeOK /\ NothingIsSkipped /\ CursorStaysInItsWalk
  OBVIOUS
<1>1. DOMAIN ledger \subseteq Keys
  BY DEF WalkInvariant, IsLedger
<1>2. TypeOK
  BY <1>1 DEF WalkInvariant, TypeOK, ClientOk, CursorCounts
<1>3. NothingIsSkipped
  BY NoGap, LedgerIsWhole DEF NothingIsSkipped
<1> QED
  BY <1>2, <1>3 DEF WalkInvariant

\* Every variable keeps its type, and a file cursor counts the rows it has passed
\* (QueryFileCursor).
THEOREM WalkTypes ==
    Spec => []TypeOK
  BY WalkInvariantHolds, WalkIsRead, PTL

\* A walk shows every matching item up to its cursor, once and in order, and every
\* entry of the ledger that was there all along, for any evidence, limits and
\* budgets (page_records, page_query_file_from_cursor, page_evidence_records,
\* truncate_items, list_invocations, list_deferred_results).
THEOREM NoItemIsSkipped ==
    Spec => []NothingIsSkipped
  BY WalkInvariantHolds, WalkIsRead, PTL

\* A cursor used in another walk yields no page of it, but for the coverage view
\* (decode_for).
THEOREM CursorsStayInTheirWalk ==
    Spec => []CursorStaysInItsWalk
  BY WalkInvariantHolds, WalkIsRead, PTL

LEMMA AllAreCounted ==
    ASSUME NEW r, Len(ViewHits(r)) \in Nat
    PROVE  Len(AllItems(r)) = Cardinality(HitsIn(ViewHits(r), 1, Len(ViewHits(r))))
<1>1. PICK n \in Nat : n = Len(ViewHits(r))
  OBVIOUS
<1>2. PICK T : T = HitsIn(ViewHits(r), 1, n)
  OBVIOUS
<1>3. T \subseteq Int /\ IsFiniteSet(T)
  <2>1. PICK o \in Int : o = 1
    OBVIOUS
  <2> QED
    BY <1>2, <2>1, HitsAreFinite
<1>4. PICK k \in Nat : k = Cardinality(T)
  BY <1>3, FS_CardinalityType
<1>5. DOMAIN InOrder(T) = 1 .. k
  BY <1>3, <1>4 DEF InOrder
<1>6. PICK hits : hits = InOrder(T)
  OBVIOUS
<1>7. AllItems(r) = [i \in 1 .. k |-> Shown(r, hits[i])]
  BY <1>1, <1>2, <1>5, <1>6 DEF AllItems, ItemsUpto
<1>8. PICK f : f = [i \in 1 .. k |-> Shown(r, hits[i])]
  OBVIOUS
<1>9. PICK V : V = {Shown(r, hits[i]) : i \in 1 .. k}
  OBVIOUS
<1>10. f \in [1 .. k -> V]
  BY <1>8, <1>9
<1>11. Len(f) = k
  BY <1>10, ListIsSeq
<1> QED
  BY <1>1, <1>2, <1>4, <1>7, <1>8, <1>11

\* What a step says of the page it received.
Whole ==
    /\ client.status = "walking" /\ client'.status = "done"
    /\ client.req.view \in EvidenceViews /\ Reliable
    /\ ~client'.page.truncated
    => client'.items = AllItems(client.req)

Counted ==
    /\ client'.page # client.page /\ Reliable
    /\ client.req.view \in RecordViews \cup {"query_results"}
    => /\ client'.page.total \in
             {Unknown, IF client.req.view = "query_results"
                       THEN Len(RowsOf(0)) ELSE Len(Records(client.req.view))}
       /\ client'.page.filtered \in {Unknown, Len(AllItems(client.req))}

\* Only a response changes the page or the cursor, or ends the walk.
LEMMA OnlyAskReceives ==
    ASSUME [Next]_vars, ClientOk,
           ~\E limit \in Limits, budget \in Budgets : Ask(limit, budget)
    PROVE  /\ client'.page = client.page /\ client'.req = client.req
           /\ client'.cursor = client.cursor
           /\ client'.status = "done" => client.status = "done"
<1>1. client = [req |-> client.req, cursor |-> client.cursor, items |-> client.items,
                page |-> client.page, status |-> client.status, steady |-> client.steady,
                changed |-> client.changed]
  BY DEF ClientOk
<1>2. ASSUME NEW s, client' = [client EXCEPT !.status = s], s # "done"
      PROVE  /\ client'.page = client.page /\ client'.req = client.req
             /\ client'.cursor = client.cursor /\ client'.status # "done"
  BY <1>1, <1>2
<1>3. ASSUME NEW c, client' = [client EXCEPT !.changed = c]
      PROVE  /\ client'.page = client.page /\ client'.req = client.req
             /\ client'.cursor = client.cursor /\ client'.status = client.status
  BY <1>1, <1>3
<1>4. ASSUME NEW s, client' = [client EXCEPT !.steady = s]
      PROVE  /\ client'.page = client.page /\ client'.req = client.req
             /\ client'.cursor = client.cursor /\ client'.status = client.status
  BY <1>1, <1>4
<1>5. ASSUME NEW req \in Requests \cup OfAnother, Confuse(req)
      PROVE  /\ client'.page = client.page /\ client'.req = client.req
             /\ client'.cursor = client.cursor /\ client'.status # "done"
  <2>1. PICK s \in {"refused", "walking", "confused"} : client' = [client EXCEPT !.status = s]
    BY <1>5 DEF Confuse
  <2> QED
    BY <1>2, <2>1
<1>6. ASSUME NEW byte \in Bytes, WriteByte(byte) PROVE client' = client
  BY <1>6 DEF WriteByte
<1>7. ASSUME NEW stream \in {"out", "err"}, NEW line \in Lines, WriteLine(stream, line)
      PROVE  \E c : client' = [client EXCEPT !.changed = c]
  BY <1>7 DEF WriteLine
<1>8. ASSUME NEW failed \in BOOLEAN, Finish(failed)
      PROVE  \E c : client' = [client EXCEPT !.changed = c]
  BY <1>8 DEF Finish
<1>9. CASE Expire
  BY <1>9 DEF Expire
<1>10. ASSUME NEW key \in Keys, NEW entry \in Entries, Enter(key, entry)
       PROVE  client' = client \/ \E s : client' = [client EXCEPT !.steady = s]
  BY <1>10 DEF Enter
<1>11. ASSUME NEW key \in Keys, Leave(key)
       PROVE  \E s : client' = [client EXCEPT !.steady = s]
  BY <1>11 DEF Leave
<1>12. ASSUME NEW key \in Keys, Turn(key)
       PROVE  \E s : client' = [client EXCEPT !.steady = s]
  BY <1>12 DEF Turn
<1>13. CASE Stop \/ UNCHANGED vars
  BY <1>13 DEF Stop, vars
<1> QED
  BY <1>3, <1>4, <1>5, <1>6, <1>7, <1>8, <1>9, <1>10, <1>11, <1>12, <1>13 DEF Next

LEMMA AskIsTrue ==
    ASSUME WalkInvariant, NEW limit \in Limits, NEW budget \in Budgets, Ask(limit, budget)
    PROVE  Whole /\ Counted
<1>1. PICK answer : answer = BazelInspect(client.req, client.cursor, limit, budget)
  OBVIOUS
<1>2. client.status = "walking" /\ Receive(answer)
  BY <1>1 DEF Ask
<1>3. PICK page : page = answer.page
  OBVIOUS
<1>4. ClientOk /\ inv \in Evidence /\ limit \in Nat
  BY EvidenceAssumption DEF WalkInvariant
<1>5. CASE answer.error
  <2>1. client' = [client EXCEPT !.status = "refused"]
    BY <1>2, <1>5 DEF Receive
  <2>2. client'.page = client.page /\ client'.status = "refused"
    BY <1>4, <2>1 DEF ClientOk
  <2> QED
    BY <2>2 DEF Whole, Counted
<1>6. CASE ~answer.error
  <2>1. /\ client'.items = client.items \o page.items
        /\ client'.page = [total |-> page.total, filtered |-> page.filtered,
                           truncated |-> page.truncated]
    BY <1>2, <1>3, <1>4, <1>6 DEF Receive, ClientOk
  <2>2. ASSUME client.req.view \in EvidenceViews, Reliable
        PROVE  Continues(client.req, client.cursor, client.items, page)
    <3>1. client.req.view \in PageViews /\ (client.req.view \in LogViews => ~client.changed)
      BY <2>2 DEF PageViews, Reliable
    <3> QED
      BY <1>1, <1>2, <1>3, <1>4, <1>6, <3>1, AskContinues
  <2>3. Whole
    <3>1. SUFFICES ASSUME client.req.view \in EvidenceViews, Reliable, ~client'.page.truncated
                   PROVE  client'.items = AllItems(client.req)
      BY Zenon DEF Whole
    <3>2. client'.page.truncated = page.truncated
      BY <2>1
    <3>3. ~page.truncated
      BY <3>1, <3>2, Zenon
    <3>4. client.items \o page.items = AllItems(client.req)
      BY <2>2, <3>1, <3>3, Zenon DEF Continues
    <3> QED
      BY <2>1, <3>4
  <2>4. Counted
    <3>1. SUFFICES ASSUME Reliable, client.req.view \in RecordViews \cup {"query_results"}
                   PROVE  /\ page.total \in
                                {Unknown, IF client.req.view = "query_results"
                                          THEN Len(RowsOf(0)) ELSE Len(Records(client.req.view))}
                          /\ page.filtered \in {Unknown, Len(AllItems(client.req))}
      BY <2>1 DEF Counted
    <3>2. client.req.view \in EvidenceViews /\ CountedView(client.req)
      BY <3>1 DEF EvidenceViews, Views, RecordViews, LedgerViews, SingleViews, CountedView
    <3>3. CountsOk(client.req, page)
      BY <2>2, <3>1, <3>2 DEF Continues
    <3>4. PICK r : r = client.req
      OBVIOUS
    <3>5. Len(AllItems(r)) = Cardinality(HitsIn(ViewHits(r), 1, Len(ViewHits(r))))
      BY <1>4, <3>2, <3>4, HitsAreListed, AllAreCounted
    <3> QED
      BY <3>3, <3>4, <3>5 DEF CountsOk
  <2> QED
    BY <2>3, <2>4
<1> QED
  BY <1>5, <1>6

LEMMA PageIsTrue ==
    WalkInvariant /\ [Next]_vars => [Whole]_vars /\ [Counted]_vars
<1> SUFFICES ASSUME WalkInvariant, [Next]_vars PROVE Whole /\ Counted
  OBVIOUS
<1>1. CASE \E limit \in Limits, budget \in Budgets : Ask(limit, budget)
  BY <1>1, AskIsTrue
<1>2. CASE ~\E limit \in Limits, budget \in Budgets : Ask(limit, budget)
  <2>1. client'.page = client.page /\ (client'.status = "done" => client.status = "done")
    BY <1>2, OnlyAskReceives DEF WalkInvariant
  <2> QED
    BY <2>1 DEF Whole, Counted
<1> QED
  BY <1>1, <1>2

\* A walk whose last page is not truncated has read every matching item, and the
\* counts of a page are those of the evidence (Page.truncated, total_count,
\* filtered_count).
THEOREM PagesSpeakTrue ==
    Spec => PagesAreTrue
<1>1. [][Whole]_vars => UntruncatedIsWhole
  BY PTL DEF Whole, UntruncatedIsWhole
<1>2. [][Counted]_vars => CountsAreTrue
  BY PTL DEF Counted, CountsAreTrue
<1> QED
  BY <1>1, <1>2, WalkInvariantHolds, PageIsTrue, PTL DEF Spec, PagesAreTrue

-----------------------------------------------------------------------------
(***************************************************************************)
(* A log begins with the failure.                                          *)
(***************************************************************************)

\* The least of the positions chosen comes first.
LEMMA FirstChosen ==
    ASSUME NEW S, S \subseteq Int, IsFiniteSet(S), NEW x \in S
    PROVE  Cardinality(S) \in Nat \ {0} /\ InOrder(S)[1] \in S /\ InOrder(S)[1] <= x
<1>1. PICK k \in Nat : k = Cardinality(S)
  BY FS_CardinalityType
<1>2. PICK f : f = InOrder(S)
  OBVIOUS
<1>3. /\ f \in [1 .. k -> S] /\ (\E n \in 1 .. k : f[n] = x)
      /\ \A m, n \in 1 .. k : m < n => f[m] < f[n]
  BY <1>1, <1>2, InOrderLists
<1>4. PICK n \in 1 .. k : f[n] = x
  BY <1>3
<1>5. PICK o \in Int : o = 1
  OBVIOUS
<1>6. k # 0 /\ o \in 1 .. k
  BY <1>4, <1>5
<1>7. f[o] \in S /\ f[o] <= x
  <2>1. CASE n = o
    BY <1>3, <1>4, <1>6, <2>1
  <2>2. CASE n # o
    <3>1. o < n
      BY <1>5, <2>2
    <3>2. f[o] < f[n] /\ f[o] \in S
      BY <1>3, <1>6, <3>1
    <3>3. f[o] < x /\ f[o] \in Int /\ x \in Int
      BY <1>4, <3>2
    <3> QED
      BY <3>2, <3>3
  <2> QED
    BY <2>1, <2>2
<1> QED
  BY <1>1, <1>2, <1>5, <1>6, <1>7

\* A part of a sequence from its first element on begins with it.
LEMMA PartBegins ==
    ASSUME NEW V, NEW seq \in Seq(V), seq # <<>>, NEW n \in Nat \ {0}
    PROVE  Upto(seq, n) \in Seq(V) /\ Upto(seq, n) # <<>> /\ Upto(seq, n)[1] = seq[1]
<1>1. PICK m \in Nat : m = IF Len(seq) < n THEN Len(seq) ELSE n
  OBVIOUS
<1>2. m \in 1 .. Len(seq)
  BY <1>1
<1>3. SubSeq(seq, 1, m) \in Seq(V) /\ Len(SubSeq(seq, 1, m)) = m /\ SubSeq(seq, 1, m)[1] = seq[1]
  BY <1>2
<1>4. Upto(seq, n) = SubSeq(seq, 1, m)
  BY <1>1 DEF Upto
<1>5. SubSeq(seq, 1, m) # <<>>
  BY <1>2, <1>3
<1> QED
  BY <1>3, <1>4, <1>5

\* The actionable records come first, whatever the caps on the others.
LEMMA ActionableLeads ==
    ASSUME NEW records \in Seq(EvidenceRecords), NEW i \in DOMAIN records, IsActionable(records[i])
    PROVE  IsActionable(SortedEvidence(records)[1])
<1> DEFINE act == {j \in DOMAIN records : IsActionable(records[j])}
           R == EvidenceRecords
<1>1. i \in act /\ act \subseteq DOMAIN records /\ DOMAIN records \ act \subseteq DOMAIN records
      /\ \A j \in act : IsActionable(records[j])
  OBVIOUS
<1>2. DOMAIN records = 1 .. Len(records) /\ Len(records) \in Nat
  OBVIOUS
<1> HIDE DEF act, R
<1>3. act \subseteq Int /\ IsFiniteSet(act)
  BY <1>1, <1>2, PositionsAreFinite
<1>4. PICK f : f = InOrder(act)
  OBVIOUS
<1>5. Cardinality(act) \in Nat \ {0} /\ f[1] \in act
  BY <1>1, <1>3, <1>4, FirstChosen
<1>6. PICK first : first = Chosen(records, act)
  OBVIOUS
<1>7. PICK rest : rest = Chosen(records, DOMAIN records \ act)
  OBVIOUS
<1>8. first \in Seq(R) /\ rest \in Seq(R)
  BY <1>1, <1>6, <1>7, ChosenIsSeq DEF R
<1>9. DOMAIN first = 1 .. Cardinality(act) /\ first[1] = records[f[1]]
  <2>1. DOMAIN f = 1 .. Cardinality(act)
    BY <1>4 DEF InOrder
  <2>2. first = [n \in DOMAIN f |-> records[f[n]]]
    BY <1>4, <1>6 DEF Chosen
  <2>3. 1 \in 1 .. Cardinality(act)
    BY <1>5
  <2> QED
    BY <2>1, <2>2, <2>3
<1>10. first # <<>> /\ IsActionable(first[1])
  BY <1>1, <1>5, <1>9
<1>11. /\ ActionableMax \in Nat \ {0} /\ FallbackMax \in Nat /\ EvidenceMax \in Nat \ {0}
  BY InspectionAssumption
<1>12. PICK lead : lead = Upto(first, ActionableMax)
  OBVIOUS
<1>13. lead \in Seq(R) /\ lead # <<>> /\ IsActionable(lead[1])
  BY <1>8, <1>10, <1>11, <1>12, PartBegins
<1>14. PICK last \in Seq(R) : last = LastOf(rest, FallbackMax)
  BY <1>8, <1>11, PartIsSeq
<1>15. PICK both : both = lead \o last
  OBVIOUS
<1>16. both \in Seq(R) /\ both # <<>> /\ both[1] = lead[1]
  BY <1>13, <1>14, <1>15
<1>17. Upto(both, EvidenceMax)[1] = both[1]
  BY <1>11, <1>16, PartBegins
<1>18. SortedEvidence(records) = Upto(both, EvidenceMax)
  BY <1>6, <1>7, <1>12, <1>14, <1>15 DEF SortedEvidence, act
<1> QED
  BY <1>13, <1>16, <1>17, <1>18, Zenon

\* Where the i-th line of a stream, the first or the second of two, stands in both
\* together: such a line is there, and alone if the streams have no other.
Stands(lines, f, g, x, side, i) ==
    \E n \in 1 .. Len(lines) :
        /\ lines[n] = x
        /\ (/\ \A j \in 1 .. Len(f) : f[j] = x => side = 1 /\ j = i
            /\ \A j \in 1 .. Len(g) : g[j] = x => side = 2 /\ j = i)
           => \A k \in 1 .. Len(lines) : lines[k] = x => k = n

LEMMA LineIsKept ==
    ASSUME NEW f \in Seq(Lines), NEW g \in Seq(Lines), NEW lines, lines = f \o g,
           NEW x, NEW side \in {1, 2}, NEW i \in Nat,
           side = 1 => i \in 1 .. Len(f) /\ f[i] = x, side = 2 => i \in 1 .. Len(g) /\ g[i] = x
    PROVE  Stands(lines, f, g, x, side, i)
<1>1. /\ lines \in Seq(Lines) /\ Len(lines) = Len(f) + Len(g)
      /\ \A n \in 1 .. Len(f) : lines[n] = f[n]
      /\ \A n \in 1 .. Len(g) : lines[Len(f) + n] = g[n]
  BY JoinedSeq
<1>2. PICK a \in Nat, b \in Nat : a = Len(f) /\ b = Len(g)
  OBVIOUS
<1>3. PICK n \in Nat : n = IF side = 1 THEN i ELSE a + i
  OBVIOUS
<1>4. n \in 1 .. Len(lines) /\ lines[n] = x
  <2>1. CASE side = 1
    BY <1>1, <1>2, <1>3, <2>1
  <2>2. CASE side = 2
    BY <1>1, <1>2, <1>3, <2>2
  <2> QED
    BY <2>1, <2>2
<1>5. ASSUME \A j \in 1 .. Len(f) : f[j] = x => side = 1 /\ j = i,
             \A j \in 1 .. Len(g) : g[j] = x => side = 2 /\ j = i,
             NEW k \in 1 .. Len(lines), lines[k] = x
      PROVE  k = n
  <2>1. CASE k \in 1 .. a
    BY <1>1, <1>2, <1>3, <1>5, <2>1
  <2>2. CASE k \notin 1 .. a
    <3>1. k \in Int /\ 1 <= k /\ k <= a + b /\ ~(k <= a)
      BY <1>1, <1>2, <2>2
    <3>2. PICK j \in Int : j = k - a
      BY <3>1
    <3>3. j \in 1 .. b /\ k = a + j
      BY ONLY <1>2, <3>1, <3>2
    <3>4. g[j] = x
      BY <1>1, <1>2, <1>5, <3>3
    <3>5. side = 2 /\ j = i
      BY <1>2, <1>5, <3>3, <3>4
    <3> QED
      BY <1>3, <3>3, <3>5
  <2> QED
    BY <2>1, <2>2
<1> QED
  BY <1>4, <1>5 DEF Stands

\* The line is actionable in what is read of the console: it is so wherever it stands
\* and however often, or it is printed once.
Reports(console, stream, i) ==
    \/ console[stream][i] = "e"
    \/ /\ console[stream][i] = "t"
       /\ \A other \in {"out", "err"} : \A j \in DOMAIN console[other] :
             console[other][j] = "t" => other = stream /\ j = i

\* Such a line of the console is one of its records, the first time it occurs.
LEMMA FailureLeads ==
    ASSUME NEW testLike, NEW failed, NEW console \in [out : Seq(Lines), err : Seq(Lines)],
           NEW stream \in {"out", "err"}, NEW i \in DOMAIN console[stream],
           Reports(console, stream, i)
    PROVE  IsActionable(FailureEvidence(testLike, failed, console)[1])
<1>1. PICK out \in Seq(Lines), err \in Seq(Lines) : out = console.out /\ err = console.err
  OBVIOUS
<1>2. PICK lines : lines = StreamOrder(testLike, failed, console.out, console.err)
  OBVIOUS
<1>x. PICK x \in {"e", "t"} : x = console[stream][i]
  BY DEF Reports
<1>3. /\ lines \in Seq(Lines)
      /\ \E n \in 1 .. Len(lines) :
            lines[n] = x /\ (x = "t" => \A k \in 1 .. Len(lines) : lines[k] = x => k = n)
  <2>1. lines = out \o err \/ lines = err \o out
    BY <1>1, <1>2, Zenon DEF StreamOrder
  <2>2. ASSUME NEW a \in {"out", "err"}, NEW b \in {"out", "err"}, a # b,
               NEW f \in Seq(Lines), NEW g \in Seq(Lines), f = console[a], g = console[b],
               lines = f \o g
        PROVE  /\ lines \in Seq(Lines)
               /\ \E n \in 1 .. Len(lines) :
                     lines[n] = x /\ (x = "t" => \A k \in 1 .. Len(lines) : lines[k] = x => k = n)
    <3>1. PICK side \in {1, 2} : side = 1 <=> stream = a
      OBVIOUS
    <3>2. DOMAIN f = 1 .. Len(f) /\ DOMAIN g = 1 .. Len(g)
      OBVIOUS
    <3>3. /\ side = 1 => i \in 1 .. Len(f) /\ f[i] = x
          /\ side = 2 => i \in 1 .. Len(g) /\ g[i] = x
      <4>1. CASE stream = a
        BY <1>x, <2>2, <3>1, <3>2, <4>1
      <4>2. CASE stream = b
        BY <1>x, <2>2, <3>1, <3>2, <4>2
      <4> QED
        BY <2>2, <4>1, <4>2
    <3>4. i \in Nat
      BY <2>2, <3>3
    <3>5. x = "t" => /\ \A j \in 1 .. Len(f) : f[j] = x => side = 1 /\ j = i
                     /\ \A j \in 1 .. Len(g) : g[j] = x => side = 2 /\ j = i
      BY <1>x, <2>2, <3>1, <3>2 DEF Reports
    <3>6. Stands(lines, f, g, x, side, i)
      <4>1. f \in Seq(Lines) /\ g \in Seq(Lines) /\ lines = f \o g /\ side \in {1, 2}
        BY <2>2
      <4> QED
        BY ONLY <3>3, <3>4, <4>1, LineIsKept, Zenon
    <3>7. lines \in Seq(Lines)
      BY <2>2, JoinedSeq
    <3> QED
      BY <3>5, <3>6, <3>7, Zenon DEF Stands
  <2>3. "out" # "err" /\ out = console["out"] /\ err = console["err"]
    BY <1>1
  <2> QED
    BY <2>1, <2>2, <2>3
<1>4. Len(lines) \in Nat /\ DOMAIN lines = 1 .. Len(lines)
      /\ \A n \in 1 .. Len(lines) : lines[n] \in Lines
  BY <1>3
<1> DEFINE E == {n \in 1 .. Len(lines) : lines[n] = x}
           S == FirstOf(lines)
<1>5. PICK m \in E : \A n \in E : m <= n
  <2>1. E \subseteq Nat
    BY <1>4
  <2>2. PICK n \in 1 .. Len(lines) : lines[n] = x
    BY <1>3
  <2>3. n \in E
    BY <2>2
  <2> HIDE DEF E
  <2> QED
    BY <2>1, <2>3, LeastNumber
<1>6. m \in S
  <2>1. m \in 1 .. Len(lines) /\ lines[m] = x
    OBVIOUS
  <2>2. ASSUME NEW j \in 1 .. m - 1 PROVE lines[j] # lines[m]
    <3>1. j \in 1 .. Len(lines) /\ ~(m <= j)
      BY <1>4, <2>1
    <3> QED
      BY <1>5, <2>1, <3>1
  <2>3. lines[m] # ""
    BY <2>1
  <2> HIDE DEF E
  <2> QED
    BY <1>4, <2>1, <2>2, <2>3 DEF FirstOf
<1>7. lines[m] = x /\ m \in 1 .. Len(lines)
  OBVIOUS
<1> HIDE DEF E
<1>8. S \subseteq 1 .. Len(lines) /\ S \subseteq Int /\ IsFiniteSet(S)
  <2>1. S \subseteq 1 .. Len(lines)
    BY <1>4 DEF FirstOf
  <2> HIDE DEF S
  <2> QED
    BY <1>4, <2>1, PositionsAreFinite
<1> HIDE DEF S
<1>9. PICK ordinals : ordinals = InOrder(S)
  OBVIOUS
<1>10. PICK k \in Nat : k = Cardinality(S)
  BY <1>8, FS_CardinalityType
<1>11. ordinals \in [1 .. k -> S] /\ \E n \in 1 .. k : ordinals[n] = m
  <2>1. /\ InOrder(S) \in [1 .. Cardinality(S) -> S]
        /\ \A y \in S : \E n \in 1 .. Cardinality(S) : InOrder(S)[n] = y
    BY <1>8, InOrderLists
  <2> QED
    BY <1>6, <1>9, <1>10, <2>1
<1>12. PICK n \in 1 .. k : ordinals[n] = m
  BY <1>11
<1>13. PICK records : records = EvidenceOf(lines, ordinals)
  OBVIOUS
<1>14. records \in Seq(EvidenceRecords)
  <2>1. \A y : Cardinality({j \in DOMAIN lines : lines[j] = y}) \in Nat
    <3>1. TAKE y
    <3>2. {j \in DOMAIN lines : lines[j] = y} \subseteq 1 .. Len(lines)
      BY <1>4
    <3> QED
      BY <1>4, <3>2, PositionsAreFinite
  <2>2. \A j \in 1 .. k : lines[ordinals[j]] \in Lines
    BY <1>4, <1>8, <1>11
  <2>3. DOMAIN ordinals = 1 .. k
    BY <1>11
  <2>4. records \in [1 .. k -> EvidenceRecords]
    BY <1>13, <2>1, <2>2, <2>3 DEF EvidenceOf, RecordAt, EvidenceRecords
  <2> QED
    BY <2>4, ListIsSeq
<1>15. n \in DOMAIN records /\ records[n] = RecordAt(lines, m)
  <2>1. DOMAIN ordinals = 1 .. k
    BY <1>11
  <2> QED
    BY <1>12, <1>13, <2>1 DEF EvidenceOf
<1>16. IsActionable(RecordAt(lines, m))
  <2>1. RecordAt(lines, m).text = x
    BY <1>7 DEF RecordAt
  <2>2. CASE x = "e"
    BY <2>1, <2>2 DEF IsActionable
  <2>3. CASE x = "t"
    <3>1. {j \in DOMAIN lines : lines[j] = lines[m]} = {m}
      BY <1>3, <1>4, <1>7, <2>3
    <3>2. Cardinality({m}) = 1
      BY FS_Singleton
    <3>3. RecordAt(lines, m).count = 1
      BY <3>1, <3>2 DEF RecordAt
    <3> QED
      BY <2>1, <2>3, <3>3 DEF IsActionable
  <2> QED
    BY <2>2, <2>3
<1>17. IsActionable(SortedEvidence(records)[1])
  <2>1. IsActionable(records[n])
    BY <1>15, <1>16
  <2> QED
    BY <1>14, <1>15, <2>1, ActionableLeads
<1>18. FailureEvidence(testLike, failed, console) = SortedEvidence(records)
  BY <1>2, <1>9, <1>13 DEF FailureEvidence, S
<1> QED
  BY <1>17, <1>18

\* The first item of an unfiltered log, if it has any.
LEMMA LogBegins ==
    ASSUME inv \in Evidence, NEW r, r.view = "log", r.filter = "none", Len(ViewHits(r)) \in Nat,
           NEW n \in 0 .. Len(ViewHits(r)), ItemsUpto(r, n) # <<>>
    PROVE  ItemsUpto(r, n)[1] = 1
<1>1. PICK hits : hits = ViewHits(r)
  OBVIOUS
<1>2. /\ hits = EvidenceHits(r, LogSource("log")) /\ Len(hits) \in Nat
  BY <1>1 DEF ViewHits, LogViews
<1>3. DOMAIN hits = DOMAIN LogSource("log") /\ hits = [j \in DOMAIN hits |-> hits[j]]
      /\ \A j \in DOMAIN hits : hits[j]
  BY <1>2 DEF EvidenceHits, LogMatches
<1>4. PICK V : LogSource("log") \in Seq(V)
  BY LogSourceIsSeq DEF LogViews
<1>5. DOMAIN hits = 1 .. Len(hits)
  <2>1. PICK records \in Seq(V) : records = LogSource("log")
    BY <1>4
  <2>2. PICK k \in Nat : DOMAIN records = 1 .. k
    OBVIOUS
  <2> QED
    BY <1>3, <2>1, <2>2
<1>6. PICK T : T = HitsIn(hits, 1, n)
  OBVIOUS
<1>7. T \subseteq 1 .. n /\ T \subseteq Int /\ IsFiniteSet(T)
  <2>1. PICK o \in Int : o = 1
    OBVIOUS
  <2> QED
    BY <1>6, <2>1, HitsAreFinite
<1>8. PICK f : f = InOrder(T)
  OBVIOUS
<1>9. ItemsUpto(r, n) = [j \in DOMAIN f |-> f[j]]
  BY <1>1, <1>6, <1>8 DEF ItemsUpto, Shown
<1>10. DOMAIN f = 1 .. Cardinality(T)
  BY <1>8 DEF InOrder
<1>11. n # 0
  <2>1. SUFFICES ASSUME n = 0 PROVE FALSE
    OBVIOUS
  <2>2. T = {}
    BY <1>7, <2>1
  <2>3. DOMAIN f = {}
    BY <1>10, <2>2, FS_EmptySet
  <2> QED
    BY <1>9, <2>3
<1>12. 1 \in T
  <2>1. 1 \in 1 .. n /\ 1 \in 1 .. Len(hits)
    BY <1>1, <1>2, <1>11
  <2> QED
    BY <1>3, <1>5, <1>6, <2>1 DEF HitsIn
<1>13. PICK o \in Int : o = 1
  OBVIOUS
<1>14. Cardinality(T) \in Nat \ {0} /\ f[1] \in T /\ f[1] <= o
  BY <1>7, <1>8, <1>12, <1>13, FirstChosen
<1>15. f[1] = 1 /\ 1 \in DOMAIN f
  <2>1. PICK x \in Int : x = f[1]
    BY <1>7, <1>14
  <2>2. x >= 1 /\ x <= 1
    BY <1>7, <1>13, <1>14, <2>1
  <2>3. x = 1
    BY <2>2
  <2>4. 1 \in DOMAIN f
    BY <1>10, <1>14
  <2> QED
    BY <2>1, <2>3, <2>4
<1> QED
  BY <1>9, <1>15

\* A walk through an unfiltered log starts at its first record.
LogStarts ==
    /\ client.req.view = "log" /\ client.req.filter = "none" /\ ~client.changed
    /\ inv.state # "gone" /\ client.items # <<>>
    => client.items[1] = 1

LEMMA AskStarts ==
    ASSUME WalkInvariant, LogStarts, NEW limit \in Limits, NEW budget \in Budgets,
           Ask(limit, budget)
    PROVE  LogStarts'
<1>1. PICK answer : answer = BazelInspect(client.req, client.cursor, limit, budget)
  OBVIOUS
<1>2. client.status = "walking" /\ Receive(answer) /\ inv' = inv
  BY <1>1 DEF Ask
<1>3. ClientOk /\ inv \in Evidence /\ limit \in Nat
  BY EvidenceAssumption DEF WalkInvariant
<1>4. CASE answer.error
  <2>1. client' = [client EXCEPT !.status = "refused"]
    BY <1>2, <1>4 DEF Receive
  <2>2. client'.req = client.req /\ client'.items = client.items
        /\ client'.changed = client.changed
    BY <1>3, <2>1 DEF ClientOk
  <2> QED
    BY <1>2, <2>2 DEF LogStarts
<1>5. CASE ~answer.error
  <2>1. PICK page : page = answer.page
    OBVIOUS
  <2>2. /\ client'.items = client.items \o page.items /\ client'.req = client.req
        /\ client'.changed = (client.cursor # NoCursor /\ client.changed)
    BY <1>2, <1>3, <1>5, <2>1 DEF Receive, ClientOk
  <2>3. SUFFICES ASSUME client.req.view = "log", client.req.filter = "none",
                        ~client'.changed, client'.items # <<>>
                 PROVE  client'.items[1] = 1
    BY <2>2, Zenon DEF LogStarts
  <2>4. client.cursor = NoCursor \/ ~client.changed
    BY <2>2, <2>3, Zenon
  <2>5. client.req.view \in PageViews /\ client.req.view \in EvidenceViews
    BY <2>3 DEF PageViews, EvidenceViews, Views, LogViews, LedgerViews, SingleViews
  <2>6. Continues(client.req, client.cursor, client.items, page)
    BY <1>1, <1>2, <1>3, <1>5, <2>1, <2>4, <2>5, AskContinues
  <2>7. PICK r : r = client.req
    OBVIOUS
  <2>8. Len(ViewHits(r)) \in Nat
    BY <1>3, <2>5, <2>7, HitsAreListed
  <2>9. PICK n \in 0 .. Len(ViewHits(r)) : client'.items = ItemsUpto(r, n)
    BY <2>2, <2>6, <2>7 DEF Continues
  <2> QED
    BY <1>3, <2>3, <2>7, <2>8, <2>9, LogBegins
<1> QED
  BY <1>4, <1>5

LEMMA LogGoesOn ==
    WalkInvariant /\ LogStarts /\ [Next]_vars => LogStarts'
<1> SUFFICES ASSUME WalkInvariant, LogStarts, [Next]_vars PROVE LogStarts'
  OBVIOUS
<1>1. client = [req |-> client.req, cursor |-> client.cursor, items |-> client.items,
                page |-> client.page, status |-> client.status, steady |-> client.steady,
                changed |-> client.changed]
  BY DEF WalkInvariant, ClientOk
<1>2. ASSUME client'.req = client.req, client'.items = client.items,
             client'.changed = client.changed \/ client'.changed = TRUE,
             inv'.state # "gone" => inv.state # "gone"
      PROVE  LogStarts'
  BY <1>2, Zenon DEF LogStarts
<1>3. ASSUME NEW s, client' = [client EXCEPT !.status = s], inv' = inv PROVE LogStarts'
  <2>1. client'.req = client.req /\ client'.items = client.items
        /\ client'.changed = client.changed
    BY <1>1, <1>3
  <2> QED
    BY <1>2, <1>3, <2>1
<1>4. ASSUME client' = [client EXCEPT !.changed = TRUE],
             inv'.state # "gone" => inv.state # "gone"
      PROVE  LogStarts'
  <2>1. client'.req = client.req /\ client'.items = client.items /\ client'.changed = TRUE
    BY <1>1, <1>4
  <2> QED
    BY <1>2, <1>4, <2>1
<1>5. ASSUME NEW s, client' = [client EXCEPT !.steady = s], inv' = inv PROVE LogStarts'
  <2>1. client'.req = client.req /\ client'.items = client.items
        /\ client'.changed = client.changed
    BY <1>1, <1>5
  <2> QED
    BY <1>2, <1>5, <2>1
<1>6. ASSUME client' = client, inv'.state # "gone" => inv.state # "gone" PROVE LogStarts'
  BY <1>2, <1>6
<1>7. ASSUME NEW limit \in Limits, NEW budget \in Budgets, Ask(limit, budget) PROVE LogStarts'
  BY <1>7, AskStarts
<1>8. ASSUME NEW req \in Requests \cup OfAnother, Confuse(req) PROVE LogStarts'
  <2>1. inv' = inv /\ \E s : client' = [client EXCEPT !.status = s]
    BY <1>8 DEF Confuse
  <2> QED
    BY <1>3, <2>1
<1>9. ASSUME NEW byte \in Bytes, WriteByte(byte) PROVE LogStarts'
  <2>1. client' = client /\ inv.state # "gone"
    BY <1>9 DEF WriteByte
  <2> QED
    BY <1>6, <2>1
<1>10. ASSUME NEW stream \in {"out", "err"}, NEW line \in Lines, WriteLine(stream, line)
       PROVE  LogStarts'
  <2>1. client' = [client EXCEPT !.changed = TRUE] /\ inv.state # "gone"
    BY <1>10 DEF WriteLine
  <2> QED
    BY <1>4, <2>1
<1>11. ASSUME NEW failed \in BOOLEAN, Finish(failed) PROVE LogStarts'
  <2>1. client' = [client EXCEPT !.changed = TRUE] /\ inv.state # "gone"
    BY <1>11 DEF Finish
  <2> QED
    BY <1>4, <2>1
<1>12. CASE Expire
  <2>1. client' = client /\ inv.state # "gone"
    BY <1>12 DEF Expire
  <2> QED
    BY <1>6, <2>1
<1>13. ASSUME NEW key \in Keys, NEW entry \in Entries, Enter(key, entry) PROVE LogStarts'
  <2>1. inv' = inv /\ (client' = client \/ \E s : client' = [client EXCEPT !.steady = s])
    BY <1>13 DEF Enter
  <2> QED
    BY <1>5, <1>6, <2>1
<1>14. ASSUME NEW key \in Keys, Leave(key) PROVE LogStarts'
  <2>1. inv' = inv /\ \E s : client' = [client EXCEPT !.steady = s]
    BY <1>14 DEF Leave
  <2> QED
    BY <1>5, <2>1
<1>15. ASSUME NEW key \in Keys, Turn(key) PROVE LogStarts'
  <2>1. inv' = inv /\ \E s : client' = [client EXCEPT !.steady = s]
    BY <1>15 DEF Turn
  <2> QED
    BY <1>5, <2>1
<1>16. CASE Stop \/ UNCHANGED vars
  <2>1. client' = client /\ inv' = inv
    BY <1>16 DEF Stop, vars
  <2> QED
    BY <1>6, <2>1
<1> QED
  BY <1>7, <1>8, <1>9, <1>10, <1>11, <1>12, <1>13, <1>14, <1>15, <1>16 DEF Next

LEMMA FailureIsFirst ==
    WalkInvariant /\ LogStarts => FailureComesFirst
<1> SUFFICES ASSUME WalkInvariant, LogStarts, client.req.view = "log",
                    client.req.filter = "none", ~client.changed,
                    inv.state # "gone", client.items # <<>>, FailureIsRead
             PROVE  IsActionable(LogRecords[client.items[1]])
  BY Zenon DEF FailureComesFirst
<1>0. PICK stream \in {"out", "err"} : \E i \in DOMAIN ConsoleRead[stream] :
        Reports(ConsoleRead, stream, i)
  BY Zenon DEF FailureIsRead, Reports
<1>1. client.items[1] = 1
  BY Zenon DEF LogStarts
<1>2. PICK console \in [out : Seq(Lines), err : Seq(Lines)] : console = ConsoleRead
  BY ConsoleReadIsSeq DEF WalkInvariant
<1>3. \A testLike, failed : IsActionable(FailureEvidence(testLike, failed, console)[1])
  <2>1. PICK i \in DOMAIN console[stream] : Reports(console, stream, i)
    BY <1>0, <1>2
  <2> QED
    BY <2>1, FailureLeads
<1>4. \E testLike, failed : LogRecords = FailureEvidence(testLike, failed, console)
  BY <1>2, Zenon DEF LogRecords
<1>5. IsActionable(LogRecords[1])
  BY <1>3, <1>4
<1> QED
  BY <1>1, <1>5

\* When the end of the console that is read has a line that reports a failure, an
\* unfiltered walk through a settled log starts with such a line, whatever the caps on
\* the records, the sizes of the pages and how much of the console is read
\* (failure_evidence_records, read_bounded_tail).
THEOREM FailuresComeFirst ==
    Spec => []FailureComesFirst
<1>1. Init => LogStarts
  BY DEF Init, LogStarts
<1> QED
  BY <1>1, LogGoesOn, FailureIsFirst, WalkInvariantHolds, PTL DEF Spec

-----------------------------------------------------------------------------
(***************************************************************************)
(* A page moves its cursor.                                                *)
(***************************************************************************)

\* A page that leads on from its cursor, with or without its last items.
MovesOn(req, cursor, page) ==
    /\ IsPage(page) /\ (\E V : page.items \in Seq(V))
    /\ page.next # cursor
    /\ \A i \in DOMAIN page.item_cursors : page.item_cursors[i] # cursor
    /\ page.items # <<>> => SizeOf(req, page.items[1]) \in Nat

\* The size of one item.
LEMMA SizeOfOne ==
    ASSUME NEW req, NEW V, NEW items \in Seq(V), items # <<>>,
           SizeOf(req, items[1]) \in Nat
    PROVE  SizeOfItems(req, SubSeq(items, 1, 1)) = SizeOf(req, items[1])
<1>1. PICK s \in Nat : s = SizeOf(req, items[1])
  OBVIOUS
<1>2. PICK first : first = SubSeq(items, 1, 1)
  OBVIOUS
<1>3. DOMAIN first = {1} /\ first[1] = items[1]
  BY <1>2
<1>4. PICK U : U = 1 .. s
  OBVIOUS
<1>5. IsFiniteSet(U) /\ Cardinality(U) = s
  <2>1. PICK o \in Int : o = 1
    OBVIOUS
  <2>0. PICK t \in Int : t = s
    OBVIOUS
  <2>2. Cardinality(o .. t) = (IF o > t THEN 0 ELSE t - o + 1) /\ IsFiniteSet(o .. t)
    BY FS_Interval
  <2>3. (IF o > t THEN 0 ELSE t - o + 1) = s
    BY <2>0, <2>1
  <2>4. U = o .. t
    BY <1>4, <2>0, <2>1
  <2> QED
    BY <2>2, <2>3, <2>4
<1>6. IsFiniteSet({1}) /\ Cardinality({1}) = 1
  BY FS_Singleton
<1>7. Cardinality({1} \X U) = 1 * s
  BY <1>5, <1>6, FS_Product
<1>8. UNION {{i} \X (1 .. SizeOf(req, first[i])) : i \in DOMAIN first} = {1} \X U
  <2>1. {{i} \X (1 .. SizeOf(req, first[i])) : i \in DOMAIN first} = {{1} \X U}
    BY <1>1, <1>3, <1>4
  <2> QED
    BY <2>1
<1>9. SizeOfItems(req, first) = s
  <2>1. SizeOfItems(req, first) = Cardinality({1} \X U)
    BY <1>8 DEF SizeOfItems
  <2>2. 1 * s = s
    OBVIOUS
  <2> QED
    BY <1>7, <2>1, <2>2
<1> QED
  BY <1>1, <1>2, <1>9

\* When the first item fits alone, packing keeps at least that one.
LEMMA PackMovesOn ==
    ASSUME NEW req, NEW cursor, cursor # NoCursor, NEW page, MovesOn(req, cursor, page),
           NEW budget \in Nat,
           page.items # <<>> => SizeOf(req, page.items[1]) + CursorSize(req) <= budget,
           page.items # <<>>,
           ~Pack(req, page, budget, cursor).error
    PROVE  Pack(req, page, budget, cursor).page.next # cursor
<1>0. PICK answer : answer = Pack(req, page, budget, cursor)
  OBVIOUS
<1>1. PICK V : page.items \in Seq(V)
  BY DEF MovesOn
<1>2. PICK k \in Nat : k = Len(page.items)
  BY <1>1
<1>3. k >= 1
  BY <1>1, <1>2
<1>4. CASE answer = Answer(page)
  BY <1>0, <1>4 DEF Answer, MovesOn
<1>5. CASE answer # Answer(page)
  <2> DEFINE K == Kept(req, page, budget, cursor)
             n == Max(K)
             cut == TruncateItems(page, n, cursor)
  <2>1. K # {} /\ answer = Answer([cut EXCEPT !.truncated = TRUE])
    BY <1>0, <1>5 DEF Pack, Refused, Answer
  <2>2. K \subseteq 0 .. k
    BY <1>2 DEF Kept
  <2>3. 1 \in K
    <3>1. PICK one : one = TruncateItems(page, 1, cursor)
      OBVIOUS
    <3>2. PICK s \in Nat : s = SizeOf(req, page.items[1])
      BY DEF MovesOn
    <3>3. CursorSize(req) \in Nat /\ Envelope(req, one) \in {0, CursorSize(req)}
      BY InspectionAssumption DEF CursorSize, Envelope
    <3>4. SizeOfItems(req, SubSeq(page.items, 1, 1)) = s
      BY <1>1, <3>2, SizeOfOne
    <3>5. Envelope(req, one) + s <= budget
      BY <3>2, <3>3
    <3>6. 1 \in 0 .. Len(page.items)
      BY <1>2, <1>3
    <3> QED
      BY <3>1, <3>4, <3>5, <3>6 DEF Kept
  <2>4. n \in K /\ \A m \in K : n >= m
    <3> HIDE DEF K
    <3> QED
      BY <1>2, <2>1, <2>2, ExtremesExist
  <2>5. n \in 1 .. k
    <3> HIDE DEF K, n
    <3> QED
      BY <2>2, <2>3, <2>4
  <2>6. answer.page = [cut EXCEPT !.truncated = TRUE]
    BY <2>1 DEF Answer
  <2> HIDE DEF n, cut, K
  <2>7. CASE n = k
    <3>1. cut = page
      BY <1>2, <2>7 DEF cut, TruncateItems
    <3>2. answer.page.next = page.next
      BY <2>6, <3>1 DEF MovesOn, IsPage, Page
    <3> QED
      BY <1>0, <3>2 DEF MovesOn
  <2>8. CASE n < k
    <3>1. PICK next : next = ItemCursor(page, n) /\ n # 0 /\ ~(n >= Len(page.items))
      BY <1>2, <2>5, <2>8
    <3>2. cut = [page EXCEPT !.items = SubSeq(page.items, 1, n),
                             !.item_cursors = Upto(page.item_cursors, n), !.truncated = TRUE,
                             !.next = next]
      BY <3>1, Zenon DEF cut, TruncateItems
    <3>3. answer.page.next = next
      BY <2>6, <3>2 DEF MovesOn, IsPage, Page
    <3>4. next # cursor
      BY <3>1 DEF ItemCursor, MovesOn
    <3> QED
      BY <1>0, <3>3, <3>4
  <2> QED
    BY <2>5, <2>7, <2>8
<1> QED
  BY <1>4, <1>5

\* What the client would read with the largest budget is at the front of the page.
LEMMA PackShowsTheFirst ==
    ASSUME NEW req, NEW cursor, NEW page, MovesOn(req, cursor, page), NEW budget,
           ~Pack(req, page, budget, cursor).error,
           Pack(req, page, budget, cursor).page.items # <<>>
    PROVE  page.items # <<>> /\ Pack(req, page, budget, cursor).page.items[1] = page.items[1]
<1>1. PICK V : page.items \in Seq(V)
  BY DEF MovesOn
<1>2. PICK n \in 0 .. Len(page.items) :
          PackedTo(page, cursor, n, Pack(req, page, budget, cursor).page)
  BY <1>1, PackKeepsTheFirst DEF MovesOn
<1>3. PICK items : items = Pack(req, page, budget, cursor).page.items
  OBVIOUS
<1>4. items = SubSeq(page.items, 1, n) /\ items # <<>>
  BY <1>2, <1>3 DEF PackedTo
<1>5. n >= 1
  BY <1>1, <1>4
<1>6. Len(page.items) >= 1 /\ items[1] = page.items[1]
  BY <1>1, <1>4, <1>5
<1> QED
  BY <1>1, <1>3, <1>6

\* Where a cursor that holds a number stands, and what a page hands out.
StandsPast(c, n) == c # NoCursor /\ c.at \in Nat /\ c.at > n

PageStandsPast(page, n, len) ==
    /\ IsPage(page) /\ page.items \in Seq(1 .. len)
    /\ page.next # NoCursor => StandsPast(page.next, n)
    /\ \A i \in DOMAIN page.item_cursors : StandsPast(page.item_cursors[i], n)

\* A scan from a cursor past the end, which a log that has changed can leave, finds nothing;
\* any other goes forward.
ScansPast(hit, after, s) ==
    /\ s.ordinals \in Seq(1 .. Len(hit))
    /\ \A i \in DOMAIN s.ordinals : s.ordinals[i] \in Nat /\ s.ordinals[i] > after
    /\ s.truncated \in BOOLEAN
    /\ s.truncated => s.last \in Nat /\ s.last > after

LEMMA ScanGoesPast ==
    ASSUME NEW hit, Len(hit) \in Nat, NEW after \in Nat,
           NEW items \in Nat \ {0}, NEW scan \in Nat \ {0}
    PROVE  ScansPast(hit, after, Scan(hit, after, items, scan))
<1>s. PICK s : s = Scan(hit, after, items, scan)
  OBVIOUS
<1>0. PICK len \in Nat : s = Scan(hit, after, items, scan) /\ len = Len(hit)
  BY <1>s
<1>1. CASE after <= len
  <2>1. GoesForward(hit, after, s)
    BY <1>0, <1>1, ScanGoesForward
  <2> DEFINE T == HitsIn(hit, after + 1, s.last)
  <2>2. /\ s.last \in after .. len /\ s.ordinals = InOrder(T) /\ s.truncated \in BOOLEAN
        /\ s.truncated => after < s.last /\ s.last < len
    BY <1>0, <2>1, Zenon DEF GoesForward
  <2>3. T \subseteq after + 1 .. s.last /\ T \subseteq Int /\ IsFiniteSet(T)
    <3>1. PICK x \in Int, y \in Int : x = after + 1 /\ y = s.last
      BY <2>2
    <3> QED
      BY <3>1, HitsAreFinite
  <2>4. \A x \in T : x \in 1 .. len /\ x \in Nat /\ x > after
    BY <2>2, <2>3
  <2> HIDE DEF T
  <2>5. Cardinality(T) \in Nat /\ InOrder(T) \in [1 .. Cardinality(T) -> T]
    BY <2>3, InOrderLists, FS_CardinalityType
  <2>6. InOrder(T) \in [1 .. Cardinality(T) -> 1 .. len]
    BY <2>4, <2>5
  <2>7. s.ordinals \in Seq(1 .. len)
    BY <2>2, <2>5, <2>6, ListIsSeq
  <2>8. \A i \in DOMAIN s.ordinals : s.ordinals[i] \in Nat /\ s.ordinals[i] > after
    BY <2>2, <2>4, <2>5
  <2>9. s.truncated => s.last \in Nat /\ s.last > after
    BY <2>2
  <2> QED
    BY <1>0, <2>2, <2>7, <2>8, <2>9 DEF ScansPast
<1>2. CASE after > len
  <2>1. \A x, y \in Int : x > y => HitsIn(hit, x, y) = {}
    BY DEF HitsIn
  <2>2. StopsAt(hit, after, items, scan) = {}
    BY <1>0, <1>2 DEF StopsAt
  <2>3. s = ScanFrom(hit, after, len, {})
    BY <1>0, <2>2 DEF Scan, LastScanned
  <2>4. HitsIn(hit, after + 1, len) = {}
    BY <1>2, <2>1
  <2>5. InOrder({}) = <<>>
    <3>1. Cardinality({}) = 0
      BY FS_EmptySet
    <3> QED
      BY <3>1 DEF InOrder
  <2>6. s.ordinals = <<>> /\ s.truncated = FALSE
    BY <2>3, <2>4, <2>5 DEF ScanFrom
  <2>7. <<>> \in Seq(1 .. len) /\ DOMAIN <<>> = {}
    OBVIOUS
  <2> QED
    BY <1>0, <2>6, <2>7 DEF ScansPast
<1> QED
  BY <1>0, <1>1, <1>2

\* So does a page of records.
LEMMA RecordPageStandsPast ==
    ASSUME NEW ctx, NEW filter, NEW hit, Len(hit) \in Nat, NEW cursor,
           After(cursor) \in Nat, NEW items \in Int, NEW scan \in Int,
           NEW page, page = PageRecords(ctx, filter, hit, cursor, items, scan)
    PROVE  PageStandsPast(page, After(cursor), Len(hit))
<1>1. PICK after \in Nat : after = After(cursor)
  OBVIOUS
<1>2. PICK s : s = Scan(hit, after, ItemLimit(items), ScanLimit(items, scan))
  OBVIOUS
<1>3. ScansPast(hit, after, s)
  <2>1. ItemLimit(items) \in Nat \ {0} /\ ScanLimit(items, scan) \in Nat \ {0}
    BY LimitsArePositive
  <2> QED
    BY <1>2, <2>1, ScanGoesPast
<1>4. page = RecordPage(ctx, filter, hit, after, s)
  BY <1>1, <1>2 DEF PageRecords
<1>5. /\ page.items = s.ordinals /\ page.truncated = s.truncated
      /\ page.item_cursors = [i \in DOMAIN s.ordinals |-> OrdinalCursor(ctx, s.ordinals[i])]
      /\ page.next = IF s.truncated THEN OrdinalCursor(ctx, s.last) ELSE NoCursor
      /\ page = Page(page.items, page.item_cursors, page.total, page.filtered, page.next,
                     page.truncated)
  BY <1>4 DEF RecordPage, Page
<1>6. \A n : OrdinalCursor(ctx, n).at = n /\ OrdinalCursor(ctx, n) # NoCursor
  <2>1. \A n : OrdinalCursor(ctx, n).kind = "ordinal" /\ NoCursor.kind = "none"
    BY DEF OrdinalCursor, NoCursor
  <2> QED
    BY <2>1 DEF OrdinalCursor
<1>7. IsPage(page)
  BY <1>3, <1>5 DEF IsPage, ScansPast
<1>8. page.next # NoCursor => StandsPast(page.next, after)
  <2>1. CASE s.truncated
    BY <1>3, <1>5, <1>6, <2>1 DEF StandsPast, ScansPast
  <2>2. CASE ~s.truncated
    BY <1>5, <2>2
  <2> QED
    BY <2>1, <2>2
<1>9. \A i \in DOMAIN page.item_cursors : StandsPast(page.item_cursors[i], after)
  BY <1>3, <1>5, <1>6 DEF StandsPast, ScansPast
<1> QED
  BY <1>1, <1>3, <1>5, <1>7, <1>8, <1>9 DEF PageStandsPast, ScansPast

\* And a page of a log.
LEMMA LogPageStandsPast ==
    ASSUME NEW view, NEW id, NEW filter, NEW hit, Len(hit) \in Nat, NEW cursor,
           After(cursor) \in Nat, NEW items \in Int, NEW scan \in Int,
           NEW page, page = PageEvidence(view, id, filter, hit, cursor, items, scan)
    PROVE  PageStandsPast(page, After(cursor), Len(hit))
<1>1. PICK after \in Nat : after = After(cursor)
  OBVIOUS
<1>2. PICK s : s = Scan(hit, after, ItemLimit(items), ScanLimit(items, scan))
  OBVIOUS
<1>3. ScansPast(hit, after, s)
  <2>1. ItemLimit(items) \in Nat \ {0} /\ ScanLimit(items, scan) \in Nat \ {0}
    BY LimitsArePositive
  <2> QED
    BY <1>2, <2>1, ScanGoesPast
<1>4. page = EvidencePage(view, id, filter, s)
  BY <1>1, <1>2 DEF PageEvidence
<1>5. /\ page.items = s.ordinals /\ page.truncated = s.truncated
      /\ page.item_cursors = [i \in DOMAIN s.ordinals |-> LogCursor(view, id, filter, s.ordinals[i])]
      /\ page.next = IF s.truncated THEN LogCursor(view, id, filter, s.last) ELSE NoCursor
      /\ page = Page(page.items, page.item_cursors, page.total, page.filtered, page.next,
                     page.truncated)
  BY <1>4 DEF EvidencePage, Page
<1>6. \A n : LogCursor(view, id, filter, n).at = n /\ LogCursor(view, id, filter, n) # NoCursor
  <2>1. \A n : LogCursor(view, id, filter, n).kind = "log" /\ NoCursor.kind = "none"
    BY DEF LogCursor, NoCursor
  <2> QED
    BY <2>1 DEF LogCursor
<1>7. IsPage(page)
  BY <1>3, <1>5 DEF IsPage, ScansPast
<1>8. page.next # NoCursor => StandsPast(page.next, after)
  <2>1. CASE s.truncated
    BY <1>3, <1>5, <1>6, <2>1 DEF StandsPast, ScansPast
  <2>2. CASE ~s.truncated
    BY <1>5, <2>2
  <2> QED
    BY <2>1, <2>2
<1>9. \A i \in DOMAIN page.item_cursors : StandsPast(page.item_cursors[i], after)
  BY <1>3, <1>5, <1>6 DEF StandsPast, ScansPast
<1> QED
  BY <1>1, <1>3, <1>5, <1>7, <1>8, <1>9 DEF PageStandsPast, ScansPast

\* Every element of a sequence is one of its kind.
LEMMA ElementOf ==
    ASSUME NEW V, NEW f \in Seq(V), NEW n \in 1 .. Len(f)
    PROVE  f[n] \in V
  OBVIOUS

\* The bytes of a row that are kept.
LEMMA LineIsSeq ==
    ASSUME NEW V, NEW bytes \in Seq(V), NEW x \in 0 .. Len(bytes) - 1
    PROVE  Len(Redact(LineValue(bytes, x, LineEnds(bytes, x)))) \in Nat
<1>1. PICK len \in Nat : len = Len(bytes)
  OBVIOUS
<1>2. PICK e \in x + 1 .. len : e = LineEnds(bytes, x)
  BY <1>1, LineEndsFirst
<1>3. PICK u \in Int : u = e - (IF bytes[e] = Newline THEN 1 ELSE 0) /\ x <= u /\ u <= len
  BY <1>1, <1>2
<1>4. PICK v \in Int : v = (IF u < x + LineLimit THEN u ELSE x + LineLimit) /\ v <= len
  BY <1>1, <1>3, LimitsAssumption
<1>5. PICK o \in Int : o = x + 1 /\ 1 <= o
  BY <1>1
<1>6. SubSeq(bytes, o, v) \in Seq(V)
  BY <1>1, <1>4, <1>5
<1>7. PICK value \in Seq(V) : value = SubSeq(bytes, o, v)
  BY <1>6
<1>8. LineValue(bytes, x, e) = WithoutReturn(value)
  BY <1>3, <1>4, <1>5, <1>7 DEF LineValue
<1>9. WithoutReturn(value) \in Seq(V)
  <2>1. value # <<>> => Front(value) \in Seq(V)
    <3>1. SUFFICES ASSUME value # <<>> PROVE Front(value) \in Seq(V)
      OBVIOUS
    <3>2. PICK a \in Int, b \in Int : a = 1 /\ b = Len(value) - 1
      OBVIOUS
    <3>3. SubSeq(value, a, b) \in Seq(V)
      BY <3>2
    <3> QED
      BY <3>2, <3>3 DEF Front
  <2> QED
    BY <2>1 DEF WithoutReturn
<1>10. PICK w \in Seq(V) : w = WithoutReturn(value)
  BY <1>9
<1>11. PICK r : r = Redact(w)
  OBVIOUS
<1>12. DOMAIN r = DOMAIN w /\ r = [i \in DOMAIN r |-> r[i]]
  BY <1>11 DEF Redact
<1>13. Len(r) \in Nat
  BY <1>12, OneHitEach
<1> QED
  BY <1>2, <1>8, <1>10, <1>11, <1>13

\* Every row has a size.
LEMMA RowsHaveSizes ==
    ASSUME NEW V, inv.stdout \in Seq(V), NEW n \in 1 .. Len(RowsOf(0))
    PROVE  Len(RowsOf(0)[n].value) \in Nat
<1>1. PICK z \in Nat : z = 0
  OBVIOUS
<1>2. PICK bytes \in Seq(V) : bytes = inv.stdout
  OBVIOUS
<1>3. PICK S : S = LineStarts(bytes, z)
  OBVIOUS
<1>4. /\ S \subseteq z .. Len(bytes) - 1 /\ S \subseteq Int /\ IsFiniteSet(S)
  BY <1>2, <1>3, StartsAreFinite
<1>5. /\ RowsOf(z) = [i \in 1 .. Cardinality(S) |-> Row(bytes, InOrder(S)[i])]
      /\ Len(RowsOf(z)) = Cardinality(S)
  BY <1>2, <1>3, RowsAreLines
<1>6. InOrder(S) \in [1 .. Cardinality(S) -> S]
  BY <1>4, InOrderLists
<1>7. PICK x \in 0 .. Len(bytes) - 1 : x = InOrder(S)[n]
  BY <1>1, <1>4, <1>5, <1>6
<1>8. RowsOf(0)[n].value = Redact(LineValue(bytes, x, LineEnds(bytes, x)))
  BY <1>1, <1>5, <1>7 DEF Row
<1> QED
  BY <1>8, LineIsSeq

\* A record of the views that count one has a size.
LEMMA RecordsHaveSizes ==
    ASSUME inv \in Evidence, NEW view \in RecordViews, NEW n \in 1 .. Len(Records(view))
    PROVE  Records(view)[n].size \in Nat
<1>1. Records(view) \in Seq(AnyRecord)
  BY RecordsAreSeq
<1>2. Records(view)[n] \in AnyRecord
  BY <1>1
<1>3. \A r \in AnyRecord : r.size \in Nat
  BY DEF AnyRecord, Sizes
<1> QED
  BY <1>2, <1>3

LEMMA TestLogHasSizes ==
    ASSUME inv \in Evidence, NEW n \in 1 .. Len(LogSource("test_log"))
    PROVE  LogSource("test_log")[n].size \in Nat
<1>1. CASE inv.hasTestlog
  <2>1. inv.testlog \in Seq([label : STRING, text : STRING, size : Nat])
    BY DEF Evidence
  <2>2. LogSource("test_log") = inv.testlog
    BY <1>1, Zenon DEF LogSource, TestLogRecords
  <2>3. PICK log \in Seq([label : STRING, text : STRING, size : Nat]) : log = inv.testlog
    BY <2>1
  <2>4. n \in 1 .. Len(log)
    BY <2>2, <2>3
  <2>5. PICK r \in [label : STRING, text : STRING, size : Nat] : r = log[n]
    BY <2>4, ElementOf
  <2> QED
    BY <2>2, <2>3, <2>5
<1>2. CASE ~inv.hasTestlog
  <2>1. PICK v \in RecordViews : v = "tests"
    BY DEF RecordViews
  <2>2. Records("tests") \in Seq(AnyRecord)
    BY <2>1, RecordsAreSeq
  <2>3. UnavailableReasons \in Seq(AnyRecord)
    BY <2>2, ReasonsAreSeq
  <2>4. LogSource("test_log") = UnavailableReasons
    BY <1>2, Zenon DEF LogSource
  <2>5. UnavailableReasons[n] \in AnyRecord
    BY <2>3, <2>4
  <2>6. \A r \in AnyRecord : r.size \in Nat
    BY DEF AnyRecord, Sizes
  <2> QED
    BY <2>4, <2>5, <2>6
<1> QED
  BY <1>1, <1>2

\* A page whose cursors all stand past the one it was asked with moves on.
LEMMA PastMovesOn ==
    ASSUME NEW req, NEW cursor, cursor # NoCursor, cursor.at \in Nat, NEW page, NEW len,
           PageStandsPast(page, cursor.at, len),
           \A n \in 1 .. len : SizeOf(req, n) \in Nat
    PROVE  MovesOn(req, cursor, page)
<1>1. IsPage(page) /\ page.items \in Seq(1 .. len)
  BY DEF PageStandsPast
<1>2. \A c : StandsPast(c, cursor.at) => c # cursor
  BY DEF StandsPast
<1>3. page.next # cursor /\ \A i \in DOMAIN page.item_cursors : page.item_cursors[i] # cursor
  BY <1>2 DEF PageStandsPast
<1>4. page.items # <<>> => SizeOf(req, page.items[1]) \in Nat
  <2>1. SUFFICES ASSUME page.items # <<>> PROVE SizeOf(req, page.items[1]) \in Nat
    OBVIOUS
  <2>2. PICK U : U = 1 .. len
    OBVIOUS
  <2>3. PICK f \in Seq(U) : f = page.items
    BY <1>1, <2>2
  <2>4. f[1] \in U
    BY <2>1, <2>3
  <2>5. PICK n \in 1 .. len : n = page.items[1]
    BY <2>2, <2>3, <2>4
  <2> QED
    BY <2>5
<1> QED
  BY <1>1, <1>3, <1>4 DEF MovesOn

LEMMA RecordPageMoves ==
    ASSUME inv \in Evidence, NEW req, req.view \in RecordViews \ {"coverage"},
           NEW cursor, cursor # NoCursor, cursor.at \in Nat,
           NEW items \in Int, NEW scan \in Int,
           NEW page, page = PageOfRecords(req.view, req, cursor, items, scan)
    PROVE  MovesOn(req, cursor, page)
<1>1. PICK view \in RecordViews : view = req.view /\ view # "coverage"
  OBVIOUS
<1>2. PICK hits : hits = RecordHits(view, req)
  OBVIOUS
<1>3. Records(view) \in Seq(AnyRecord)
  BY RecordsAreSeq
<1>4. DOMAIN hits = DOMAIN Records(view) /\ hits = [i \in DOMAIN hits |-> hits[i]]
  BY <1>2 DEF RecordHits
<1>5. Len(hits) \in Nat /\ Len(hits) = Len(Records(view))
  BY <1>3, <1>4, OneHitEach
<1>6. After(cursor) = cursor.at
  BY DEF After
<1>7. PageStandsPast(page, cursor.at, Len(hits))
  <2>1. page = PageRecords(Context(view, req.id, req.filter), req.filter, hits, cursor, items, scan)
    BY <1>1, <1>2 DEF PageOfRecords
  <2> QED
    BY <1>5, <1>6, <2>1, RecordPageStandsPast
<1>8. \A n \in 1 .. Len(hits) : SizeOf(req, n) \in Nat
  <2>1. TAKE n \in 1 .. Len(hits)
  <2>2. Records(view)[n].size \in Nat
    BY <1>5, RecordsHaveSizes
  <2>3. SizeOf(req, n) \in {1, Records(view)[n].size}
    BY <1>1 DEF SizeOf, RecordViews
  <2> QED
    BY <2>2, <2>3
<1> QED
  BY <1>7, <1>8, PastMovesOn

\* The records of a log are as many as its hits, and a page of them stands past its cursor.
LEMMA LogPagePast ==
    ASSUME inv \in Evidence, NEW req, req.view \in LogViews,
           NEW cursor, After(cursor) \in Nat, NEW items \in Int, NEW scan \in Int,
           NEW page, page = PageEvidence(req.view, req.id, req.filter,
                                         EvidenceHits(req, LogSource(req.view)),
                                         cursor, items, scan)
    PROVE  PageStandsPast(page, After(cursor), Len(LogSource(req.view)))
<1>1. PICK view \in LogViews : view = req.view
  OBVIOUS
<1>2. PICK V : LogSource(view) \in Seq(V)
  BY LogSourceIsSeq
<1>3. PICK records \in Seq(V) : records = LogSource(view)
  BY <1>2
<1>4. PICK hits : hits = EvidenceHits(req, records)
  OBVIOUS
<1>5. DOMAIN hits = DOMAIN records /\ hits = [i \in DOMAIN hits |-> hits[i]]
  BY <1>4 DEF EvidenceHits
<1>6. Len(hits) \in Nat /\ Len(hits) = Len(records)
  BY <1>5, OneHitEach
<1>7. PageStandsPast(page, After(cursor), Len(hits))
  <2>1. page = PageEvidence(view, req.id, req.filter, hits, cursor, items, scan)
    BY <1>1, <1>3, <1>4
  <2> QED
    BY <1>6, <2>1, LogPageStandsPast
<1> QED
  BY <1>1, <1>3, <1>6, <1>7

LEMMA LogPageMoves ==
    ASSUME inv \in Evidence, NEW req, req.view \in LogViews,
           NEW cursor, cursor # NoCursor, cursor.at \in Nat,
           NEW items \in Int, NEW scan \in Int,
           NEW page, page = PageEvidence(req.view, req.id, req.filter,
                                         EvidenceHits(req, LogSource(req.view)),
                                         cursor, items, scan)
    PROVE  MovesOn(req, cursor, page)
<1>1. PICK view \in LogViews : view = req.view
  OBVIOUS
<1>2. After(cursor) = cursor.at
  BY DEF After
<1>3. PICK len : len = Len(LogSource(view))
  OBVIOUS
<1>4. PageStandsPast(page, cursor.at, len)
  BY <1>1, <1>2, <1>3, LogPagePast
<1>5. \A n \in 1 .. len : SizeOf(req, n) \in Nat
  <2>1. TAKE n \in 1 .. len
  <2>2. CASE view = "log"
    BY <1>1, <2>2 DEF SizeOf, RecordViews
  <2>3. CASE view = "test_log"
    <3>1. n \in 1 .. Len(LogSource("test_log"))
      BY <1>3, <2>3
    <3>2. LogSource("test_log")[n].size \in Nat
      BY <3>1, TestLogHasSizes
    <3>3. SizeOf(req, n) = LogSource("test_log")[n].size
      BY <1>1, <2>3 DEF SizeOf, RecordViews
    <3> QED
      BY <3>2, <3>3
  <2> QED
    BY <2>2, <2>3 DEF LogViews
<1> QED
  BY <1>4, <1>5, PastMovesOn

LEMMA RowPageMoves ==
    ASSUME inv \in Evidence, NEW req, req.view = "query_results",
           NEW cursor, cursor # NoCursor, CursorOk(req, cursor),
           NEW items \in Int, NEW scan \in Int,
           NEW answer, answer = ReadRows(req, cursor, items, scan), ~answer.error
    PROVE  MovesOn(req, cursor, answer.page)
<1>1. inv.stdout \in Seq(Bytes)
  BY DEF Evidence
<1>2. PICK l \in Nat \ {0}, m \in Nat \ {0} : l = ItemLimit(items) /\ m = ScanLimit(items, scan)
  BY LimitsArePositive
<1>3. PICK rows : rows = RowsOf(RowStart(cursor).at)
  OBVIOUS
<1>4. PICK hit : hit = RowHits(req, rows)
  OBVIOUS
<1>5. PICK known : known = KnownTotal(req.filter)
  OBVIOUS
<1>6. PICK s : s = FileScan(rows, hit, l, m, req.filter, known)
  OBVIOUS
<1>7. PICK ctx : ctx = Context("query_rows", req.id, req.filter)
  OBVIOUS
<1>8. PICK start : start = RowStart(cursor)
  OBVIOUS
<1>9. PICK page : page = FilePageOf(ctx, req.filter, rows, hit, start, known, s)
  OBVIOUS
<1>10. answer.page = page
  <2>1. Refused.error /\ Answer(page).page = page
    BY DEF Refused, Answer
  <2>2. ~DecodesFor(cursor, "file", ctx) => answer = Refused
    BY <1>7 DEF ReadRows
  <2>3. answer = Answer(page)
    BY <1>2, <1>3, <1>4, <1>5, <1>6, <1>7, <1>8, <1>9, <2>1, <2>2 DEF ReadRows, PageRows
  <2> QED
    BY <2>1, <2>3
<1>11. /\ RowsFollow(rows, From(cursor)) /\ start.ordinal = From(cursor)
  BY <1>1, <1>3, <1>8, CursorRowsFollow
<1>12. PICK k \in Nat, n \in Nat :
          /\ k = From(cursor) /\ n = Len(rows) /\ DOMAIN rows = 1 .. n /\ k + n = Len(RowsOf(0))
          /\ \A i \in 1 .. n : rows[i] = RowsOf(0)[k + i]
  BY <1>11 DEF RowsFollow
<1>13. cursor.ordinal = k
  BY <1>8, <1>11, <1>12 DEF RowStart
<1>14. SeenRows(hit, n, s)
  BY <1>6, <1>12, FileScanSees
<1>15. PICK last \in 0 .. n : last = s.last /\ s.shown = InOrder(HitsIn(hit, 1, last))
  BY <1>12, <1>14 DEF SeenRows
<1>16. PICK S : S = HitsIn(hit, 1, last)
  OBVIOUS
<1>17. S \subseteq 1 .. n /\ S \subseteq Int /\ IsFiniteSet(S)
  <2>1. PICK one \in Int, t \in Int : one = 1 /\ t = last
    BY <1>12
  <2>2. S \subseteq one .. t /\ S \subseteq Int /\ IsFiniteSet(S)
    BY <1>16, <2>1, HitsAreFinite
  <2> QED
    BY <1>12, <2>1, <2>2
<1>18. PICK c \in Nat : c = Cardinality(S) /\ s.shown \in [1 .. c -> 1 .. n]
  <2>1. Cardinality(S) \in Nat /\ InOrder(S) \in [1 .. Cardinality(S) -> S]
    BY <1>17, InOrderLists, FS_CardinalityType
  <2>2. s.shown = InOrder(S)
    BY <1>15, <1>16
  <2>3. InOrder(S) \in [1 .. Cardinality(S) -> 1 .. n]
    BY <1>17, <2>1
  <2> QED
    BY <2>1, <2>2, <2>3
<1>19. \A i \in 1 .. c : s.shown[i] \in 1 .. n
  BY <1>18
<1>20. PICK t : t = FileTruncated(rows, s, start, known, req.filter)
  OBVIOUS
<1>21. /\ page.items = [i \in 1 .. c |->
                           [ordinal |-> start.ordinal + s.shown[i], value |-> rows[s.shown[i]].value]]
       /\ page.item_cursors = [i \in 1 .. c |-> RowCursor(ctx, start, rows, hit, s.shown[i])]
       /\ page.next = IF t /\ s.last > 0
                      THEN RowCursor(ctx, start, rows, hit, s.last) ELSE NoCursor
       /\ page.truncated = t
       /\ page = Page(page.items, page.item_cursors, page.total, page.filtered, page.next,
                      page.truncated)
  BY <1>9, <1>18, <1>20 DEF FilePageOf, FilePage, Page
<1>22. t \in BOOLEAN
  <2>1. s.exhausted \in BOOLEAN
    BY <1>14 DEF SeenRows
  <2> QED
    BY <1>20, <2>1, Zenon DEF FileTruncated
<1>23. IsPage(page)
  BY <1>21, <1>22 DEF IsPage
<1>24. \A i \in Nat : i > 0 => RowCursor(ctx, start, rows, hit, i) # cursor
  <2>1. \A i : RowCursor(ctx, start, rows, hit, i).ordinal = start.ordinal + i
    BY DEF RowCursor, FileCursor
  <2>2. \A i \in Nat : i > 0 => k + i # k
    BY <1>12
  <2> QED
    BY <1>11, <1>12, <1>13, <2>1, <2>2
<1>25. page.next # cursor
  <2>1. s.last \in Nat
    BY <1>12, <1>15
  <2> QED
    BY <1>21, <1>24, <2>1
<1>26. \A i \in DOMAIN page.item_cursors : page.item_cursors[i] # cursor
  <2>1. TAKE i \in DOMAIN page.item_cursors
  <2>2. i \in 1 .. c /\ page.item_cursors[i] = RowCursor(ctx, start, rows, hit, s.shown[i])
    BY <1>21
  <2>3. s.shown[i] \in Nat /\ s.shown[i] > 0
    BY <1>12, <1>19, <2>2
  <2> QED
    BY <1>24, <2>2, <2>3
<1>27. \E W : page.items \in Seq(W)
  <2>1. PICK W : W = {page.items[i] : i \in 1 .. c}
    OBVIOUS
  <2>2. page.items \in [1 .. c -> W]
    BY <1>21, <2>1
  <2>3. page.items \in Seq(W)
    BY <1>18, <2>2, ListIsSeq
  <2> QED
    BY <2>3
<1>28. page.items # <<>> => SizeOf(req, page.items[1]) \in Nat
  <2>1. SUFFICES ASSUME page.items # <<>> PROVE SizeOf(req, page.items[1]) \in Nat
    OBVIOUS
  <2>2. 1 \in 1 .. c
    <3>1. c # 0
      <4>1. c = 0 => page.items = <<>>
        BY <1>21
      <4> QED
        BY <2>1, <4>1
    <3> QED
      BY <1>18, <3>1
  <2>3. PICK x \in 1 .. n : x = s.shown[1]
    BY <1>19, <2>2
  <2>4. PICK y \in 1 .. Len(RowsOf(0)) : y = k + x
    BY <1>12, <2>3
  <2>5. page.items[1].value = RowsOf(0)[y].value
    <3>1. page.items[1] = [ordinal |-> start.ordinal + s.shown[1], value |-> rows[s.shown[1]].value]
      BY <1>21, <2>2
    <3>2. rows[x] = RowsOf(0)[y]
      BY <1>12, <2>3, <2>4
    <3> QED
      BY <2>3, <3>1, <3>2
  <2>6. Len(RowsOf(0)[y].value) \in Nat
    BY <1>1, RowsHaveSizes
  <2>7. SizeOf(req, page.items[1]) = 1 + Len(page.items[1].value)
    <3>1. \A item : SizeOf(req, item) = 1 + Len(item.value)
      BY DEF SizeOf, RecordViews
    <3> QED
      BY <3>1
  <2> QED
    BY <2>5, <2>6, <2>7
<1> QED
  BY <1>10, <1>23, <1>25, <1>26, <1>27, <1>28 DEF MovesOn

\* The ledger's cursors go down from the one a page was asked with.
LEMMA LedgerPageMoves ==
    ASSUME IsLedger(ledger), NEW req, req.view \in LedgerViews,
           NEW cursor, cursor # NoCursor, LedgerCursorOk(req, cursor),
           NEW items \in Int, NEW scan \in Int,
           NEW page, page = ListInvocations(req, cursor, items, scan)
    PROVE  MovesOn(req, cursor, page)
<1>1. /\ LedgerPageOk(req, cursor, page) /\ LedgerCursors(req, page)
      /\ page.next # NoCursor => Ahead(cursor, page.next.at)
  BY LedgerPageReadsOn
<1>2. PICK at \in Nat \X Nat : at = cursor.at
  BY DEF LedgerCursorOk
<1>3. ~KeyBelow(at, at)
  BY KeysAreOrdered
<1>4. \A c : Ahead(cursor, c.at) => c # cursor
  BY <1>2, <1>3 DEF Ahead
<1>5. page.next # cursor
  BY <1>1, <1>4
<1>6. \A i \in DOMAIN page.item_cursors : page.item_cursors[i] # cursor
  <2>1. TAKE i \in DOMAIN page.item_cursors
  <2>2. /\ i \in 1 .. Len(page.items)
        /\ page.item_cursors[i] = TimeCursor(req.view, LedgerContext(req), page.items[i])
    BY <1>1 DEF LedgerCursors
  <2>3. page.item_cursors[i].at = page.items[i]
    BY <2>2 DEF TimeCursor
  <2>4. Ahead(cursor, page.items[i])
    BY <1>1, <2>2 DEF LedgerPageOk
  <2> QED
    BY <1>4, <2>3, <2>4
<1>7. IsPage(page) /\ page.items \in Seq(LedgerSet(req))
  BY <1>1 DEF LedgerCursors, LedgerPageOk
<1>8. \A item : SizeOf(req, item) = 1
  BY DEF SizeOf, RecordViews, LedgerViews
<1> QED
  BY <1>5, <1>6, <1>7, <1>8 DEF MovesOn

\* A single item has no cursor behind it.
LEMMA SingleMoves ==
    ASSUME NEW req, req.view \in SingleViews, inv \in Evidence, NEW cursor, cursor # NoCursor
    PROVE  MovesOn(req, cursor, ReadSingle(req).page)
<1>1. PICK page : page = ReadSingle(req).page
  OBVIOUS
<1>2. PICK items : items = IF req.view = "summary" /\ inv.state # "finished" THEN <<>> ELSE <<1>>
  OBVIOUS
<1>3. PICK t \in BOOLEAN :
          t = (req.view = "summary" /\ inv.state = "finished" /\ inv.summary.truncated)
  <2>1. inv.summary.truncated \in BOOLEAN
    BY DEF Evidence
  <2> QED
    BY <2>1, Zenon
<1>4. page = Page(items, <<>>, Unknown, Unknown, NoCursor, t)
  BY <1>1, <1>2, <1>3 DEF ReadSingle, Answer
<1>5. /\ page.items = items /\ page.item_cursors = <<>> /\ page.next = NoCursor
      /\ page.truncated = t
      /\ page = Page(page.items, page.item_cursors, page.total, page.filtered, page.next,
                     page.truncated)
  BY <1>4 DEF Page
<1>6. items \in Seq({1})
  <2>1. <<>> \in Seq({1}) /\ <<1>> \in Seq({1})
    OBVIOUS
  <2> QED
    BY <1>2, <2>1, Zenon
<1>7. \A item : SizeOf(req, item) = 1
  BY DEF SizeOf, RecordViews, SingleViews
<1>8. IsPage(page)
  BY <1>3, <1>5 DEF IsPage
<1>9. DOMAIN page.item_cursors = {}
  BY <1>5
<1> QED
  BY <1>1, <1>5, <1>6, <1>7, <1>8, <1>9 DEF MovesOn

\* Where the cursor of a walk stands.
CursorStands(req, c) ==
    /\ req.view \in RecordViews \cup LogViews => c.at \in Nat
    /\ req.view = "query_results" => CursorOk(req, c)
    /\ req.view \in LedgerViews => LedgerCursorOk(req, c)

\* Every view but coverage reads a page that moves on.
LEMMA InspectMoves ==
    ASSUME inv \in Evidence, IsLedger(ledger), NEW req, req.view \in Views \ {"coverage"},
           NEW cursor, cursor # NoCursor, CursorStands(req, cursor),
           NEW items \in Int, NEW scan \in Int,
           NEW answer, answer = Inspect(req, cursor, items, scan), ~answer.error
    PROVE  MovesOn(req, cursor, answer.page)
<1>0. Refused.error /\ \A page : Answer(page).page = page
  BY DEF Refused, Answer
<1>1. CASE req.view \in LedgerViews
  <2>1. answer.page = ListInvocations(req, cursor, items, scan)
    BY <1>0, <1>1 DEF Inspect, ReadLedger
  <2> QED
    BY <1>1, <2>1, LedgerPageMoves DEF CursorStands
<1>2. ASSUME req.view \notin LedgerViews PROVE inv.state # "gone"
  BY <1>0, <1>2 DEF Inspect
<1>3. CASE req.view \in SingleViews
  <2>1. answer = ReadSingle(req)
    BY <1>2, <1>3 DEF Inspect, SingleViews, LedgerViews, RecordViews, LogViews
  <2> QED
    BY <1>3, <2>1, SingleMoves
<1>4. CASE req.view \in RecordViews
  <2>1. answer = ReadRecords(req, cursor, items, scan)
    BY <1>2, <1>4 DEF Inspect, SingleViews, LedgerViews, RecordViews, LogViews
  <2>2. answer.page = PageOfRecords(req.view, req, cursor, items, scan)
    BY <1>0, <2>1 DEF ReadRecords
  <2> QED
    BY <1>4, <2>2, RecordPageMoves DEF CursorStands
<1>5. CASE req.view = "query_results"
  <2>1. answer = ReadRows(req, cursor, items, scan)
    BY <1>2, <1>5 DEF Inspect, SingleViews, LedgerViews, RecordViews, LogViews
  <2> QED
    BY <1>5, <2>1, RowPageMoves DEF CursorStands
<1>6. CASE req.view \in LogViews
  <2>1. answer = ReadLog(req, cursor, items, scan)
    BY <1>2, <1>6 DEF Inspect, SingleViews, LedgerViews, RecordViews, LogViews
  <2>2. answer.page = PageEvidence(req.view, req.id, req.filter,
                                   EvidenceHits(req, LogSource(req.view)), cursor, items, scan)
    BY <1>0, <2>1 DEF ReadLog
  <2> QED
    BY <1>6, <2>2, LogPageMoves DEF CursorStands
<1> QED
  BY <1>1, <1>3, <1>4, <1>5, <1>6 DEF Views

\* A response whose first item would fit alone leads on.
LEMMA ResponseMoves ==
    ASSUME inv \in Evidence, IsLedger(ledger), NEW req, req.view \in Views \ {"coverage"},
           NEW cursor, cursor # NoCursor, CursorStands(req, cursor),
           NEW limit \in Nat, NEW requested \in Nat,
           ~BazelInspect(req, cursor, limit, requested).error,
           ~BazelInspect(req, cursor, limit, MaxBudget).error,
           NEW first, first = BazelInspect(req, cursor, limit, MaxBudget).page.items,
           first # <<>>, SizeOf(req, first[1]) + CursorSize(req) <= Budget(requested)
    PROVE  BazelInspect(req, cursor, limit, requested).page.next # cursor
<1>0. Refused.error
  BY DEF Refused
<1>1. CASE req.view = "tasks"
  <2>1. PICK answer : answer = Inspect(req, cursor, MaxItems, MinScan)
    OBVIOUS
  <2>2. BazelInspect(req, cursor, limit, requested) = answer
    BY <1>0, <1>1, <2>1 DEF BazelInspect
  <2>3. PICK n \in Int, m \in Int : n = MaxItems /\ m = MinScan
    BY LimitsAssumption, InspectionAssumption
  <2>4. MovesOn(req, cursor, answer.page)
    BY <2>1, <2>2, <2>3, InspectMoves
  <2> QED
    BY <2>2, <2>4 DEF MovesOn
<1>2. CASE req.view # "tasks"
  <2>1. PICK n \in Int : n = Clamp(limit, 1, MaxItems)
    BY LimitsAssumption DEF Clamp
  <2>2. PICK m \in Int : m = HandlerScan(n)
    BY <2>1, LimitsAssumption, InspectionAssumption DEF HandlerScan, Clamp
  <2>3. PICK read : read = Inspect(req, cursor, n, m)
    OBVIOUS
  <2>4. \A b : ~BazelInspect(req, cursor, limit, b).error =>
            /\ ~read.error
            /\ BazelInspect(req, cursor, limit, b) = Pack(req, read.page, Budget(b), cursor)
    BY <1>0, <1>2, <2>1, <2>2, <2>3 DEF BazelInspect, Packed
  <2>5. PICK page : page = read.page
    OBVIOUS
  <2>6. MovesOn(req, cursor, page)
    BY <2>3, <2>4, <2>5, InspectMoves
  <2>7. PICK budget \in Nat : budget = Budget(requested)
    BY InspectionAssumption DEF Budget, Clamp
  <2>8. page.items # <<>> /\ first[1] = page.items[1]
    <3>1. PICK b : b = Budget(MaxBudget)
      OBVIOUS
    <3>2. /\ ~Pack(req, page, b, cursor).error
          /\ first = Pack(req, page, b, cursor).page.items
      BY <2>4, <2>5, <3>1
    <3> QED
      BY <2>6, <3>2, PackShowsTheFirst
  <2>9. /\ ~Pack(req, page, budget, cursor).error
        /\ BazelInspect(req, cursor, limit, requested) = Pack(req, page, budget, cursor)
    BY <2>4, <2>5, <2>7
  <2>10. SizeOf(req, page.items[1]) + CursorSize(req) <= budget
    BY <2>7, <2>8
  <2>11. Pack(req, page, budget, cursor).page.next # cursor
    BY <2>6, <2>8, <2>9, <2>10, PackMovesOn
  <2> QED
    BY <2>9, <2>11
<1> QED
  BY <1>1, <1>2

\* A log that changes may leave the cursor anywhere, but it stays an index.
LogCursorStands ==
    client.req.view \in LogViews /\ client.cursor # NoCursor => client.cursor.at \in Nat

LEMMA LogResponseStands ==
    ASSUME inv \in Evidence, NEW req, req.view \in LogViews,
           NEW cursor, cursor # NoCursor => cursor.at \in Nat,
           NEW limit \in Nat, NEW requested,
           NEW answer, answer = BazelInspect(req, cursor, limit, requested), ~answer.error
    PROVE  answer.page.next # NoCursor => answer.page.next.at \in Nat
<1>0. Refused.error /\ \A page : Answer(page).page = page
  BY DEF Refused, Answer
<1>1. req.view # "tasks" /\ req.view \notin LedgerViews
  BY DEF LogViews, LedgerViews
<1>2. PICK n \in Int : n = Clamp(limit, 1, MaxItems)
  BY LimitsAssumption DEF Clamp
<1>3. PICK m \in Int : m = HandlerScan(n)
  BY <1>2, LimitsAssumption, InspectionAssumption DEF HandlerScan, Clamp
<1>4. PICK read : read = Inspect(req, cursor, n, m)
  OBVIOUS
<1>5. PICK budget : budget = Budget(requested)
  OBVIOUS
<1>6. ~read.error /\ answer = Pack(req, read.page, budget, cursor)
  BY <1>0, <1>1, <1>2, <1>3, <1>4, <1>5 DEF BazelInspect, Packed
<1>7. PICK page : page = PageEvidence(req.view, req.id, req.filter,
                                      EvidenceHits(req, LogSource(req.view)), cursor, n, m)
  OBVIOUS
<1>8. read.page = page
  <2>1. inv.state # "gone"
    BY <1>0, <1>1, <1>4, <1>6 DEF Inspect
  <2>2. read = ReadLog(req, cursor, n, m)
    BY <1>1, <1>4, <2>1 DEF Inspect, SingleViews, LedgerViews, RecordViews, LogViews
  <2> QED
    BY <1>0, <1>6, <1>7, <2>2 DEF ReadLog
<1>9. PICK after \in Nat : after = After(cursor)
  BY DEF After
<1>10. PageStandsPast(page, after, Len(LogSource(req.view)))
  BY <1>7, <1>9, LogPagePast
<1>11. PICK V : IsPage(page) /\ page.items \in Seq(V)
  BY <1>10 DEF PageStandsPast
<1>12. PICK k \in 0 .. Len(page.items) : PackedTo(page, cursor, k, answer.page)
  BY <1>6, <1>8, <1>11, PackKeepsTheFirst
<1>13. Len(page.items) \in Nat
  BY <1>11
<1>14. \/ answer.page.next \in {page.next, cursor, NoCursor}
       \/ \E i \in DOMAIN page.item_cursors : answer.page.next = page.item_cursors[i]
  BY <1>12, <1>13 DEF PackedTo
<1> QED
  BY <1>10, <1>14 DEF PageStandsPast, StandsPast

LEMMA LogCursorsStand ==
    WalkInvariant /\ LogCursorStands /\ [Next]_vars => LogCursorStands'
<1> SUFFICES ASSUME WalkInvariant, LogCursorStands, [Next]_vars PROVE LogCursorStands'
  OBVIOUS
<1>1. ASSUME NEW limit \in Limits, NEW budget \in Budgets, Ask(limit, budget)
      PROVE  LogCursorStands'
  <2>1. PICK answer : answer = BazelInspect(client.req, client.cursor, limit, budget)
    OBVIOUS
  <2>2. Receive(answer)
    BY <1>1, <2>1 DEF Ask
  <2>3. ClientOk /\ inv \in Evidence /\ limit \in Nat
    BY EvidenceAssumption DEF WalkInvariant
  <2>4. CASE answer.error
    <3>1. client'.req = client.req /\ client'.cursor = client.cursor
      BY <2>2, <2>3, <2>4 DEF Receive, ClientOk
    <3> QED
      BY <3>1 DEF LogCursorStands
  <2>5. CASE ~answer.error
    <3>1. client'.req = client.req /\ client'.cursor = answer.page.next
      BY <2>2, <2>3, <2>5 DEF Receive, ClientOk
    <3>2. client.req.view \in LogViews /\ answer.page.next # NoCursor
            => answer.page.next.at \in Nat
      BY <2>1, <2>3, <2>5, LogResponseStands DEF LogCursorStands
    <3> QED
      BY <3>1, <3>2 DEF LogCursorStands
  <2> QED
    BY <2>4, <2>5
<1>2. CASE ~\E limit \in Limits, budget \in Budgets : Ask(limit, budget)
  <2>1. client'.req = client.req /\ client'.cursor = client.cursor
    BY <1>2, OnlyAskReceives DEF WalkInvariant
  <2> QED
    BY <2>1 DEF LogCursorStands
<1> QED
  BY <1>1, <1>2

LEMMA WalkAdvances ==
    WalkInvariant /\ LogCursorStands => PageAdvances
<1> SUFFICES ASSUME WalkInvariant, LogCursorStands, client.status = "walking",
                    client.cursor # NoCursor, client.req.view # "coverage",
                    NEW limit \in Limits, NEW budget \in Budgets,
                    Stays(BazelInspect(client.req, client.cursor, limit, budget)),
                    NextFits(BazelInspect(client.req, client.cursor, limit, MaxBudget),
                             Budget(budget))
             PROVE  FALSE
  BY DEF PageAdvances
<1>1. PICK r, c : r = client.req /\ c = client.cursor
  OBVIOUS
<1>2. limit \in Nat /\ budget \in Nat
  BY EvidenceAssumption
<1>3. inv \in Evidence /\ IsLedger(ledger) /\ r \in Requests
  BY <1>1 DEF WalkInvariant, ClientOk
<1>4. r.view \in Views \ {"coverage"}
  BY <1>1, <1>3, RequestsAreKnown
<1>5. ~BazelInspect(r, c, limit, budget).error /\ BazelInspect(r, c, limit, budget).page.next = c
  BY <1>1 DEF Stays
<1>6. PICK first : first = BazelInspect(r, c, limit, MaxBudget).page.items
  OBVIOUS
<1>7. /\ ~BazelInspect(r, c, limit, MaxBudget).error /\ first # <<>>
      /\ SizeOf(r, first[1]) + CursorSize(r) <= Budget(budget)
  BY <1>1, <1>6 DEF NextFits
<1>8. ASSUME r.view \in PageViews, r.view \notin LogViews PROVE CursorOk(r, c)
  <2>1. r.view \notin LedgerViews
    BY <1>8 DEF PageViews, EvidenceViews
  <2>2. inv.state # "gone"
    BY <1>5, <2>1, AnsweredIsThere
  <2>3. Intact
    BY <1>1, <1>8, <2>2 DEF Intact
  <2> QED
    BY <1>1, <2>3 DEF WalkInvariant, EvidenceIsRead, Reads
<1>9. CursorStands(r, c)
  <2>1. r.view \in RecordViews => c.at \in Nat
    <3>1. SUFFICES ASSUME r.view \in RecordViews PROVE c.at \in Nat
      OBVIOUS
    <3>2. r.view \in PageViews /\ r.view \notin LogViews /\ r.view \in EvidenceViews
      BY <1>4, <3>1 DEF PageViews, EvidenceViews, RecordViews, LogViews, LedgerViews, SingleViews
    <3>3. CursorOk(r, c) /\ c # NoCursor
      BY <1>1, <1>8, <3>2
    <3>4. Len(ViewHits(r)) \in Nat
      BY <1>3, <3>2, HitsAreListed
    <3>5. c.kind = "ordinal" /\ Ordinal(c) \in 1 .. Len(ViewHits(r))
      BY <3>1, <3>3 DEF CursorOk, WalkKind
    <3> QED
      BY <3>4, <3>5 DEF Ordinal
  <2>2. r.view \in LogViews => c.at \in Nat
    BY <1>1 DEF LogCursorStands
  <2>3. r.view = "query_results" => CursorOk(r, c)
    <3>1. "query_results" \in PageViews /\ "query_results" \notin LogViews
      BY DEF PageViews, EvidenceViews, Views, LogViews, LedgerViews, SingleViews
    <3> QED
      BY <1>8, <3>1
  <2>4. r.view \in LedgerViews => LedgerCursorOk(r, c)
    BY <1>1 DEF WalkInvariant, LedgerIsRead
  <2> QED
    BY <2>1, <2>2, <2>3, <2>4 DEF CursorStands
<1>10. BazelInspect(r, c, limit, budget).page.next # c
  BY <1>1, <1>2, <1>3, <1>4, <1>5, <1>6, <1>7, <1>9, ResponseMoves
<1> QED
  BY <1>5, <1>10

\* A response that returns a cursor leads past the one it was asked with whenever the next
\* item alone fits in the budget, so that a client with a large enough budget comes to the
\* end of any view but coverage, also of a log that changes under it
\* (result.rs encode_inspect, types/inspection.rs truncate_items).
THEOREM EveryPageAdvances ==
    Spec => []PageAdvances
<1>1. Init => LogCursorStands
  BY DEF Init, LogCursorStands
<1> QED
  BY <1>1, LogCursorsStand, WalkAdvances, WalkInvariantHolds, PTL DEF Spec

\* A cursor leads forward, in its own walk only, and a walk through a failed invocation's
\* log begins with the failure (bazel_inspect, inspect, encode_inspect).
THEOREM WalksAreSound ==
    Spec => []WalkIsSound
  BY WalkTypes, CursorsStayInTheirWalk, EveryPageAdvances, FailuresComeFirst, PTL
     DEF WalkIsSound

=============================================================================
