-------------------------- MODULE SparseVector_proof --------------------------
(***************************************************************************)
(* Proofs about SparseVector, for any keys, thread blocks, pools and       *)
(* clients: the keys are sorted after any sequence of calls, because the   *)
(* merge and the compaction in thread blocks keep each key once and in     *)
(* order; the search without branches finds exactly the keys there are;    *)
(* and a flush reduces the old value of a key and the new one in the order *)
(* that is the device's or the host's.                                     *)
(***************************************************************************)
EXTENDS SparseVector, SequenceTheorems, FiniteSetTheorems, TLAPS

-----------------------------------------------------------------------------
(* Ranks: the sorted order of a finite set.                                *)

LEMMA LeastNat ==
  ASSUME NEW S, S \subseteq Nat, S # {}
  PROVE  \E n \in S : \A m \in S : n <= m
<1> DEFINE R == OpToRel(<, Nat)
<1>1. R = {ss \in Nat \X Nat : ss[1] < ss[2]}
  BY DEF OpToRel
<1>2. IsWellFoundedOn(R, Nat)
  BY NatLessThanWellFounded
<1> HIDE DEF R
<1>3. PICK n \in S : \A m \in S : ~(<<m, n>> \in R)
  BY <1>2, WFMin
<1>4. \A m \in S : <<m, n>> \in Nat \X Nat
  OBVIOUS
<1>5. \A m \in S : ~(m < n)
  BY <1>1, <1>3, <1>4
<1>6. QED BY <1>5

\* What lies below x in S, for a relation R.
Below(S, R, x) == {y \in S : <<y, x>> \in R}
Rank(S, R, x) == Cardinality(Below(S, R, x))

StrictOrder(S, R) ==
  /\ \A x \in S : <<x, x>> \notin R
  /\ \A x, y, z \in S : <<x, y>> \in R /\ <<y, z>> \in R => <<x, z>> \in R
  /\ \A x, y \in S : x = y \/ <<x, y>> \in R \/ <<y, x>> \in R

\* In a finite set with a total order each rank belongs to one element, and
\* ranks follow the order.
LEMMA Ranks ==
  ASSUME NEW S, IsFiniteSet(S), NEW R, StrictOrder(S, R)
  PROVE  /\ \A x \in S : Rank(S, R, x) \in 0 .. Cardinality(S) - 1
         /\ \A x, y \in S : Rank(S, R, x) < Rank(S, R, y) <=> <<x, y>> \in R
         /\ \A i \in 0 .. Cardinality(S) - 1 : \E x \in S : Rank(S, R, x) = i
<1>1. PICK n \in Nat : n = Cardinality(S)
  BY FS_CardinalityType
<1>2. ASSUME NEW x \in S PROVE IsFiniteSet(Below(S, R, x)) /\ Rank(S, R, x) \in 0 .. n - 1
  <2>1. Below(S, R, x) \in SUBSET (S \ {x})
    BY DEF Below, StrictOrder
  <2>2. IsFiniteSet(S \ {x}) /\ Cardinality(S \ {x}) = n - 1
    BY <1>1, <1>2, FS_RemoveElement
  <2>3. IsFiniteSet(Below(S, R, x)) /\ Cardinality(Below(S, R, x)) <= n - 1
    BY <2>1, <2>2, FS_Subset
  <2>4. Cardinality(Below(S, R, x)) \in Nat
    BY <2>3, FS_CardinalityType
  <2>5. QED BY <1>1, <2>3, <2>4 DEF Rank
<1>3. ASSUME NEW x \in S, NEW y \in S, <<x, y>> \in R
      PROVE  Rank(S, R, x) < Rank(S, R, y)
  <2>1. Below(S, R, x) \in SUBSET Below(S, R, y)
    BY <1>3 DEF Below, StrictOrder
  <2>2. x \in Below(S, R, y) /\ x \notin Below(S, R, x)
    BY <1>3 DEF Below, StrictOrder
  <2>3. IsFiniteSet(Below(S, R, y))
    BY <1>2
  <2>4. /\ Cardinality(Below(S, R, x)) <= Cardinality(Below(S, R, y))
        /\ Cardinality(Below(S, R, x)) # Cardinality(Below(S, R, y))
    BY <2>1, <2>2, <2>3, FS_Subset
  <2>5. Rank(S, R, x) \in Int /\ Rank(S, R, y) \in Int
    BY <1>2
  <2>6. QED BY <2>4, <2>5 DEF Rank
<1>4. ASSUME NEW x \in S, NEW y \in S
      PROVE  Rank(S, R, x) < Rank(S, R, y) <=> <<x, y>> \in R
  <2>1. Rank(S, R, x) \in Int /\ Rank(S, R, y) \in Int
    BY <1>2
  <2>2. x = y \/ <<x, y>> \in R \/ <<y, x>> \in R
    BY DEF StrictOrder
  <2>3. CASE x = y
    BY <2>1, <2>3 DEF StrictOrder
  <2>4. CASE <<y, x>> \in R
    <3>1. Rank(S, R, y) < Rank(S, R, x)
      BY <1>3, <2>4
    <3>2. <<x, y>> \notin R
      BY <2>4 DEF StrictOrder
    <3>3. QED BY <2>1, <3>1, <3>2
  <2>5. QED BY <1>3, <2>2, <2>3, <2>4
<1> DEFINE f == [x \in S |-> Rank(S, R, x)]
<1>5. f \in [S -> 0 .. n - 1]
  BY <1>2
<1>6. \A x, y \in S : f[x] = f[y] => x = y
  <2>1. SUFFICES ASSUME NEW x \in S, NEW y \in S, f[x] = f[y], x # y PROVE FALSE
    OBVIOUS
  <2>2. Rank(S, R, x) = Rank(S, R, y)
    BY <2>1
  <2>3. <<x, y>> \in R \/ <<y, x>> \in R
    BY <2>1 DEF StrictOrder
  <2>4. Rank(S, R, x) \in Int /\ Rank(S, R, y) \in Int
    BY <1>2
  <2>5. QED BY <1>3, <2>2, <2>3, <2>4
<1>7. f \in Injection(S, 0 .. n - 1)
  <2> HIDE DEF f
  <2>1. QED BY <1>5, <1>6 DEF Injection, IsInjective
<1>8. IsFiniteSet(0 .. n - 1) /\ Cardinality(0 .. n - 1) = n
  <2>1. IsFiniteSet(0 .. n - 1) /\ Cardinality(0 .. n - 1) = IF 0 > n - 1 THEN 0 ELSE n - 1 - 0 + 1
    BY FS_Interval
  <2>2. QED BY <2>1
<1>9. f \in Surjection(S, 0 .. n - 1)
  <2> HIDE DEF f
  <2>1. QED BY <1>1, <1>7, <1>8, FS_Injection
<1>10. \A i \in 0 .. n - 1 : \E x \in S : Rank(S, R, x) = i
  <2>1. \A i \in 0 .. n - 1 : \E x \in S : f[x] = i
    <3> HIDE DEF f
    <3>1. QED BY <1>9 DEF Surjection
  <2>2. QED BY <2>1
<1>11. QED BY <1>1, <1>2, <1>4, <1>10

\* The numbers of a finite set, each once, in ascending order.
LEMMA IncreasingIs ==
  ASSUME NEW S, S \subseteq Int, IsFiniteSet(S)
  PROVE  /\ Cardinality(S) \in Nat
         /\ Increasing(S) \in [1 .. Cardinality(S) -> S]
         /\ \A i, j \in 1 .. Cardinality(S) : i < j => Increasing(S)[i] < Increasing(S)[j]
         /\ \A x \in S : \E i \in 1 .. Cardinality(S) : Increasing(S)[i] = x
         /\ \A i \in 1 .. Cardinality(S) :
              Cardinality({l \in S : l < Increasing(S)[i]}) = i - 1
<1> DEFINE R == {xy \in Int \X Int : xy[1] < xy[2]}
           n == Cardinality(S)
           Of(i) == CHOOSE k \in S : Cardinality({l \in S : l < k}) = i - 1
<1>1. n \in Nat
  BY FS_CardinalityType
<1>2. \A x, y \in S : <<x, y>> \in R <=> x < y
  <2>1. \A x, y \in S : <<x, y>> \in Int \X Int
    OBVIOUS
  <2>2. QED BY <2>1
<1>3. \A k \in S : Rank(S, R, k) = Cardinality({l \in S : l < k})
  <2>1. ASSUME NEW k \in S PROVE Below(S, R, k) = {l \in S : l < k}
    <3> HIDE DEF R
    <3>1. QED BY <1>2 DEF Below
  <2>2. QED BY <2>1 DEF Rank
<1>4. StrictOrder(S, R)
  <2> HIDE DEF R
  <2>1. \A x \in S : x \in Int
    OBVIOUS
  <2>2. QED BY <1>2, <2>1 DEF StrictOrder
<1> HIDE DEF R
<1>5. /\ \A x \in S : Rank(S, R, x) \in 0 .. n - 1
      /\ \A x, y \in S : Rank(S, R, x) < Rank(S, R, y) <=> <<x, y>> \in R
      /\ \A i \in 0 .. n - 1 : \E x \in S : Rank(S, R, x) = i
  BY <1>4, Ranks
<1>6. Increasing(S) = [i \in 1 .. n |-> Of(i)]
  BY DEF Increasing
<1>7. ASSUME NEW i \in 1 .. n
      PROVE  Of(i) \in S /\ Cardinality({l \in S : l < Of(i)}) = i - 1
  <2>1. i - 1 \in 0 .. n - 1
    BY <1>1
  <2>2. PICK x \in S : Cardinality({l \in S : l < x}) = i - 1
    BY <1>3, <1>5, <2>1
  <2>3. QED BY <2>2
<1> HIDE DEF Of, n
<1>8. \A i \in 1 .. n : Increasing(S)[i] = Of(i)
  BY <1>6
<1>9. Increasing(S) \in [1 .. n -> S]
  BY <1>6, <1>7
<1>10. ASSUME NEW i \in 1 .. n, NEW j \in 1 .. n, i < j
       PROVE  Increasing(S)[i] < Increasing(S)[j]
  <2>1. Rank(S, R, Of(i)) = i - 1 /\ Rank(S, R, Of(j)) = j - 1
    BY <1>3, <1>7
  <2>2. Rank(S, R, Of(i)) < Rank(S, R, Of(j))
    BY <1>1, <1>10, <2>1
  <2>3. QED BY <1>2, <1>5, <1>7, <1>8, <2>2
<1>11. ASSUME NEW x \in S PROVE \E i \in 1 .. n : Increasing(S)[i] = x
  <2>1. PICK i \in 1 .. n : Rank(S, R, x) = i - 1
    <3>1. Rank(S, R, x) \in 0 .. n - 1
      BY <1>5
    <3>2. Rank(S, R, x) + 1 \in 1 .. n /\ Rank(S, R, x) = (Rank(S, R, x) + 1) - 1
      BY <1>1, <3>1
    <3>3. QED BY <3>2
  <2>2. Of(i) \in S /\ Rank(S, R, Of(i)) = i - 1
    BY <1>3, <1>7
  <2>3. ~(Rank(S, R, x) < Rank(S, R, Of(i))) /\ ~(Rank(S, R, Of(i)) < Rank(S, R, x))
    BY <1>1, <2>1, <2>2
  <2>4. x = Of(i)
    BY <1>4, <1>5, <2>2, <2>3 DEF StrictOrder
  <2>5. QED BY <1>8, <2>4
<1>12. QED BY <1>1, <1>7, <1>8, <1>9, <1>10, <1>11 DEF n

-----------------------------------------------------------------------------
(* Thread blocks: thread p of the grid is thread Tid(p) of block Block(p). *)

ThreadOf(b, t) == b * BlockDim + t + 1

LEMMA Products ==
  ASSUME NEW b \in Nat, NEW d \in Nat \ {0}
  PROVE  /\ b * d \in Nat /\ (b + 1) * d = b * d + d
         /\ \A c \in Nat : b < c => b * d + d <= c * d /\ c * d \in Nat
<1>1. b * d \in Nat /\ (b + 1) * d = b * d + d
  BY SMT
<1>2. ASSUME NEW c \in Nat, b < c PROVE b * d + d <= c * d /\ c * d \in Nat
  <2>1. PICK k \in Nat : c = b + 1 + k
    BY <1>2, SMT
  <2>2. c * d = (b + 1) * d + k * d /\ k * d \in Nat
    BY <2>1, SMT
  <2>3. QED BY <1>1, <2>2, SMT
<1>3. QED BY <1>1, <1>2

LEMMA ThreadSplits ==
  ASSUME NEW p \in Nat \ {0}
  PROVE  /\ Block(p) \in Nat /\ Tid(p) \in 0 .. BlockDim - 1
         /\ ThreadOf(Block(p), Tid(p)) = p
<1>1. PICK x \in Nat, d \in Nat \ {0} : x = p - 1 /\ d = BlockDim
  BY BlockDimAssumption
<1>2. /\ x \div d \in Nat /\ x % d \in 0 .. d - 1
      /\ x = (d * (x \div d)) + (x % d)
  BY SMT
<1>3. d * (x \div d) = (x \div d) * d
  BY <1>2, SMT
<1>4. PICK b \in Nat, t \in 0 .. d - 1 : b = x \div d /\ t = x % d
  BY <1>2
<1>5. Block(p) = b /\ Tid(p) = t
  BY <1>1, <1>4 DEF Block, Tid
<1>6. b * d \in Nat /\ x = b * d + t
  BY <1>2, <1>3, <1>4, Products
<1>7. QED BY <1>1, <1>5, <1>6 DEF ThreadOf

LEMMA ThreadOrder ==
  ASSUME NEW b \in Nat, NEW t \in 0 .. BlockDim - 1
  PROVE  /\ ThreadOf(b, t) \in Nat \ {0}
         /\ \A u \in 0 .. BlockDim - 1 :
              /\ ThreadOf(b, u) < ThreadOf(b, t) <=> u < t
              /\ \A c \in Nat : b < c => ThreadOf(b, t) < ThreadOf(c, u)
         /\ ThreadOf(b, BlockDim - 1) + 1 = ThreadOf(b + 1, 0)
<1>1. PICK d \in Nat \ {0} : d = BlockDim
  BY BlockDimAssumption
<1>2. b * d \in Nat /\ (b + 1) * d = b * d + d
  BY Products
<1>3. ASSUME NEW c \in Nat, b < c PROVE c * d \in Nat /\ b * d + d <= c * d
  BY <1>3, Products
<1>4. ThreadOf(b, t) \in Nat \ {0}
  BY <1>1, <1>2 DEF ThreadOf
<1>5. ASSUME NEW u \in 0 .. BlockDim - 1
      PROVE  /\ ThreadOf(b, u) < ThreadOf(b, t) <=> u < t
             /\ \A c \in Nat : b < c => ThreadOf(b, t) < ThreadOf(c, u)
  BY <1>1, <1>2, <1>3 DEF ThreadOf
<1>6. ThreadOf(b, BlockDim - 1) + 1 = ThreadOf(b + 1, 0)
  BY <1>1, <1>2 DEF ThreadOf
<1>7. QED BY <1>4, <1>5, <1>6

LEMMA ThreadIs ==
  ASSUME NEW b \in Nat, NEW t \in 0 .. BlockDim - 1
  PROVE  Block(ThreadOf(b, t)) = b /\ Tid(ThreadOf(b, t)) = t
<1>1. PICK p \in Nat \ {0} : p = ThreadOf(b, t)
  BY ThreadOrder
<1>2. PICK c \in Nat, u \in 0 .. BlockDim - 1 : c = Block(p) /\ u = Tid(p) /\ ThreadOf(c, u) = p
  BY ThreadSplits
<1>3. ~(b < c)
  BY <1>1, <1>2, ThreadOrder
<1>4. ~(c < b)
  BY <1>1, <1>2, ThreadOrder
<1>5. b = c
  BY <1>3, <1>4
<1>6. ~(u < t) /\ ~(t < u)
  <2>1. ThreadOf(b, u) = ThreadOf(b, t)
    BY <1>1, <1>2, <1>5
  <2>2. ~(ThreadOf(b, u) < ThreadOf(b, t)) /\ ~(ThreadOf(b, t) < ThreadOf(b, u))
    BY <2>1, ThreadOrder
  <2>3. QED BY <2>2, ThreadOrder
<1>7. u = t
  BY <1>6, BlockDimAssumption
<1>8. QED BY <1>1, <1>2, <1>5, <1>7

LEMMA BlocksInOrder ==
  ASSUME NEW p \in Nat \ {0}, NEW q \in Nat \ {0}
  PROVE  /\ p < q => Block(p) <= Block(q)
         /\ Block(p) = Block(q) => (p < q <=> Tid(p) < Tid(q))
         /\ Block(p) < Block(q) => p < q
<1>1. PICK b \in Nat, t \in 0 .. BlockDim - 1 : b = Block(p) /\ t = Tid(p) /\ ThreadOf(b, t) = p
  BY ThreadSplits
<1>2. PICK c \in Nat, u \in 0 .. BlockDim - 1 : c = Block(q) /\ u = Tid(q) /\ ThreadOf(c, u) = q
  BY ThreadSplits
<1>3. c < b => q < p
  BY <1>1, <1>2, ThreadOrder
<1>4. b < c => p < q
  BY <1>1, <1>2, ThreadOrder
<1>5. ASSUME b = c PROVE p < q <=> t < u
  <2>1. ThreadOf(b, t) < ThreadOf(b, u) <=> t < u
    BY ThreadOrder
  <2>2. ThreadOf(b, u) = q
    BY <1>2, <1>5
  <2>3. QED BY <1>1, <2>1, <2>2
<1>6. (p < q => b <= c) /\ (b < c => p < q)
  <2>1. b \in Int /\ c \in Int
    BY <1>1, <1>2
  <2>2. ~(c < b /\ p < q)
    BY <1>3
  <2>3. QED BY <1>4, <2>1, <2>2
<1>7. QED BY <1>1, <1>2, <1>5, <1>6

-----------------------------------------------------------------------------
(* Compaction in thread blocks.  Kept are the entries with predicate 1.    *)

Predicate(pred, n) == n \in Nat /\ pred \in [1 .. n -> BOOLEAN]
Kept(pred) == {q \in DOMAIN pred : pred[q]}
KeptIn(pred, b) == {q \in Kept(pred) : Block(q) = b}
KeptInto(pred, p) == {q \in KeptIn(pred, Block(p)) : q < p}
KeptUnder(pred, b) == {q \in Kept(pred) : Block(q) < b}
KeptBefore(pred, p) == {q \in Kept(pred) : q < p}

\* A set in two parts has as many elements as the parts together.
LEMMA PartsCount ==
  ASSUME NEW A, NEW B, NEW C, IsFiniteSet(C), C = A \cup B, A \cap B = {}
  PROVE  /\ Cardinality(A) \in Nat /\ Cardinality(B) \in Nat
         /\ Cardinality(C) = Cardinality(A) + Cardinality(B)
<1>1. A \in SUBSET C /\ B \in SUBSET C
  OBVIOUS
<1>2. IsFiniteSet(A) /\ IsFiniteSet(B)
  BY <1>1, FS_Subset
<1>3. Cardinality(C) = Cardinality(A) + Cardinality(B) - Cardinality({})
  BY <1>2, FS_Union
<1>4. Cardinality(A) \in Nat /\ Cardinality(B) \in Nat
  BY <1>2, FS_CardinalityType
<1>5. QED BY <1>3, <1>4, FS_EmptySet

\* Numbers from b's first thread up to, not including, thread t are t.
LEMMA IntervalCount ==
  ASSUME NEW S, NEW a \in Int, NEW t \in Nat, S \subseteq a .. a + t - 1
  PROVE  IsFiniteSet(S) /\ Cardinality(S) \in 0 .. t
<1>1. IsFiniteSet(a .. a + t - 1) /\ Cardinality(a .. a + t - 1) = t
  <2>1. PICK c \in Int : c = a + t - 1
    OBVIOUS
  <2>2. IsFiniteSet(a .. c) /\ Cardinality(a .. c) = IF a > c THEN 0 ELSE c - a + 1
    BY FS_Interval
  <2>3. QED BY <2>1, <2>2
<1>2. IsFiniteSet(S) /\ Cardinality(S) <= t
  BY <1>1, FS_Subset
<1>3. Cardinality(S) \in Nat
  BY <1>2, FS_CardinalityType
<1>4. QED BY <1>2, <1>3

LEMMA KeptCounts ==
  ASSUME NEW pred, NEW n, Predicate(pred, n)
  PROVE  /\ DOMAIN pred = 1 .. n /\ Kept(pred) \subseteq 1 .. n
         /\ IsFiniteSet(Kept(pred)) /\ Cardinality(Kept(pred)) \in Nat
         /\ \A b : IsFiniteSet(KeptIn(pred, b)) /\ IsFiniteSet(KeptUnder(pred, b))
         /\ \A b : Tot(pred, b) = Cardinality(KeptIn(pred, b)) /\ Tot(pred, b) \in Nat
         /\ \A b : Base(pred, b) = Cardinality(KeptUnder(pred, b)) /\ Base(pred, b) \in Nat
         /\ \A p : Scan(pred, p) = Cardinality(KeptInto(pred, p)) /\ Scan(pred, p) \in Nat
<1>1. DOMAIN pred = 1 .. n /\ Kept(pred) \in SUBSET (1 .. n)
  BY DEF Predicate, Kept
<1>2. IsFiniteSet(1 .. n)
  BY FS_Interval DEF Predicate
<1>3. IsFiniteSet(Kept(pred)) /\ Cardinality(Kept(pred)) \in Nat
  BY <1>1, <1>2, FS_Subset, FS_CardinalityType
<1>4. \A T \in SUBSET Kept(pred) : IsFiniteSet(T) /\ Cardinality(T) \in Nat
  BY <1>3, FS_Subset, FS_CardinalityType
<1>5. ASSUME NEW b
      PROVE  /\ IsFiniteSet(KeptIn(pred, b)) /\ IsFiniteSet(KeptUnder(pred, b))
             /\ Tot(pred, b) = Cardinality(KeptIn(pred, b)) /\ Tot(pred, b) \in Nat
             /\ Base(pred, b) = Cardinality(KeptUnder(pred, b)) /\ Base(pred, b) \in Nat
  <2>1. KeptIn(pred, b) \in SUBSET Kept(pred) /\ KeptUnder(pred, b) \in SUBSET Kept(pred)
    BY DEF KeptIn, KeptUnder
  <2>2. KeptIn(pred, b) = {q \in DOMAIN pred : Block(q) = b /\ pred[q]}
    BY DEF KeptIn, Kept
  <2>3. KeptUnder(pred, b) = {q \in DOMAIN pred : Block(q) < b /\ pred[q]}
    BY DEF KeptUnder, Kept
  <2>4. QED BY <1>4, <2>1, <2>2, <2>3 DEF Tot, Base
<1>6. ASSUME NEW p
      PROVE  Scan(pred, p) = Cardinality(KeptInto(pred, p)) /\ Scan(pred, p) \in Nat
  <2>1. KeptInto(pred, p) \in SUBSET Kept(pred)
    BY DEF KeptInto, KeptIn
  <2>2. KeptInto(pred, p) = {q \in DOMAIN pred : Block(q) = Block(p) /\ q < p /\ pred[q]}
    BY DEF KeptInto, KeptIn, Kept
  <2>3. QED BY <1>4, <2>1, <2>2 DEF Scan
<1>7. QED BY <1>1, <1>3, <1>5, <1>6

\* Where an entry stands among those kept: behind those of earlier blocks and
\* those the scan has counted.
LEMMA ScanCounts ==
  ASSUME NEW pred, NEW n, Predicate(pred, n), NEW p \in 1 .. n
  PROVE  /\ Cardinality(KeptBefore(pred, p)) = Base(pred, Block(p)) + Scan(pred, p)
         /\ Scan(pred, p) <= Tid(p)
         /\ Scan(pred, p) <= Tot(pred, Block(p))
         /\ pred[p] => Scan(pred, p) < Tot(pred, Block(p))
<1>0. /\ DOMAIN pred = 1 .. n /\ Kept(pred) \subseteq 1 .. n
      /\ IsFiniteSet(Kept(pred))
      /\ IsFiniteSet(KeptIn(pred, Block(p)))
      /\ Tot(pred, Block(p)) = Cardinality(KeptIn(pred, Block(p))) /\ Tot(pred, Block(p)) \in Nat
      /\ Base(pred, Block(p)) = Cardinality(KeptUnder(pred, Block(p)))
      /\ Scan(pred, p) = Cardinality(KeptInto(pred, p)) /\ Scan(pred, p) \in Nat
  BY KeptCounts
<1>1. n \in Nat /\ p \in Nat \ {0} /\ \A q \in Kept(pred) : q \in Nat \ {0}
  BY <1>0 DEF Predicate
<1>2. \A q \in Kept(pred) : Block(q) \in Nat /\ Tid(q) \in 0 .. BlockDim - 1 /\ ThreadOf(Block(q), Tid(q)) = q
  BY <1>1, ThreadSplits
<1>3. Block(p) \in Nat /\ Tid(p) \in 0 .. BlockDim - 1 /\ ThreadOf(Block(p), Tid(p)) = p
  BY <1>1, ThreadSplits
<1>4. ASSUME NEW q \in Kept(pred)
      PROVE  /\ q < p => Block(q) <= Block(p)
             /\ Block(q) = Block(p) => (q < p <=> Tid(q) < Tid(p))
             /\ Block(q) < Block(p) => q < p
  BY <1>1, BlocksInOrder
<1>5. KeptBefore(pred, p) = KeptUnder(pred, Block(p)) \cup KeptInto(pred, p)
  BY <1>2, <1>3, <1>4 DEF KeptBefore, KeptUnder, KeptInto, KeptIn
<1>6. KeptUnder(pred, Block(p)) \cap KeptInto(pred, p) = {}
  BY <1>2, <1>3 DEF KeptUnder, KeptInto, KeptIn
<1>7. KeptBefore(pred, p) \in SUBSET Kept(pred)
  BY DEF KeptBefore
<1>8. IsFiniteSet(KeptBefore(pred, p))
  BY <1>0, <1>7, FS_Subset
<1>9. Cardinality(KeptBefore(pred, p)) = Base(pred, Block(p)) + Scan(pred, p)
  BY <1>0, <1>5, <1>6, <1>8, PartsCount
<1>10. Scan(pred, p) <= Tid(p)
  <2>0. PICK c \in Nat : c = Block(p) * BlockDim
    BY <1>3, BlockDimAssumption, Products
  <2>1. PICK a \in Int : a = c + 1
    OBVIOUS
  <2>2. a + Tid(p) = p
    BY <1>1, <1>3, <2>0, <2>1 DEF ThreadOf
  <2>3. \A q \in KeptIn(pred, Block(p)) : q >= a
    <3>1. SUFFICES ASSUME NEW q \in Kept(pred), Block(q) = Block(p) PROVE q >= a
      BY DEF KeptIn
    <3>2. ThreadOf(Block(p), Tid(q)) = q /\ Tid(q) >= 0 /\ Tid(q) \in Int
      BY <1>2, <3>1
    <3>3. QED BY <2>0, <2>1, <3>2 DEF ThreadOf
  <2>4. PICK t \in Nat : t = Tid(p)
    BY <1>3
  <2>5. KeptInto(pred, p) \subseteq a .. a + t - 1
    <3>1. \A q \in KeptInto(pred, p) : q \in Nat /\ q >= a /\ q < p
      BY <1>1, <2>3 DEF KeptInto, KeptIn
    <3>2. \A q \in KeptInto(pred, p) : q \in a .. a + t - 1
      BY <1>1, <2>1, <2>2, <2>4, <3>1
    <3>3. QED BY <3>2
  <2>6. Cardinality(KeptInto(pred, p)) \in 0 .. t
    BY <2>5, IntervalCount
  <2>7. QED BY <1>0, <2>4, <2>6
<1>11. Scan(pred, p) <= Tot(pred, Block(p))
  <2>1. KeptInto(pred, p) \in SUBSET KeptIn(pred, Block(p))
    BY DEF KeptInto
  <2>2. QED BY <1>0, <2>1, FS_Subset
<1>12. ASSUME pred[p] PROVE Scan(pred, p) < Tot(pred, Block(p))
  <2>1. KeptInto(pred, p) \in SUBSET KeptIn(pred, Block(p))
    BY DEF KeptInto
  <2>2. p \in KeptIn(pred, Block(p)) /\ p \notin KeptInto(pred, p)
    BY <1>0, <1>1, <1>12 DEF KeptIn, Kept, KeptInto
  <2>3. Cardinality(KeptInto(pred, p)) # Cardinality(KeptIn(pred, Block(p)))
    BY <1>0, <2>1, <2>2, FS_Subset
  <2>4. QED BY <1>0, <1>11, <2>3
<1>13. QED BY <1>9, <1>10, <1>11, <1>12

LEMMA BlocksAdd ==
  ASSUME NEW pred, NEW n, Predicate(pred, n), NEW b \in Nat
  PROVE  Base(pred, b + 1) = Base(pred, b) + Tot(pred, b)
<1>0. /\ Kept(pred) \subseteq 1 .. n /\ IsFiniteSet(KeptUnder(pred, b + 1))
      /\ Tot(pred, b) = Cardinality(KeptIn(pred, b))
      /\ Base(pred, b) = Cardinality(KeptUnder(pred, b))
      /\ Base(pred, b + 1) = Cardinality(KeptUnder(pred, b + 1))
  BY KeptCounts
<1>1. \A q \in Kept(pred) : q \in Nat \ {0}
  BY <1>0 DEF Predicate
<1>2. \A q \in Kept(pred) : Block(q) \in Nat
  BY <1>1, ThreadSplits
<1>3. KeptUnder(pred, b + 1) = KeptUnder(pred, b) \cup KeptIn(pred, b)
  BY <1>2 DEF KeptUnder, KeptIn
<1>4. KeptUnder(pred, b) \cap KeptIn(pred, b) = {}
  BY <1>2 DEF KeptUnder, KeptIn
<1>5. QED BY <1>0, <1>3, <1>4, PartsCount

\* The i-th of the kept entries is the one whose block and scan say so.
Goes(pred, q, i) == Base(pred, Block(q)) + Scan(pred, q) = i - 1
Nth(pred, i) == Increasing(Kept(pred))[i]

LEMMA KeptPlaces ==
  ASSUME NEW pred, NEW n, Predicate(pred, n), NEW i \in 1 .. Cardinality(Kept(pred))
  PROVE  /\ Nth(pred, i) \in Kept(pred) /\ Goes(pred, Nth(pred, i), i)
         /\ \A q \in Kept(pred) : Goes(pred, q, i) => q = Nth(pred, i)
<1>0. /\ Kept(pred) \subseteq 1 .. n /\ IsFiniteSet(Kept(pred))
      /\ Cardinality(Kept(pred)) \in Nat
  BY KeptCounts
<1>1. Kept(pred) \subseteq Int
  BY <1>0
<1> DEFINE S == Kept(pred)
<1>2. /\ Increasing(S) \in [1 .. Cardinality(S) -> S]
      /\ \A x \in S : \E j \in 1 .. Cardinality(S) : Increasing(S)[j] = x
      /\ \A j \in 1 .. Cardinality(S) : Cardinality({l \in S : l < Increasing(S)[j]}) = j - 1
  <2> HIDE DEF S
  <2>1. S \subseteq Int /\ IsFiniteSet(S)
    BY <1>0, <1>1 DEF S
  <2>2. QED BY <2>1, IncreasingIs
<1>3. \A q \in S : Cardinality(KeptBefore(pred, q)) = Base(pred, Block(q)) + Scan(pred, q)
  BY <1>0, ScanCounts
<1>4. \A j \in 1 .. Cardinality(S) :
        Nth(pred, j) \in S /\ Cardinality(KeptBefore(pred, Nth(pred, j))) = j - 1
  BY <1>2 DEF Nth, KeptBefore
<1>5. ASSUME NEW q \in S, Goes(pred, q, i) PROVE q = Nth(pred, i)
  <2>1. PICK j \in 1 .. Cardinality(S) : Nth(pred, j) = q
    BY <1>2 DEF Nth
  <2>2. j - 1 = i - 1
    BY <1>3, <1>4, <1>5, <2>1 DEF Goes
  <2>3. j = i
    BY <1>0, <2>2
  <2>4. QED BY <2>1, <2>3
<1>6. Goes(pred, Nth(pred, i), i)
  BY <1>3, <1>4 DEF Goes
<1>7. QED BY <1>4, <1>5, <1>6

\* Every number below the total of a block is the scan of one it keeps.
LEMMA ScanReaches ==
  ASSUME NEW pred, NEW n, Predicate(pred, n), NEW b \in Nat, NEW t \in Nat, t < Tot(pred, b)
  PROVE  \E q \in KeptIn(pred, b) : Scan(pred, q) = t
<1>0. /\ Kept(pred) \subseteq 1 .. n
      /\ IsFiniteSet(KeptIn(pred, b))
      /\ Tot(pred, b) = Cardinality(KeptIn(pred, b)) /\ Tot(pred, b) \in Nat
      /\ \A p : Scan(pred, p) = Cardinality(KeptInto(pred, p))
  BY KeptCounts
<1>1. PICK S : S = KeptIn(pred, b)
  OBVIOUS
<1>2. S \subseteq Int
  BY <1>0, <1>1 DEF KeptIn
<1>3. /\ Increasing(S) \in [1 .. Cardinality(S) -> S]
      /\ \A j \in 1 .. Cardinality(S) : Cardinality({l \in S : l < Increasing(S)[j]}) = j - 1
  BY <1>0, <1>1, <1>2, IncreasingIs
<1>4. PICK j \in 1 .. Cardinality(S) : j - 1 = t
  <2>1. t + 1 \in 1 .. Cardinality(S) /\ (t + 1) - 1 = t
    BY <1>0, <1>1
  <2>2. QED BY <2>1
<1>5. PICK q \in S : q = Increasing(S)[j]
  BY <1>3
<1>6. Block(q) = b
  BY <1>1 DEF KeptIn
<1>7. KeptInto(pred, q) = {l \in S : l < q}
  BY <1>1, <1>6 DEF KeptInto
<1>8. Scan(pred, q) = t
  BY <1>0, <1>3, <1>4, <1>5, <1>7
<1>9. QED BY <1>1, <1>8

\* The last thread of a block that has an entry.
LastIn(n, b, l) ==
  /\ l \in 1 .. n /\ Block(l) = b
  /\ l = n \/ Tid(l) = BlockDim - 1
  /\ \A q \in 1 .. n : Block(q) = b => q <= l

LEMMA LastExists ==
  ASSUME NEW n \in Nat, NEW p \in 1 .. n
  PROVE  \E l \in 1 .. n : LastIn(n, Block(p), l)
<1>1. p \in Nat \ {0} /\ n \in Nat \ {0}
  OBVIOUS
<1>2. PICK b \in Nat : b = Block(p)
  BY <1>1, ThreadSplits
<1>3. PICK t \in 0 .. BlockDim - 1 : t = BlockDim - 1
  BY BlockDimAssumption
<1>4. PICK e \in Nat \ {0} : e = ThreadOf(b, t)
  BY ThreadOrder
<1>5. Block(e) = b /\ Tid(e) = t
  BY <1>4, ThreadIs
<1>6. \A q \in 1 .. n : q \in Nat \ {0}
  OBVIOUS
<1>7. \A q \in 1 .. n : Block(q) = b => q <= e
  <2>1. SUFFICES ASSUME NEW q \in 1 .. n, Block(q) = b PROVE q <= e
    OBVIOUS
  <2>2. Tid(q) \in 0 .. BlockDim - 1
    BY <1>6, ThreadSplits
  <2>3. ~(e < q)
    <3>1. e < q <=> Tid(e) < Tid(q)
      BY <1>5, <1>6, <2>1, BlocksInOrder
    <3>2. QED BY <1>3, <1>5, <2>2, <3>1, BlockDimAssumption
  <2>4. QED BY <1>6, <2>3
<1>8. CASE e <= n
  <2>1. LastIn(n, b, e)
    BY <1>3, <1>5, <1>7, <1>8, <1>4 DEF LastIn
  <2>2. QED BY <1>2, <2>1 DEF LastIn
<1>9. CASE ~(e <= n)
  <2>1. n < e
    BY <1>9
  <2>2. PICK c \in Nat : c = Block(n)
    BY <1>1, ThreadSplits
  <2>3. c <= b
    <3>1. n < e => Block(n) <= Block(e)
      BY <1>1, BlocksInOrder
    <3>2. QED BY <1>5, <2>1, <2>2, <3>1
  <2>4. b <= c
    <3>1. p < n => Block(p) <= Block(n)
      BY <1>1, BlocksInOrder
    <3>2. CASE p = n
      BY <1>2, <2>2, <3>2
    <3>3. QED BY <1>2, <2>2, <3>1, <3>2
  <2>5. LastIn(n, b, n)
    BY <1>1, <2>2, <2>3, <2>4 DEF LastIn
  <2>6. QED BY <1>1, <1>2, <2>5 DEF LastIn
<1>10. QED BY <1>8, <1>9

LEMMA LastWroteIs ==
  ASSUME NEW pred, NEW n, Predicate(pred, n), NEW b, NEW l, LastIn(n, b, l)
  PROVE  LastWrote(pred, b) = pred[l]
<1>1. Len(pred) = n
  BY DEF Predicate
<1>2. l \in Threads(n, b) /\ \A q \in Threads(n, b) : q <= l
  BY DEF LastIn, Threads
<1>3. Threads(n, b) \subseteq Int
  BY DEF Threads
<1>4. \A p \in Threads(n, b) : (\A q \in Threads(n, b) : q <= p) => p = l
  BY <1>2, <1>3
<1>5. (CHOOSE p \in Threads(n, b) : \A q \in Threads(n, b) : q <= p) = l
  BY <1>2, <1>4
<1>6. QED BY <1>1, <1>5 DEF LastWrote

\* At most every other entry is left out, and never the last.
NoTwo(pred, n) == \A p \in 1 .. n : ~pred[p] => p < n /\ pred[p + 1]

LEMMA SlotsAre ==
  ASSUME NEW pred, NEW n, Predicate(pred, n), NEW p \in 1 .. n
  PROVE  /\ Block(p) \in Nat /\ Scan(pred, p) \in 0 .. BlockDim - 1
         /\ Slot(pred, p) = ThreadOf(Block(p), Scan(pred, p))
         /\ Slot(pred, p) \in 1 .. n
         /\ Block(Slot(pred, p)) = Block(p) /\ Tid(Slot(pred, p)) = Scan(pred, p)
<1>1. p \in Nat \ {0} /\ n \in Nat \ {0} /\ BlockDim \in Nat \ {0}
  BY BlockDimAssumption DEF Predicate
<1>2. Block(p) \in Nat /\ Tid(p) \in 0 .. BlockDim - 1 /\ ThreadOf(Block(p), Tid(p)) = p
  BY <1>1, ThreadSplits
<1>3. Scan(pred, p) \in Nat /\ Scan(pred, p) <= Tid(p)
  BY ScanCounts, KeptCounts
<1>4. PICK b \in Nat, t \in 0 .. BlockDim - 1, s \in 0 .. BlockDim - 1 :
        b = Block(p) /\ t = Tid(p) /\ s = Scan(pred, p) /\ s <= t
  BY <1>1, <1>2, <1>3
<1>5. Slot(pred, p) = ThreadOf(b, s)
  BY <1>4 DEF Slot, ThreadOf
<1>6. ThreadOf(b, s) \in Nat \ {0} /\ (ThreadOf(b, t) < ThreadOf(b, s) <=> t < s)
  BY ThreadOrder
<1>7. ThreadOf(b, s) \in 1 .. n
  BY <1>1, <1>2, <1>4, <1>6
<1>8. Block(ThreadOf(b, s)) = b /\ Tid(ThreadOf(b, s)) = s
  BY ThreadIs
<1>9. QED BY <1>4, <1>5, <1>7, <1>8

\* When the last thread of a block keeps nothing, its entry is the first of
\* the next block's partner.
LEMMA UnkeptLast ==
  ASSUME NEW pred, NEW n, Predicate(pred, n), NoTwo(pred, n),
         NEW b \in Nat, NEW l, LastIn(n, b, l), ~pred[l]
  PROVE  /\ l + 1 \in 1 .. n /\ pred[l + 1] /\ Tid(l) = BlockDim - 1
         /\ Block(l + 1) = b + 1 /\ Tid(l + 1) = 0 /\ Scan(pred, l + 1) = 0
         /\ Scan(pred, l) = Tot(pred, b) /\ Tot(pred, b) \in 0 .. BlockDim - 1
<1>1. l \in 1 .. n /\ n \in Nat /\ Block(l) = b
  BY DEF LastIn, Predicate
<1>2. l < n /\ pred[l + 1]
  BY <1>1 DEF NoTwo
<1>3. Tid(l) = BlockDim - 1
  BY <1>1, <1>2 DEF LastIn
<1>4. PICK t \in 0 .. BlockDim - 1 : t = BlockDim - 1
  BY BlockDimAssumption
<1>5. ThreadOf(b, t) = l /\ ThreadOf(b, t) + 1 = ThreadOf(b + 1, 0)
  <2>1. l \in Nat \ {0}
    BY <1>1
  <2>2. ThreadOf(Block(l), Tid(l)) = l
    BY <2>1, ThreadSplits
  <2>3. ThreadOf(b, BlockDim - 1) + 1 = ThreadOf(b + 1, 0)
    BY <1>4, ThreadOrder
  <2>4. QED BY <1>1, <1>3, <1>4, <2>2, <2>3
<1>6. Block(l + 1) = b + 1 /\ Tid(l + 1) = 0
  <2>1. 0 \in 0 .. BlockDim - 1 /\ b + 1 \in Nat
    BY <1>4
  <2>2. Block(ThreadOf(b + 1, 0)) = b + 1 /\ Tid(ThreadOf(b + 1, 0)) = 0
    BY <2>1, ThreadIs
  <2>3. QED BY <1>5, <2>2
<1>7. l + 1 \in 1 .. n
  BY <1>1, <1>2
<1>8. Scan(pred, l + 1) = 0
  <2>1. Scan(pred, l + 1) <= Tid(l + 1) /\ Scan(pred, l + 1) \in Nat
    BY <1>7, ScanCounts, KeptCounts
  <2>2. QED BY <1>6, <2>1
<1>9. Scan(pred, l) = Tot(pred, b)
  <2>1. /\ Kept(pred) \subseteq 1 .. n
        /\ Tot(pred, b) = Cardinality(KeptIn(pred, b))
        /\ Scan(pred, l) = Cardinality(KeptInto(pred, l))
    BY KeptCounts
  <2>2. \A q \in KeptIn(pred, b) : q <= l /\ q # l /\ q \in Int
    BY <2>1 DEF KeptIn, Kept, LastIn
  <2>3. KeptInto(pred, l) = KeptIn(pred, b)
    BY <1>1, <2>2 DEF KeptInto
  <2>4. QED BY <2>1, <2>3
<1>10. Tot(pred, b) \in 0 .. BlockDim - 1
  BY <1>1, <1>9, SlotsAre
<1>11. QED BY <1>2, <1>3, <1>6, <1>7, <1>8, <1>9, <1>10

\* What the output of a compaction holds where realign reads it: the value of
\* a kept entry at its slot, unless its partner is the last of the block
\* before, which left it there.
Joined(pred, p) == Tid(p) = 0 /\ p > 1 /\ ~pred[p - 1]
Fills(pred, n, out, val) ==
  \A p \in 1 .. n :
    /\ pred[p] /\ ~Joined(pred, p) => out[Slot(pred, p)] = val[p]
    /\ ~pred[p] /\ Tid(p) = BlockDim - 1 => out[Slot(pred, p)] = val[p + 1]

LEMMA CopiedGives ==
  ASSUME NEW pred, NEW n, Predicate(pred, n), NoTwo(pred, n),
         NEW out, NEW val, Fills(pred, n, out, val),
         NEW p \in 1 .. n, Copied(pred, p),
         NEW i, i = Base(pred, Block(p)) + Tid(p) + 1
  PROVE  i \in 1 .. Cardinality(Kept(pred)) /\ out[p] = val[Nth(pred, i)]
<1>0. /\ DOMAIN pred = 1 .. n /\ Kept(pred) \subseteq 1 .. n
      /\ Cardinality(Kept(pred)) \in Nat
      /\ \A b : Base(pred, b) \in Nat /\ Tot(pred, b) \in Nat
  BY KeptCounts
<1>1. p \in Nat \ {0} /\ n \in Nat
  BY DEF Predicate
<1>2. PICK b \in Nat, t \in 0 .. BlockDim - 1 : b = Block(p) /\ t = Tid(p) /\ ThreadOf(b, t) = p
  BY <1>1, ThreadSplits
<1>3. t \in Nat /\ i = Base(pred, b) + t + 1
  BY <1>2, BlockDimAssumption
<1>4. i \in 1 .. Cardinality(Kept(pred))
  BY <1>0, <1>2, <1>3 DEF Copied, Kept
<1>5. /\ Nth(pred, i) \in Kept(pred) /\ Goes(pred, Nth(pred, i), i)
      /\ \A q \in Kept(pred) : Goes(pred, q, i) => q = Nth(pred, i)
  BY <1>4, KeptPlaces
<1>6. CASE t < Tot(pred, b)
  <2>1. PICK q \in KeptIn(pred, b) : Scan(pred, q) = t
    BY <1>3, <1>6, ScanReaches
  <2>2. q \in Kept(pred) /\ Block(q) = b /\ q \in 1 .. n /\ pred[q]
    BY <1>0, <2>1 DEF KeptIn, Kept
  <2>3. q = Nth(pred, i)
    <3>1. Goes(pred, q, i)
      BY <1>0, <1>3, <2>1, <2>2 DEF Goes
    <3>2. QED BY <1>5, <2>2, <3>1
  <2>4. Slot(pred, q) = p
    BY <1>2, <2>1, <2>2, SlotsAre
  <2>5. ~Joined(pred, q)
    <3>1. SUFFICES ASSUME Tid(q) = 0, q > 1, ~pred[q - 1] PROVE FALSE
      BY DEF Joined
    <3>2. t = 0
      <4>1. Scan(pred, q) <= Tid(q)
        BY <2>2, ScanCounts
      <4>2. QED BY <1>3, <2>1, <3>1, <4>1
    <3>3. q - 1 \in 1 .. n /\ q - 1 \in Nat \ {0}
      BY <1>1, <2>2, <3>1
    <3>4. PICK l \in 1 .. n : LastIn(n, Block(q - 1), l)
      BY <1>1, <3>3, LastExists
    <3>5. PICK c \in Nat, u \in 0 .. BlockDim - 1 : c = Block(q - 1) /\ u = Tid(q - 1) /\ ThreadOf(c, u) = q - 1
      BY <3>3, ThreadSplits
    <3>6. c < b
      <4>1. q - 1 < q => Block(q - 1) <= Block(q)
        BY <2>2, <3>3, BlocksInOrder
      <4>2. Block(q - 1) = Block(q) => (q - 1 < q <=> Tid(q - 1) < Tid(q))
        BY <2>2, <3>3, BlocksInOrder
      <4>3. q - 1 < q
        BY <2>2
      <4>4. QED BY <2>2, <3>1, <3>5, <4>1, <4>2, <4>3, BlockDimAssumption
    <3>7. l = q - 1
      <4>1. q - 1 <= l
        BY <3>3, <3>4 DEF LastIn
      <4>2. ~(q <= l)
        <5>1. q < l => Block(q) <= Block(l)
          BY <2>2, BlocksInOrder
        <5>2. Block(l) = c
          BY <3>4, <3>5 DEF LastIn
        <5>3. QED BY <2>2, <3>6, <5>1, <5>2
      <4>3. QED BY <2>2, <4>1, <4>2
    <3>8. Block(q) = c + 1 /\ b = c + 1
      BY <2>2, <3>1, <3>4, <3>5, <3>7, UnkeptLast
    <3>9. LastWrote(pred, c) = pred[l]
      BY <3>4, <3>5, LastWroteIs
    <3>10. b # 0 /\ b - 1 = c
      BY <3>8
    <3>11. QED BY <1>2, <3>1, <3>2, <3>7, <3>9, <3>10 DEF Copied
  <2>6. QED BY <1>4, <2>2, <2>3, <2>4, <2>5 DEF Fills
<1>7. CASE t = Tot(pred, b)
  <2>1. ~LastWrote(pred, b)
    BY <1>2, <1>7 DEF Copied
  <2>2. PICK l \in 1 .. n : LastIn(n, b, l)
    BY <1>1, <1>2, LastExists
  <2>3. ~pred[l]
    BY <2>1, <2>2, LastWroteIs
  <2>4. /\ l + 1 \in 1 .. n /\ pred[l + 1] /\ Tid(l) = BlockDim - 1
        /\ Block(l + 1) = b + 1 /\ Scan(pred, l + 1) = 0
        /\ Scan(pred, l) = Tot(pred, b)
    BY <2>2, <2>3, UnkeptLast
  <2>5. l + 1 = Nth(pred, i)
    <3>1. l + 1 \in Kept(pred)
      BY <1>0, <2>4 DEF Kept
    <3>2. Base(pred, b + 1) = Base(pred, b) + Tot(pred, b)
      BY BlocksAdd
    <3>3. Goes(pred, l + 1, i)
      <4>1. Base(pred, Block(l + 1)) + Scan(pred, l + 1) = Base(pred, b) + Tot(pred, b) + 0
        BY <2>4, <3>2, Zenon
      <4>2. QED BY <1>0, <1>3, <1>7, <2>4, <4>1, SMTT(20) DEF Goes
    <3>4. QED BY <1>5, <3>1, <3>3
  <2>6. Slot(pred, l) = p
    <3>1. Block(l) = b
      BY <2>2 DEF LastIn
    <3>2. QED BY <1>2, <1>7, <2>4, <3>1, SlotsAre
  <2>7. QED BY <1>4, <2>3, <2>4, <2>5, <2>6 DEF Fills
<1>8. t <= Tot(pred, b)
  BY <1>2 DEF Copied
<1>9. QED BY <1>0, <1>3, <1>6, <1>7, <1>8

LEMMA CopiedExists ==
  ASSUME NEW pred, NEW n, Predicate(pred, n), NoTwo(pred, n),
         NEW i \in 1 .. Cardinality(Kept(pred))
  PROVE  \E p \in 1 .. n : Copied(pred, p) /\ Base(pred, Block(p)) + Tid(p) + 1 = i
<1>0. /\ DOMAIN pred = 1 .. n /\ Kept(pred) \subseteq 1 .. n
      /\ Cardinality(Kept(pred)) \in Nat
      /\ \A b : Base(pred, b) \in Nat /\ Tot(pred, b) \in Nat
      /\ \A p : Scan(pred, p) \in Nat
  BY KeptCounts
<1>1. n \in Nat /\ BlockDim \in Nat \ {0}
  BY BlockDimAssumption DEF Predicate
<1>2. PICK q \in Kept(pred) : Goes(pred, q, i)
  BY KeptPlaces
<1>3. q \in 1 .. n /\ pred[q] /\ q \in Nat \ {0}
  BY <1>0, <1>2 DEF Kept
<1>4. PICK b \in Nat, s \in 0 .. BlockDim - 1 : b = Block(q) /\ s = Scan(pred, q)
  BY <1>3, SlotsAre
<1>5. Base(pred, b) + s = i - 1 /\ i - 1 < Cardinality(Kept(pred)) /\ s \in Nat
  BY <1>0, <1>2, <1>4 DEF Goes
<1>6. s < Tot(pred, b)
  BY <1>3, <1>4, ScanCounts
<1>7. CASE ~(s = 0 /\ b # 0 /\ ~LastWrote(pred, b - 1))
  <2>1. PICK p \in 1 .. n : p = Slot(pred, q) /\ Block(p) = b /\ Tid(p) = s
    BY <1>3, <1>4, SlotsAre
  <2>2. Copied(pred, p)
    BY <1>0, <1>5, <1>6, <1>7, <2>1 DEF Copied, Kept
  <2>3. Base(pred, Block(p)) + Tid(p) + 1 = i
    BY <1>0, <1>5, <2>1
  <2>4. QED BY <2>2, <2>3
<1>8. CASE s = 0 /\ b # 0 /\ ~LastWrote(pred, b - 1)
  <2>1. PICK c \in Nat : c = b - 1 /\ b = c + 1
    BY <1>8
  <2>2. PICK u \in 0 .. BlockDim - 1 : u = BlockDim - 1
    BY <1>1
  <2>3. PICK l \in Nat \ {0} : l = ThreadOf(c, u) /\ Block(l) = c /\ Tid(l) = u
    BY <2>2, ThreadOrder, ThreadIs
  <2>4. l \in 1 .. n
    <3>1. Block(l) < Block(q) => l < q
      BY <1>3, <2>3, BlocksInOrder
    <3>2. QED BY <1>1, <1>3, <1>4, <2>1, <2>3, <3>1
  <2>5. LastIn(n, c, l)
    <3>1. PICK e \in 1 .. n : LastIn(n, c, e)
      BY <1>1, <2>3, <2>4, LastExists
    <3>2. l <= e
      BY <2>3, <2>4, <3>1 DEF LastIn
    <3>3. e = l
      <4>1. e = n \/ Tid(e) = u
        BY <2>2, <3>1 DEF LastIn
      <4>2. ASSUME e # l PROVE Tid(l) < Tid(e)
        <5>1. Block(l) = Block(e) => (l < e <=> Tid(l) < Tid(e))
          BY <2>3, <3>1, BlocksInOrder
        <5>2. QED BY <2>3, <3>1, <3>2, <4>2, <5>1 DEF LastIn
      <4>3. Tid(e) \in 0 .. BlockDim - 1
        BY <3>1, ThreadSplits
      <4>4. QED BY <1>1, <2>2, <2>3, <4>2, <4>3
    <3>4. QED BY <3>1, <3>3
  <2>6. ~pred[l]
    BY <1>8, <2>1, <2>5, LastWroteIs
  <2>7. /\ l + 1 \in 1 .. n /\ pred[l + 1]
        /\ Block(l + 1) = b /\ Tot(pred, c) \in 0 .. BlockDim - 1
    BY <2>1, <2>5, <2>6, UnkeptLast
  <2>8. PICK t \in 0 .. BlockDim - 1 : t = Tot(pred, c)
    BY <2>7
  <2>9. PICK p \in 1 .. n : Block(p) = c /\ Tid(p) = t
    <3>1. Slot(pred, l) \in 1 .. n /\ Block(Slot(pred, l)) = c /\ Tid(Slot(pred, l)) = Scan(pred, l)
      BY <2>3, <2>4, SlotsAre
    <3>2. Scan(pred, l) = t
      BY <2>5, <2>6, <2>8, UnkeptLast
    <3>3. QED BY <3>1, <3>2
  <2>10. ~(t = 0 /\ c # 0 /\ ~LastWrote(pred, c - 1))
    <3>1. SUFFICES ASSUME t = 0, c # 0, ~LastWrote(pred, c - 1) PROVE FALSE
      OBVIOUS
    <3>2. PICK d \in Nat : d = c - 1 /\ c = d + 1
      BY <3>1
    <3>3. PICK k \in Nat \ {0} : k = ThreadOf(d, u) /\ Block(k) = d /\ Tid(k) = u
      <4>1. ThreadOf(d, u) \in Nat \ {0}
        BY <2>2, <3>2, ThreadOrder
      <4>2. Block(ThreadOf(d, u)) = d /\ Tid(ThreadOf(d, u)) = u
        BY <2>2, <3>2, ThreadIs
      <4>3. QED BY <4>1, <4>2
    <3>4. k \in 1 .. n
      <4>1. Block(k) < Block(q) => k < q
        BY <1>3, <3>3, BlocksInOrder
      <4>2. QED BY <1>1, <1>3, <1>4, <2>1, <3>2, <3>3, <4>1
    <3>5. PICK e \in 1 .. n : LastIn(n, d, e)
      BY <1>1, <3>3, <3>4, LastExists
    <3>6. ~pred[e]
      BY <3>1, <3>2, <3>5, LastWroteIs
    <3>7. e + 1 \in 1 .. n /\ pred[e + 1] /\ Block(e + 1) = c
      BY <3>2, <3>5, <3>6, UnkeptLast
    <3>8. Scan(pred, e + 1) < Tot(pred, c)
      BY <3>7, ScanCounts
    <3>9. QED BY <1>0, <2>8, <3>1, <3>8
  <2>11. Base(pred, b) = Base(pred, c) + Tot(pred, c)
    BY <2>1, BlocksAdd
  <2>12. Copied(pred, p)
    <3>1. Base(pred, c) + t < Cardinality(Kept(pred))
      BY <1>5, <1>8, <1>0, <2>8, <2>11
    <3>2. ~LastWrote(pred, c)
      BY <1>8, <2>1
    <3>3. QED BY <1>0, <2>8, <2>9, <2>10, <3>1, <3>2 DEF Copied, Kept
  <2>13. Base(pred, Block(p)) + Tid(p) + 1 = i
    BY <1>0, <1>5, <1>8, <2>8, <2>9, <2>11
  <2>14. QED BY <2>12, <2>13
<1>9. QED BY <1>7, <1>8

\* realign gives the entries that were kept, one after the other.
LEMMA RealignIs ==
  ASSUME NEW pred, NEW n, Predicate(pred, n), NoTwo(pred, n),
         NEW out, NEW val, Fills(pred, n, out, val), NEW nothing
  PROVE  Realign(pred, out, nothing) = [i \in 1 .. Cardinality(Kept(pred)) |-> val[Nth(pred, i)]]
<1> DEFINE N == Cardinality(Kept(pred))
           To(p) == Base(pred, Block(p)) + Tid(p) + 1
           Reads(i) == CHOOSE p \in 1 .. n : Copied(pred, p) /\ To(p) = i
<1>0. DOMAIN pred = 1 .. n
  BY KeptCounts
<1>1. ASSUME NEW i \in 1 .. N
      PROVE  /\ \E p \in 1 .. n : Copied(pred, p) /\ To(p) = i
             /\ out[Reads(i)] = val[Nth(pred, i)]
  <2>1. \E p \in 1 .. n : Copied(pred, p) /\ To(p) = i
    BY CopiedExists
  <2>2. Reads(i) \in 1 .. n /\ Copied(pred, Reads(i)) /\ To(Reads(i)) = i
    BY <2>1
  <2>3. PICK p \in 1 .. n : p = Reads(i)
    BY <2>2
  <2>4. Copied(pred, p) /\ To(p) = i
    BY <2>2, <2>3
  <2>5. out[p] = val[Nth(pred, i)]
    BY <2>4, CopiedGives
  <2>6. QED BY <2>1, <2>3, <2>5
<1>2. Realign(pred, out, nothing)
        = [i \in 1 .. N |-> IF \E p \in 1 .. n : Copied(pred, p) /\ To(p) = i
                            THEN out[Reads(i)] ELSE nothing]
  BY <1>0 DEF Realign, Kept
<1> HIDE DEF N, To, Reads
<1>3. QED BY <1>1, <1>2 DEF N

\* realign_remove gives them as well, whatever was left out.
LEMMA RealignRemoveIs ==
  ASSUME NEW pred, NEW n, Predicate(pred, n), NEW came
  PROVE  RealignRemove(pred, came) = [i \in 1 .. Cardinality(Kept(pred)) |-> came[Nth(pred, i)]]
<1> DEFINE N == Cardinality(Kept(pred))
           To(p) == Base(pred, Block(p)) + Tid(p) + 1
           From(p) == CHOOSE q \in 1 .. n : pred[q] /\ Slot(pred, q) = p
           Copies == {p \in 1 .. n : Tid(p) < Tot(pred, Block(p))}
           Reads(i) == CHOOSE p \in Copies : To(p) = i
<1>0. /\ DOMAIN pred = 1 .. n /\ Kept(pred) \subseteq 1 .. n
      /\ \A b : Base(pred, b) \in Nat /\ Tot(pred, b) \in Nat
      /\ \A p : Scan(pred, p) \in Nat
  BY KeptCounts
<1>1. ASSUME NEW i \in 1 .. N PROVE came[From(Reads(i))] = came[Nth(pred, i)]
  <2>1. PICK q \in Kept(pred) : q = Nth(pred, i) /\ Goes(pred, q, i)
    BY KeptPlaces
  <2>2. q \in 1 .. n /\ pred[q]
    BY <1>0, <2>1 DEF Kept
  <2>3. PICK s \in 1 .. n : /\ s = Slot(pred, q) /\ Block(s) = Block(q) /\ Tid(s) = Scan(pred, q)
                            /\ s = ThreadOf(Block(q), Scan(pred, q))
    BY <2>2, SlotsAre
  <2>4. s \in Copies /\ To(s) = i
    <3>1. Scan(pred, q) < Tot(pred, Block(q))
      BY <2>2, ScanCounts
    <3>2. Base(pred, Block(q)) + Scan(pred, q) + 1 = i
      BY <1>0, <2>1 DEF Goes
    <3>3. QED BY <2>3, <3>1, <3>2
  <2>5. \A p \in Copies : To(p) = i => p = s
    <3>1. SUFFICES ASSUME NEW p \in 1 .. n, Tid(p) < Tot(pred, Block(p)), To(p) = i PROVE p = s
      OBVIOUS
    <3>2. PICK b \in Nat, t \in 0 .. BlockDim - 1 : b = Block(p) /\ t = Tid(p) /\ ThreadOf(b, t) = p
      BY ThreadSplits DEF Predicate
    <3>3. t \in Nat
      BY BlockDimAssumption
    <3>4. PICK r \in KeptIn(pred, b) : Scan(pred, r) = t
      BY <3>1, <3>2, <3>3, ScanReaches
    <3>5. r \in Kept(pred) /\ Block(r) = b
      BY <3>4 DEF KeptIn
    <3>6. Goes(pred, r, i)
      BY <1>0, <3>1, <3>2, <3>3, <3>4, <3>5 DEF Goes
    <3>7. r = q
      BY <2>1, <3>5, <3>6, KeptPlaces
    <3>8. QED BY <2>3, <3>2, <3>4, <3>5, <3>7
  <2>6. Reads(i) = s
    <3> HIDE DEF Copies, To
    <3>1. QED BY <2>4, <2>5
  <2>7. \A r \in 1 .. n : pred[r] /\ Slot(pred, r) = s => r = q
    <3>1. SUFFICES ASSUME NEW r \in 1 .. n, pred[r], Slot(pred, r) = s PROVE r = q
      OBVIOUS
    <3>2. Block(r) = Block(q) /\ Scan(pred, r) = Scan(pred, q)
      BY <2>2, <2>3, <3>1, SlotsAre
    <3>3. r \in Kept(pred) /\ Goes(pred, r, i)
      BY <1>0, <2>1, <3>1, <3>2 DEF Goes, Kept
    <3>4. QED BY <2>1, <3>3, KeptPlaces
  <2>8. From(s) = q
    BY <2>2, <2>3, <2>7
  <2>9. QED BY <2>1, <2>6, <2>8
<1>2. RealignRemove(pred, came) = [i \in 1 .. N |-> came[From(Reads(i))]]
  BY <1>0 DEF RealignRemove, Kept
<1> HIDE DEF N, From, Reads
<1>3. QED BY <1>1, <1>2 DEF N

-----------------------------------------------------------------------------
(* Merging.                                                                *)

Rising(s) == s \in Seq(Nat) /\ \A i, j \in DOMAIN s : i < j => s[i] < s[j]

Entries(a, b) ==
  {[key |-> a[i], from |-> i] : i \in DOMAIN a}
    \cup {[key |-> b[i], from |-> Len(a) + i] : i \in DOMAIN b}
Precedes(y, x) == y.key < x.key \/ (y.key = x.key /\ y.from < x.from)

\* What is known of the entry at a place of the merge.
IsEntry(a, b, x) ==
  /\ x.key \in Nat /\ x.from \in 1 .. Len(a) + Len(b)
  /\ x.from <= Len(a) => x.key = a[x.from]
  /\ x.from > Len(a) => x.from - Len(a) \in DOMAIN b /\ x.key = b[x.from - Len(a)]

LEMMA EntriesAre ==
  ASSUME NEW a \in Seq(Nat), NEW b \in Seq(Nat)
  PROVE  /\ IsFiniteSet(Entries(a, b)) /\ Cardinality(Entries(a, b)) = Len(a) + Len(b)
         /\ \A x \in Entries(a, b) : IsEntry(a, b, x)
         /\ \A x, y \in Entries(a, b) : x.from = y.from => x = y
         /\ \A j \in 1 .. Len(a) + Len(b) : \E x \in Entries(a, b) : x.from = j
<1> DEFINE N == Len(a) + Len(b)
           f == [j \in 1 .. N |-> IF j <= Len(a) THEN [key |-> a[j], from |-> j]
                                  ELSE [key |-> b[j - Len(a)], from |-> j]]
<1>1. /\ Len(a) \in Nat /\ Len(b) \in Nat /\ N \in Nat
      /\ DOMAIN a = 1 .. Len(a) /\ DOMAIN b = 1 .. Len(b)
  OBVIOUS
<1>2. ASSUME NEW j \in 1 .. N PROVE f[j] \in Entries(a, b) /\ f[j].from = j
  <2>1. CASE j <= Len(a)
    <3>1. j \in DOMAIN a
      BY <1>1, <2>1
    <3>2. QED BY <2>1, <3>1 DEF Entries
  <2>2. CASE ~(j <= Len(a))
    <3>1. PICK i \in DOMAIN b : i = j - Len(a) /\ j = Len(a) + i
      BY <1>1, <2>2
    <3>2. [key |-> b[i], from |-> Len(a) + i] \in Entries(a, b)
      BY DEF Entries
    <3>3. QED BY <2>2, <3>1, <3>2
  <2>3. QED BY <2>1, <2>2
<1>3. ASSUME NEW x \in Entries(a, b)
      PROVE  x.from \in 1 .. N /\ x = f[x.from] /\ IsEntry(a, b, x)
  <2>1. CASE \E i \in DOMAIN a : x = [key |-> a[i], from |-> i]
    <3>1. PICK i \in DOMAIN a : x = [key |-> a[i], from |-> i]
      BY <2>1
    <3>2. i \in 1 .. N /\ i <= Len(a) /\ a[i] \in Nat
      BY <1>1
    <3>3. QED BY <1>1, <3>1, <3>2 DEF IsEntry
  <2>2. CASE \E i \in DOMAIN b : x = [key |-> b[i], from |-> Len(a) + i]
    <3>1. PICK i \in DOMAIN b : x = [key |-> b[i], from |-> Len(a) + i]
      BY <2>2
    <3>2. Len(a) + i \in 1 .. N /\ ~(Len(a) + i <= Len(a)) /\ (Len(a) + i) - Len(a) = i /\ b[i] \in Nat
      BY <1>1
    <3>3. QED BY <1>1, <3>1, <3>2 DEF IsEntry
  <2>3. QED BY <2>1, <2>2 DEF Entries
<1>4. f \in [1 .. N -> Entries(a, b)]
  BY <1>2
<1>5. \A j, k \in 1 .. N : f[j] = f[k] => j = k
  <2> HIDE DEF f
  <2>1. QED BY <1>2
<1>6. \A x \in Entries(a, b) : \E j \in 1 .. N : f[j] = x
  BY <1>3
<1>7. f \in Surjection(1 .. N, Entries(a, b)) /\ f \in Injection(1 .. N, Entries(a, b))
  <2> HIDE DEF f, N
  <2>1. QED BY <1>4, <1>5, <1>6 DEF Surjection, Injection, IsInjective
<1>8. IsFiniteSet(1 .. N) /\ Cardinality(1 .. N) = N
  <2> HIDE DEF N
  <2>1. PICK c \in Nat : c = N
    BY <1>1
  <2>2. IsFiniteSet(1 .. c) /\ Cardinality(1 .. c) = IF 1 > c THEN 0 ELSE c - 1 + 1
    BY FS_Interval
  <2>3. QED BY <2>1, <2>2
<1> HIDE DEF f
<1>9. IsFiniteSet(Entries(a, b)) /\ Cardinality(Entries(a, b)) = N
  <2> HIDE DEF N
  <2>1. QED BY <1>7, <1>8, FS_Surjection
<1>10. \A x, y \in Entries(a, b) : x.from = y.from => x = y
  BY <1>3
<1>11. \A j \in 1 .. N : \E x \in Entries(a, b) : x.from = j
  BY <1>2
<1>12. QED BY <1>3, <1>9, <1>10, <1>11

\* The merge is a sequence of the entries in the order of their keys, those of
\* equal key in the order of their places.
LEMMA MergeIs ==
  ASSUME NEW a \in Seq(Nat), NEW b \in Seq(Nat)
  PROVE  /\ Merge(a, b) \in [1 .. Len(a) + Len(b) -> Entries(a, b)]
         /\ \A i, j \in 1 .. Len(a) + Len(b) : i < j => Precedes(Merge(a, b)[i], Merge(a, b)[j])
         /\ \A x \in Entries(a, b) : \E i \in 1 .. Len(a) + Len(b) : Merge(a, b)[i] = x
<1> DEFINE R == {yx \in Entries(a, b) \X Entries(a, b) : Precedes(yx[1], yx[2])}
           Of(i) == CHOOSE x \in Entries(a, b) : Cardinality({y \in Entries(a, b) : Precedes(y, x)}) = i - 1
<1>a. PICK S : S = Entries(a, b)
  OBVIOUS
<1>b. PICK n \in Nat : n = Len(a) + Len(b)
  OBVIOUS
<1>0. S = Entries(a, b) /\ n = Len(a) + Len(b)
  BY <1>a, <1>b
<1>1. /\ IsFiniteSet(S) /\ Cardinality(S) = n
      /\ \A x \in S : x.key \in Nat /\ x.from \in Nat
      /\ \A x, y \in S : x.from = y.from => x = y
  BY <1>0, EntriesAre DEF IsEntry
<1>2. \A x, y \in S : <<x, y>> \in R <=> Precedes(x, y)
  BY <1>0
<1>3. \A x \in S : Rank(S, R, x) = Cardinality({y \in S : Precedes(y, x)})
  <2> HIDE DEF R
  <2>1. ASSUME NEW x \in S PROVE Below(S, R, x) = {y \in S : Precedes(y, x)}
    BY <1>2 DEF Below
  <2>2. QED BY <2>1 DEF Rank
<1>4. StrictOrder(S, R)
  <2> HIDE DEF R
  <2>1. \A x \in S : <<x, x>> \notin R
    <3>1. SUFFICES ASSUME NEW x \in S, Precedes(x, x) PROVE FALSE
      BY <1>2
    <3>2. PICK k \in Nat, f \in Nat : k = x.key /\ f = x.from
      BY <1>1
    <3>3. QED BY <3>1, <3>2 DEF Precedes
  <2>2. \A x, y, z \in S : <<x, y>> \in R /\ <<y, z>> \in R => <<x, z>> \in R
    <3>1. SUFFICES ASSUME NEW x \in S, NEW y \in S, NEW z \in S, Precedes(x, y), Precedes(y, z)
                   PROVE  Precedes(x, z)
      BY <1>2
    <3>2. /\ x.key \in Nat /\ x.from \in Nat /\ y.key \in Nat /\ y.from \in Nat
          /\ z.key \in Nat /\ z.from \in Nat
      BY <1>1
    <3>3. QED BY <3>1, <3>2 DEF Precedes
  <2>3. \A x, y \in S : x = y \/ <<x, y>> \in R \/ <<y, x>> \in R
    <3>1. SUFFICES ASSUME NEW x \in S, NEW y \in S, x # y
                   PROVE  Precedes(x, y) \/ Precedes(y, x)
      BY <1>2
    <3>2. x.key \in Nat /\ x.from \in Nat /\ y.key \in Nat /\ y.from \in Nat
      BY <1>1
    <3>3. x.from # y.from
      BY <1>1, <3>1
    <3>4. QED BY <3>2, <3>3 DEF Precedes
  <2>4. QED BY <2>1, <2>2, <2>3 DEF StrictOrder
<1> HIDE DEF R
<1>5. /\ \A x \in S : Rank(S, R, x) \in 0 .. n - 1
      /\ \A x, y \in S : Rank(S, R, x) < Rank(S, R, y) <=> <<x, y>> \in R
      /\ \A i \in 0 .. n - 1 : \E x \in S : Rank(S, R, x) = i
  BY <1>1, <1>4, Ranks
<1>6. Merge(a, b) = [i \in 1 .. n |-> Of(i)]
  BY <1>0 DEF Merge, Entries, Precedes
<1>7. ASSUME NEW i \in 1 .. n PROVE Of(i) \in S /\ Rank(S, R, Of(i)) = i - 1
  <2>1. i - 1 \in 0 .. n - 1
    OBVIOUS
  <2>2. PICK x \in S : Cardinality({y \in S : Precedes(y, x)}) = i - 1
    BY <1>3, <1>5, <2>1
  <2>3. Of(i) \in S /\ Cardinality({y \in S : Precedes(y, Of(i))}) = i - 1
    BY <1>0, <2>2
  <2> HIDE DEF Of
  <2>4. QED BY <1>3, <2>3
<1> HIDE DEF Of
<1>8. \A i \in 1 .. n : Merge(a, b)[i] = Of(i)
  BY <1>6
<1>9. Merge(a, b) \in [1 .. n -> S]
  BY <1>6, <1>7
<1>10. ASSUME NEW i \in 1 .. n, NEW j \in 1 .. n, i < j
       PROVE  Precedes(Merge(a, b)[i], Merge(a, b)[j])
  <2>1. Rank(S, R, Of(i)) < Rank(S, R, Of(j))
    BY <1>7, <1>10
  <2>2. QED BY <1>2, <1>5, <1>7, <1>8, <2>1
<1>11. ASSUME NEW x \in S PROVE \E i \in 1 .. n : Merge(a, b)[i] = x
  <2>1. PICK i \in 1 .. n : Rank(S, R, x) = i - 1
    <3>1. Rank(S, R, x) \in 0 .. n - 1
      BY <1>5
    <3>2. Rank(S, R, x) + 1 \in 1 .. n /\ Rank(S, R, x) = (Rank(S, R, x) + 1) - 1
      BY <3>1
    <3>3. QED BY <3>2
  <2>2. Of(i) \in S /\ Rank(S, R, Of(i)) = i - 1
    BY <1>7
  <2>3. ~(Rank(S, R, x) < Rank(S, R, Of(i))) /\ ~(Rank(S, R, Of(i)) < Rank(S, R, x))
    BY <2>1, <2>2
  <2>4. x = Of(i)
    BY <1>4, <1>5, <2>2, <2>3 DEF StrictOrder
  <2>5. QED BY <1>8, <2>4
<1>12. QED BY <1>0, <1>9, <1>10, <1>11

\* In the merge of two rising sequences a key is met once or, from each, twice
\* in a row.
Merged(a, b, m, n) ==
  /\ n = Len(a) + Len(b) /\ n \in Nat /\ Len(m) = n /\ DOMAIN m = 1 .. n
  /\ \A i \in 1 .. n : IsEntry(a, b, m[i])
  /\ \A i, j \in 1 .. n : i < j => m[i].key <= m[j].key
  /\ \A i, j \in 1 .. n : i < j /\ m[i].key = m[j].key =>
       m[i].from <= Len(a) /\ m[j].from > Len(a) /\ j = i + 1

LEMMA MergeOfRising ==
  ASSUME NEW a, NEW b, Rising(a), Rising(b)
  PROVE  /\ Merged(a, b, Merge(a, b), Len(a) + Len(b))
         /\ \A x \in Entries(a, b) : \E i \in 1 .. Len(a) + Len(b) : Merge(a, b)[i] = x
<1>0. /\ a \in Seq(Nat) /\ b \in Seq(Nat)
      /\ \A i, j \in DOMAIN a : i < j => a[i] < a[j]
      /\ \A i, j \in DOMAIN b : i < j => b[i] < b[j]
  BY DEF Rising
<1>a. PICK m : m = Merge(a, b)
  OBVIOUS
<1>b. PICK la \in Nat, lb \in Nat : la = Len(a) /\ lb = Len(b)
  BY <1>0
<1>c. PICK n \in Nat : n = la + lb
  OBVIOUS
<1>1. /\ m \in [1 .. n -> Entries(a, b)]
      /\ \A i, j \in 1 .. n : i < j => Precedes(m[i], m[j])
      /\ \A x \in Entries(a, b) : \E i \in 1 .. n : m[i] = x
  BY <1>0, <1>a, <1>b, <1>c, MergeIs
<1>2. Len(m) = n /\ DOMAIN m = 1 .. n
  BY <1>1
<1>3. \A i \in 1 .. n : IsEntry(a, b, m[i])
  BY <1>0, <1>1, EntriesAre
<1>4. /\ DOMAIN a = 1 .. la /\ DOMAIN b = 1 .. lb
  BY <1>0, <1>b
<1>5. \A i \in 1 .. n : /\ m[i].key \in Nat /\ m[i].from \in 1 .. n
                        /\ m[i].from <= la => m[i].key = a[m[i].from]
                        /\ m[i].from > la => m[i].from - la \in 1 .. lb /\ m[i].key = b[m[i].from - la]
  BY <1>3, <1>4, <1>b, <1>c DEF IsEntry
<1>6. ASSUME NEW i \in 1 .. n, NEW j \in 1 .. n, i < j
      PROVE  m[i].key <= m[j].key
  <2>1. m[i].key \in Nat /\ m[j].key \in Nat
    BY <1>5
  <2>2. Precedes(m[i], m[j])
    BY <1>1, <1>6
  <2>3. QED BY <2>1, <2>2 DEF Precedes
<1>7. ASSUME NEW i \in 1 .. n, NEW j \in 1 .. n, i < j, m[i].key = m[j].key
      PROVE  m[i].from <= la /\ m[j].from > la
  <2>1. PICK f \in 1 .. n, g \in 1 .. n, k \in Nat :
          f = m[i].from /\ g = m[j].from /\ k = m[i].key /\ k = m[j].key
    BY <1>5, <1>7
  <2>a. /\ f <= la => k = a[f]
        /\ f > la => f - la \in 1 .. lb /\ k = b[f - la]
        /\ g <= la => k = a[g]
        /\ g > la => g - la \in 1 .. lb /\ k = b[g - la]
    BY <1>5, <2>1
  <2>2. f < g
    <3>1. Precedes(m[i], m[j])
      BY <1>1, <1>7
    <3>2. QED BY <2>1, <3>1 DEF Precedes
  <2>3. ~(g <= la)
    <3>1. SUFFICES ASSUME g <= la PROVE FALSE
      OBVIOUS
    <3>2. f \in 1 .. la /\ g \in 1 .. la /\ f <= la
      BY <2>2, <3>1
    <3>3. a[f] < a[g]
      BY <1>0, <1>4, <2>2, <3>2
    <3>4. QED BY <2>a, <3>1, <3>2, <3>3
  <2>4. ~(f > la)
    <3>1. SUFFICES ASSUME f > la PROVE FALSE
      OBVIOUS
    <3>2. g > la
      BY <2>2, <3>1
    <3>3. PICK u \in 1 .. lb, v \in 1 .. lb : u = f - la /\ v = g - la
      BY <2>a, <3>1, <3>2
    <3>4. u < v
      BY <2>2, <3>3
    <3>5. b[u] < b[v]
      BY <1>0, <1>4, <3>4
    <3>6. QED BY <2>a, <3>1, <3>2, <3>3, <3>5
  <2>5. QED BY <2>1, <2>3, <2>4
<1>8. ASSUME NEW i \in 1 .. n, NEW j \in 1 .. n, i < j, m[i].key = m[j].key
      PROVE  j = i + 1
  <2>1. SUFFICES ASSUME j # i + 1 PROVE FALSE
    OBVIOUS
  <2>2. PICK k \in 1 .. n : k = i + 1
    BY <1>8, <2>1
  <2>3. i < k /\ k < j
    BY <1>8, <2>1, <2>2
  <2>4. m[i].key <= m[k].key /\ m[k].key <= m[j].key
    BY <1>6, <2>3
  <2>5. m[i].key = m[k].key /\ m[k].key = m[j].key
    <3>1. PICK x \in Nat, y \in Nat : x = m[i].key /\ x = m[j].key /\ y = m[k].key
      BY <1>5, <1>8
    <3>2. x <= y /\ y <= x
      BY <2>4, <3>1
    <3>3. x = y
      BY <3>2
    <3>4. QED BY <3>1, <3>3, Zenon
  <2>6. m[k].from > la /\ m[k].from <= la
    BY <1>7, <2>3, <2>5
  <2>7. QED BY <1>5, <2>6
<1>9. Merged(a, b, m, n)
  BY <1>2, <1>3, <1>6, <1>7, <1>8, <1>b, <1>c DEF Merged
<1>10. QED BY <1>1, <1>9, <1>a, <1>b, <1>c

LEMMA IsLastIs ==
  ASSUME NEW a, NEW b, NEW m, NEW n, Merged(a, b, m, n)
  PROVE  /\ Predicate(IsLast(m), n) /\ NoTwo(IsLast(m), n)
         /\ \A p \in 1 .. n : IsLast(m)[p] <=> p = n \/ m[p].key # m[p + 1].key
         /\ \A p, q \in Kept(IsLast(m)) : p < q => m[p].key < m[q].key
<1>1. n \in Nat /\ Len(m) = n /\ DOMAIN m = 1 .. n
  BY DEF Merged
<1>2. IsLast(m) = [p \in 1 .. n |-> p = n \/ m[p].key # m[p + 1].key]
  BY <1>1 DEF IsLast
<1>3. \A p \in 1 .. n : IsLast(m)[p] <=> p = n \/ m[p].key # m[p + 1].key
  BY <1>2
<1>4. Predicate(IsLast(m), n)
  <2>1. \A p \in 1 .. n : (p = n \/ m[p].key # m[p + 1].key) \in BOOLEAN
    OBVIOUS
  <2>2. IsLast(m) \in [1 .. n -> BOOLEAN]
    BY <1>2, <2>1
  <2>3. QED BY <1>1, <2>2 DEF Predicate
<1>5. NoTwo(IsLast(m), n)
  <2>1. SUFFICES ASSUME NEW p \in 1 .. n, ~IsLast(m)[p] PROVE p < n /\ IsLast(m)[p + 1]
    BY DEF NoTwo
  <2>2. p # n /\ m[p].key = m[p + 1].key
    BY <1>3, <2>1
  <2>3. PICK q \in 1 .. n : q = p + 1 /\ p < n
    BY <1>1, <2>2
  <2>4. IsLast(m)[q]
    <3>1. SUFFICES ASSUME q # n, m[q].key = m[q + 1].key PROVE FALSE
      BY <1>3
    <3>2. PICK r \in 1 .. n : r = q + 1
      BY <1>1, <3>1
    <3>3. p < r /\ m[p].key = m[r].key /\ r # p + 1
      BY <2>2, <2>3, <3>1, <3>2
    <3>4. QED BY <3>3 DEF Merged
  <2>5. QED BY <2>3, <2>4
<1>6. ASSUME NEW p \in Kept(IsLast(m)), NEW q \in Kept(IsLast(m)), p < q
      PROVE  m[p].key < m[q].key
  <2>1. p \in 1 .. n /\ q \in 1 .. n /\ IsLast(m)[p]
    BY <1>2 DEF Kept
  <2>2. PICK r \in 1 .. n : r = p + 1
    BY <1>1, <1>6, <2>1
  <2>3. m[p].key # m[r].key
    <3>1. p # n
      BY <1>1, <1>6, <2>1
    <3>2. m[p].key # m[p + 1].key
      BY <1>3, <2>1, <3>1
    <3>3. QED BY <2>2, <3>2
  <2>4. m[p].key \in Nat /\ m[q].key \in Nat /\ m[r].key \in Nat
    BY <2>1 DEF Merged, IsEntry
  <2>5. m[p].key <= m[r].key
    BY <2>1, <2>2 DEF Merged
  <2>6. r = q \/ m[r].key <= m[q].key
    <3>1. r < q \/ r = q
      BY <1>6, <2>1, <2>2
    <3>2. r < q => m[r].key <= m[q].key
      BY <2>1 DEF Merged
    <3>3. QED BY <3>1, <3>2
  <2>7. QED BY <2>3, <2>4, <2>5, <2>6
<1>7. QED BY <1>3, <1>4, <1>5, <1>6

\* Two entries share a slot only when the first was left out and the second is
\* its partner in the same block.
LEMMA SlotShared ==
  ASSUME NEW pred, NEW n, Predicate(pred, n), NoTwo(pred, n),
         NEW p \in 1 .. n, NEW q \in 1 .. n, p < q, Slot(pred, p) = Slot(pred, q)
  PROVE  /\ ~pred[p] /\ q = p + 1 /\ pred[q]
         /\ Block(p) = Block(q) /\ Tid(p) # BlockDim - 1
<1>0. /\ DOMAIN pred = 1 .. n /\ Kept(pred) \subseteq 1 .. n
      /\ \A b : IsFiniteSet(KeptIn(pred, b))
      /\ \A r : Scan(pred, r) = Cardinality(KeptInto(pred, r))
  BY KeptCounts
<1>1. n \in Nat /\ p \in Nat \ {0} /\ q \in Nat \ {0}
  BY DEF Predicate
<1>2. Block(p) = Block(q) /\ Scan(pred, p) = Scan(pred, q)
  BY SlotsAre
<1>3. KeptInto(pred, p) \in SUBSET KeptInto(pred, q)
  <2>1. \A r \in KeptIn(pred, Block(p)) : r \in Int
    BY <1>0 DEF KeptIn
  <2>2. QED BY <1>1, <1>2, <2>1 DEF KeptInto
<1>4. KeptInto(pred, p) = KeptInto(pred, q)
  <2>1. KeptInto(pred, q) \in SUBSET KeptIn(pred, Block(q))
    BY DEF KeptInto
  <2>2. IsFiniteSet(KeptInto(pred, q))
    BY <1>0, <2>1, FS_Subset
  <2>3. Cardinality(KeptInto(pred, p)) = Cardinality(KeptInto(pred, q))
    BY <1>0, <1>2
  <2>4. QED BY <1>3, <2>2, <2>3, FS_Subset
<1>5. ASSUME NEW r \in 1 .. n, p <= r, r < q PROVE ~pred[r]
  <2>1. Block(r) = Block(q)
    <3>1. r \in Nat \ {0}
      OBVIOUS
    <3>2. r < q => Block(r) <= Block(q)
      BY <1>1, <3>1, BlocksInOrder
    <3>3. p = r \/ Block(p) <= Block(r)
      BY <1>1, <1>5, <3>1, BlocksInOrder
    <3>4. Block(p) \in Nat /\ Block(q) \in Nat /\ Block(r) \in Nat
      BY <1>1, <3>1, ThreadSplits
    <3>5. QED BY <1>2, <1>5, <3>2, <3>3, <3>4
  <2>2. SUFFICES ASSUME pred[r] PROVE FALSE
    OBVIOUS
  <2>3. r \in KeptInto(pred, q)
    BY <1>0, <1>5, <2>1, <2>2 DEF KeptInto, KeptIn, Kept
  <2>4. r \in KeptInto(pred, p)
    BY <1>4, <2>3
  <2>5. QED BY <1>5, <1>1, <2>4 DEF KeptInto
<1>6. ~pred[p]
  BY <1>1, <1>5
<1>7. pred[p + 1] /\ p + 1 \in 1 .. n
  BY <1>1, <1>6 DEF NoTwo
<1>8. q = p + 1
  <2>1. ~(p + 1 < q)
    BY <1>1, <1>5, <1>7
  <2>2. QED BY <1>1, <2>1
<1>9. Tid(p) # BlockDim - 1
  <2>1. Tid(p) < Tid(q)
    BY <1>1, <1>2, BlocksInOrder
  <2>2. Tid(p) \in 0 .. BlockDim - 1 /\ Tid(q) \in 0 .. BlockDim - 1
    BY <1>1, ThreadSplits
  <2>3. QED BY <2>1, <2>2, BlockDimAssumption
<1>10. QED BY <1>2, <1>6, <1>7, <1>8, <1>9

LEMMA ConflictKeysFill ==
  ASSUME NEW a, NEW b, NEW m, NEW n, Merged(a, b, m, n)
  PROVE  Fills(IsLast(m), n, ConflictKeys(m), [p \in 1 .. n |-> m[p].key])
<1>0. n \in Nat /\ DOMAIN m = 1 .. n
  BY DEF Merged
<1>1. PICK pred : pred = IsLast(m)
  OBVIOUS
<1>2. /\ Predicate(pred, n) /\ NoTwo(pred, n)
      /\ \A p \in 1 .. n : pred[p] <=> p = n \/ m[p].key # m[p + 1].key
  BY <1>1, IsLastIs
<1> DEFINE Writer(s) == CHOOSE p \in 1 .. n : WritesKey(pred, p) /\ Slot(pred, p) = s
<1>3. ConflictKeys(m) = [s \in 1 .. n |->
        IF \E p \in 1 .. n : WritesKey(pred, p) /\ Slot(pred, p) = s THEN m[Writer(s)].key ELSE NoKey]
  BY <1>0, <1>1 DEF ConflictKeys
<1>4. ASSUME NEW p \in 1 .. n, WritesKey(pred, p)
      PROVE  ConflictKeys(m)[Slot(pred, p)] = m[p].key
  <2>1. PICK s \in 1 .. n : s = Slot(pred, p)
    BY <1>2, SlotsAre
  <2>2. ASSUME NEW q \in 1 .. n, WritesKey(pred, q), Slot(pred, q) = s PROVE q = p
    <3>1. ~(p < q)
      BY <1>2, <1>4, <2>1, <2>2, SlotShared DEF WritesKey
    <3>2. ~(q < p)
      BY <1>2, <1>4, <2>1, <2>2, SlotShared DEF WritesKey
    <3>3. QED BY <1>0, <3>1, <3>2
  <2>3. Writer(s) = p
    BY <1>4, <2>1, <2>2
  <2> HIDE DEF Writer
  <2>4. \E q \in 1 .. n : WritesKey(pred, q) /\ Slot(pred, q) = s
    BY <1>4, <2>1
  <2>5. QED BY <1>3, <2>1, <2>3, <2>4
<1>5. ASSUME NEW p \in 1 .. n
      PROVE  /\ pred[p] => ConflictKeys(m)[Slot(pred, p)] = [q \in 1 .. n |-> m[q].key][p]
             /\ ~pred[p] /\ Tid(p) = BlockDim - 1
                  => ConflictKeys(m)[Slot(pred, p)] = [q \in 1 .. n |-> m[q].key][p + 1]
  <2>1. pred[p] => ConflictKeys(m)[Slot(pred, p)] = m[p].key
    BY <1>4 DEF WritesKey
  <2>2. Tid(p) = BlockDim - 1 => ConflictKeys(m)[Slot(pred, p)] = m[p].key
    BY <1>4 DEF WritesKey
  <2>3. ~pred[p] => p + 1 \in 1 .. n /\ m[p].key = m[p + 1].key
    <3>1. SUFFICES ASSUME ~pred[p] PROVE p + 1 \in 1 .. n /\ m[p].key = m[p + 1].key
      OBVIOUS
    <3>2. p # n /\ m[p].key = m[p + 1].key
      BY <1>2, <3>1
    <3>3. QED BY <1>0, <3>2
  <2>4. QED BY <2>1, <2>2, <2>3
<1>6. QED BY <1>1, <1>5 DEF Fills

\* The keys a flush on the device leaves: those of the merge, each once.
LEMMA FlushedKeysRise ==
  ASSUME NEW a, NEW b, Rising(a), Rising(b)
  PROVE  LET m == Merge(a, b)
         IN  /\ Rising(Realign(IsLast(m), ConflictKeys(m), NoKey))
             /\ Len(Realign(IsLast(m), ConflictKeys(m), NoKey)) = Cardinality(Kept(IsLast(m)))
<1> DEFINE new == Realign(IsLast(Merge(a, b)), ConflictKeys(Merge(a, b)), NoKey)
<1>1. PICK m, n : m = Merge(a, b) /\ n = Len(a) + Len(b)
  OBVIOUS
<1>2. Merged(a, b, m, n)
  BY <1>1, MergeOfRising
<1>3. PICK pred : pred = IsLast(m)
  OBVIOUS
<1>4. /\ Predicate(pred, n) /\ NoTwo(pred, n)
      /\ \A p, q \in Kept(pred) : p < q => m[p].key < m[q].key
  BY <1>2, <1>3, IsLastIs
<1>5. PICK N \in Nat : N = Cardinality(Kept(pred))
  BY <1>4, KeptCounts
<1>6. /\ Kept(pred) \subseteq 1 .. n /\ IsFiniteSet(Kept(pred)) /\ n \in Nat
  BY <1>4, KeptCounts DEF Predicate
<1>7. /\ \A i \in 1 .. N : Nth(pred, i) \in Kept(pred)
      /\ \A i, j \in 1 .. N : i < j => Nth(pred, i) < Nth(pred, j)
  <2>1. Kept(pred) \subseteq Int
    BY <1>6
  <2>2. PICK S : S = Kept(pred)
    OBVIOUS
  <2>3. /\ Increasing(S) \in [1 .. Cardinality(S) -> S]
        /\ \A i, j \in 1 .. Cardinality(S) : i < j => Increasing(S)[i] < Increasing(S)[j]
    BY <1>6, <2>1, <2>2, IncreasingIs
  <2>4. QED BY <1>5, <2>2, <2>3 DEF Nth
<1> DEFINE val == [p \in 1 .. n |-> m[p].key]
<1>8. new = [i \in 1 .. N |-> val[Nth(pred, i)]]
  <2>1. Fills(pred, n, ConflictKeys(m), val)
    BY <1>2, <1>3, ConflictKeysFill
  <2> HIDE DEF val
  <2>2. QED BY <1>1, <1>3, <1>4, <1>5, <2>1, RealignIs
<1>9. \A i \in 1 .. N : new[i] = m[Nth(pred, i)].key /\ new[i] \in Nat
  <2>1. \A p \in 1 .. n : m[p].key \in Nat
    BY <1>2 DEF Merged, IsEntry
  <2> HIDE DEF new
  <2>2. QED BY <1>6, <1>7, <1>8, <2>1
<1>10. new \in [1 .. N -> Nat]
  <2> HIDE DEF new, val
  <2>1. QED BY <1>8, <1>9
<1>11. \A i, j \in 1 .. N : i < j => new[i] < new[j]
  <2> HIDE DEF new
  <2>1. QED BY <1>4, <1>7, <1>9
<1>12. new \in Seq(Nat) /\ DOMAIN new = 1 .. N /\ Len(new) = N
  <2> HIDE DEF new
  <2>1. QED BY <1>10
<1>13. Rising(new) /\ Len(new) = N
  <2> HIDE DEF new
  <2>1. QED BY <1>11, <1>12 DEF Rising
<1>14. QED BY <1>1, <1>3, <1>5, <1>13

\* The entries flush_remove keeps are in the order of their keys as well.
LEMMA StaysInIs ==
  ASSUME NEW a, NEW b, NEW m, NEW n, Merged(a, b, m, n), NEW old
  PROVE  /\ Predicate(StaysIn(m, old), n)
         /\ \A p, q \in Kept(StaysIn(m, old)) : p < q => m[p].key < m[q].key
         /\ \A p \in Kept(StaysIn(m, old)) : p \in 1 .. n /\ m[p].from <= old
<1>1. n \in Nat /\ Len(m) = n /\ DOMAIN m = 1 .. n
  BY DEF Merged
<1> DEFINE Stays(p) == /\ p = 1 \/ m[p - 1].key # m[p].key
                       /\ p = n \/ m[p + 1].key # m[p].key
                       /\ m[p].from <= old
<1>2. StaysIn(m, old) = [p \in 1 .. n |-> Stays(p)]
  BY <1>1 DEF StaysIn
<1>3. Predicate(StaysIn(m, old), n)
  <2>1. \A p \in 1 .. n : Stays(p) \in BOOLEAN
    OBVIOUS
  <2> HIDE DEF Stays
  <2>2. StaysIn(m, old) \in [1 .. n -> BOOLEAN]
    BY <1>2, <2>1
  <2>3. QED BY <1>1, <2>2 DEF Predicate
<1>4. \A p \in Kept(StaysIn(m, old)) : p \in 1 .. n /\ Stays(p)
  <2> HIDE DEF Stays
  <2>1. QED BY <1>2 DEF Kept
<1>5. ASSUME NEW p \in Kept(StaysIn(m, old)), NEW q \in Kept(StaysIn(m, old)), p < q
      PROVE  m[p].key < m[q].key
  <2>1. p \in 1 .. n /\ q \in 1 .. n
    BY <1>4
  <2>2. PICK r \in 1 .. n : r = p + 1
    BY <1>1, <1>5, <2>1
  <2>3. m[p].key # m[r].key
    <3>1. p # n
      BY <1>1, <1>5, <2>1
    <3>2. m[p + 1].key # m[p].key
      BY <1>4, <3>1
    <3>3. QED BY <2>2, <3>2
  <2>4. m[p].key \in Nat /\ m[q].key \in Nat /\ m[r].key \in Nat
    BY <2>1 DEF Merged, IsEntry
  <2>5. m[p].key <= m[r].key
    BY <2>1, <2>2 DEF Merged
  <2>6. r = q \/ m[r].key <= m[q].key
    <3>1. r < q \/ r = q
      BY <1>5, <2>1, <2>2
    <3>2. r < q => m[r].key <= m[q].key
      BY <2>1 DEF Merged
    <3>3. QED BY <3>1, <3>2
  <2>7. QED BY <2>3, <2>4, <2>5, <2>6
<1>6. QED BY <1>3, <1>4, <1>5

LEMMA RemovedKeysRise ==
  ASSUME NEW a, NEW b, Rising(a), Rising(b), NEW old
  PROVE  LET m == Merge(a, b)
             stays == StaysIn(m, old)
         IN  /\ Rising(RealignRemove(stays, [p \in DOMAIN m |-> m[p].key]))
             /\ Len(RealignRemove(stays, [p \in DOMAIN m |-> m[p].key])) = Cardinality(Kept(stays))
             /\ DOMAIN RealignRemove(stays, [p \in DOMAIN m |-> m[p].from]) = 1 .. Cardinality(Kept(stays))
<1> DEFINE M == Merge(a, b)
           new == RealignRemove(StaysIn(M, old), [p \in DOMAIN M |-> M[p].key])
           came == RealignRemove(StaysIn(M, old), [p \in DOMAIN M |-> M[p].from])
<1>1. PICK m, n : m = Merge(a, b) /\ n = Len(a) + Len(b)
  OBVIOUS
<1>2. Merged(a, b, m, n)
  BY <1>1, MergeOfRising
<1>3. PICK pred : pred = StaysIn(m, old)
  OBVIOUS
<1>4. /\ Predicate(pred, n)
      /\ \A p, q \in Kept(pred) : p < q => m[p].key < m[q].key
  BY <1>2, <1>3, StaysInIs
<1>5. PICK N \in Nat : N = Cardinality(Kept(pred))
  BY <1>4, KeptCounts
<1>6. /\ Kept(pred) \subseteq 1 .. n /\ IsFiniteSet(Kept(pred)) /\ n \in Nat
  BY <1>4, KeptCounts DEF Predicate
<1>7. /\ \A i \in 1 .. N : Nth(pred, i) \in Kept(pred)
      /\ \A i, j \in 1 .. N : i < j => Nth(pred, i) < Nth(pred, j)
  <2>1. Kept(pred) \subseteq Int
    BY <1>6
  <2>2. PICK S : S = Kept(pred)
    OBVIOUS
  <2>3. /\ Increasing(S) \in [1 .. Cardinality(S) -> S]
        /\ \A i, j \in 1 .. Cardinality(S) : i < j => Increasing(S)[i] < Increasing(S)[j]
    BY <1>6, <2>1, <2>2, IncreasingIs
  <2>4. QED BY <1>5, <2>2, <2>3 DEF Nth
<1> DEFINE val == [p \in DOMAIN m |-> m[p].key]
           place == [p \in DOMAIN m |-> m[p].from]
<1>8. /\ new = [i \in 1 .. N |-> val[Nth(pred, i)]]
      /\ came = [i \in 1 .. N |-> place[Nth(pred, i)]]
  <2>1. new = RealignRemove(pred, val) /\ came = RealignRemove(pred, place)
    BY <1>1, <1>3
  <2> HIDE DEF val, place, new, came
  <2>2. QED BY <1>4, <1>5, <2>1, RealignRemoveIs
<1>9. DOMAIN m = 1 .. n
  BY <1>2 DEF Merged
<1>10. \A i \in 1 .. N : new[i] = m[Nth(pred, i)].key /\ new[i] \in Nat
  <2>1. \A p \in 1 .. n : m[p].key \in Nat
    BY <1>2 DEF Merged, IsEntry
  <2> HIDE DEF new
  <2>2. QED BY <1>6, <1>7, <1>8, <1>9, <2>1
<1>11. new \in [1 .. N -> Nat] /\ DOMAIN came = 1 .. N
  <2> HIDE DEF new, val, came, place
  <2>1. QED BY <1>8, <1>10
<1>12. \A i, j \in 1 .. N : i < j => new[i] < new[j]
  <2> HIDE DEF new
  <2>1. QED BY <1>4, <1>7, <1>10
<1>13. new \in Seq(Nat) /\ DOMAIN new = 1 .. N /\ Len(new) = N
  <2> HIDE DEF new, came
  <2>1. QED BY <1>11
<1>14. Rising(new)
  <2> HIDE DEF new, came
  <2>1. QED BY <1>12, <1>13 DEF Rising
<1>15. QED BY <1>1, <1>3, <1>5, <1>11, <1>13, <1>14

-----------------------------------------------------------------------------
(* The pools, and what a flush sorts.                                      *)

Once(s) == \A i, j \in DOMAIN s : s[i] = s[j] => i = j
Has(s, x) == \E a \in DOMAIN s : s[a] = x
Apart(s, t) == \A x : ~(Has(s, x) /\ Has(t, x))

LEMMA ConcatOnce ==
  ASSUME NEW A, NEW s \in Seq(A), NEW t \in Seq(A), Once(s), Once(t), Apart(s, t)
  PROVE  /\ s \o t \in Seq(A) /\ Once(s \o t)
         /\ \A x : Has(s \o t, x) <=> Has(s, x) \/ Has(t, x)
<1>1. PICK m \in Nat : m = Len(s) /\ DOMAIN s = 1 .. m
  OBVIOUS
<1>2. PICK n \in Nat : n = Len(t) /\ DOMAIN t = 1 .. n
  OBVIOUS
<1>3. PICK r : r = s \o t
  OBVIOUS
<1>4. /\ r \in Seq(A) /\ DOMAIN r = 1 .. m + n
      /\ \A a \in 1 .. m : r[a] = s[a]
      /\ \A a \in m + 1 .. m + n : r[a] = t[a - m]
  BY <1>1, <1>2, <1>3
<1>5. ASSUME NEW a \in 1 .. m + n
      PROVE  \/ a \in 1 .. m /\ r[a] = s[a]
             \/ a - m \in 1 .. n /\ r[a] = t[a - m]
  BY <1>4
<1>6. ASSUME NEW a \in 1 .. m + n, NEW b \in 1 .. m + n, r[a] = r[b] PROVE a = b
  <2>1. CASE a \in 1 .. m /\ r[a] = s[a]
    <3>1. CASE b \in 1 .. m /\ r[b] = s[b]
      BY <1>1, <1>6, <2>1, <3>1 DEF Once
    <3>2. CASE b - m \in 1 .. n /\ r[b] = t[b - m]
      <4>1. Has(s, r[a]) /\ Has(t, r[a])
        BY <1>1, <1>2, <1>6, <2>1, <3>2 DEF Has
      <4>2. QED BY <4>1 DEF Apart
    <3>3. QED BY <1>5, <3>1, <3>2
  <2>2. CASE a - m \in 1 .. n /\ r[a] = t[a - m]
    <3>1. CASE b \in 1 .. m /\ r[b] = s[b]
      <4>1. Has(s, r[a]) /\ Has(t, r[a])
        BY <1>1, <1>2, <1>6, <2>2, <3>1 DEF Has
      <4>2. QED BY <4>1 DEF Apart
    <3>2. CASE b - m \in 1 .. n /\ r[b] = t[b - m]
      <4>1. a - m = b - m
        BY <1>2, <1>6, <2>2, <3>2 DEF Once
      <4>2. QED BY <4>1
    <3>3. QED BY <1>5, <3>1, <3>2
  <2>3. QED BY <1>5, <2>1, <2>2
<1>7. Once(r)
  BY <1>4, <1>6 DEF Once
<1>8. ASSUME NEW x PROVE Has(r, x) <=> Has(s, x) \/ Has(t, x)
  <2>1. ASSUME Has(r, x) PROVE Has(s, x) \/ Has(t, x)
    <3>1. PICK a \in 1 .. m + n : r[a] = x
      BY <1>4, <2>1 DEF Has
    <3>2. QED BY <1>1, <1>2, <1>5, <3>1 DEF Has
  <2>2. ASSUME Has(s, x) PROVE Has(r, x)
    <3>1. PICK a \in 1 .. m : s[a] = x
      BY <1>1, <2>2 DEF Has
    <3>2. a \in 1 .. m + n /\ r[a] = x
      BY <1>4, <3>1
    <3>3. QED BY <1>4, <3>2 DEF Has
  <2>3. ASSUME Has(t, x) PROVE Has(r, x)
    <3>1. PICK a \in 1 .. n : t[a] = x
      BY <1>2, <2>3 DEF Has
    <3>2. a + m \in m + 1 .. m + n /\ (a + m) - m = a
      OBVIOUS
    <3>3. a + m \in 1 .. m + n /\ r[a + m] = x
      BY <1>4, <3>1, <3>2
    <3>4. QED BY <1>4, <3>3 DEF Has
  <2>4. QED BY <2>1, <2>2, <2>3
<1>9. QED BY <1>3, <1>4, <1>7, <1>8

\* One after the other, sequences that have nothing in common.
LEMMA FlattenOnce ==
  ASSUME NEW A, NEW seqs \in Seq(Seq(A)),
         \A k \in DOMAIN seqs : Once(seqs[k]),
         \A k, l \in DOMAIN seqs : k # l => Apart(seqs[k], seqs[l])
  PROVE  /\ FlattenSeq(seqs) \in Seq(A) /\ Once(FlattenSeq(seqs))
         /\ \A x : Has(FlattenSeq(seqs), x) <=> \E k \in DOMAIN seqs : Has(seqs[k], x)
<1> DEFINE Is(f, n) == f = [i \in 1 .. n |-> IF i = 1 THEN seqs[i] ELSE f[i - 1] \o seqs[i]]
<1>1. PICK L \in Nat : L = Len(seqs) /\ DOMAIN seqs = 1 .. L /\ \A i \in 1 .. L : seqs[i] \in Seq(A)
  OBVIOUS
<1>2. \A n \in 0 .. L : \E f : Is(f, n)
  <2> DEFINE Bad == {n \in 0 .. L : ~\E f : Is(f, n)}
  <2>1. SUFFICES ASSUME Bad # {} PROVE FALSE
    OBVIOUS
  <2>2. PICK n \in Bad : \A m \in Bad : n <= m
    <3>1. Bad \subseteq Nat
      <4> HIDE DEF Is
      <4>1. QED OBVIOUS
    <3> HIDE DEF Bad
    <3>2. QED BY <2>1, <3>1, LeastNat
  <2>3. n \in 0 .. L /\ ~\E f : Is(f, n)
    OBVIOUS
  <2>4. n # 0
    <3>1. PICK f : f = [i \in 1 .. 0 |-> <<>>]
      OBVIOUS
    <3>2. Is(f, 0)
      BY <3>1
    <3>3. QED BY <2>3, <3>2
  <2>5. n - 1 \in 0 .. L /\ n - 1 \notin Bad
    <3>1. n - 1 \in 0 .. L /\ ~(n <= n - 1)
      BY <2>3, <2>4
    <3> HIDE DEF Bad
    <3>2. QED BY <2>2, <3>1
  <2>6. PICK f : Is(f, n - 1)
    BY <2>5
  <2>7. PICK g : g = [i \in 1 .. n |-> IF i < n THEN f[i]
                                        ELSE IF i = 1 THEN seqs[i] ELSE f[i - 1] \o seqs[i]]
    OBVIOUS
  <2>8. \A i \in 1 .. n : g[i] = IF i = 1 THEN seqs[i] ELSE g[i - 1] \o seqs[i]
    <3>1. SUFFICES ASSUME NEW i \in 1 .. n
                   PROVE  g[i] = IF i = 1 THEN seqs[i] ELSE g[i - 1] \o seqs[i]
      OBVIOUS
    <3>2. i # 1 => g[i - 1] = f[i - 1]
      BY <2>3, <2>7
    <3>3. CASE i < n
      <4>1. i \in 1 .. n - 1
        BY <2>3, <3>3
      <4>2. f[i] = IF i = 1 THEN seqs[i] ELSE f[i - 1] \o seqs[i]
        BY <2>6, <4>1
      <4>3. g[i] = f[i]
        BY <2>7, <3>3
      <4>4. QED BY <3>2, <4>2, <4>3
    <3>4. CASE ~(i < n)
      BY <2>7, <3>2, <3>4
    <3>5. QED BY <3>3, <3>4
  <2>9. Is(g, n)
    <3>1. PICK h : h = [i \in 1 .. n |-> IF i = 1 THEN seqs[i] ELSE g[i - 1] \o seqs[i]]
      OBVIOUS
    <3>2. \A i \in 1 .. n : g[i] = h[i]
      BY <2>8, <3>1
    <3>3. g = h
      BY <2>7, <3>1, <3>2
    <3>4. QED BY <3>1, <3>3
  <2>10. QED BY <2>3, <2>9
<1>3. PICK f : Is(f, L)
  <2> HIDE DEF Is
  <2>1. L \in 0 .. L
    BY <1>1
  <2>2. QED BY <1>2, <2>1
<1> DEFINE F == CHOOSE g : Is(g, L)
<1>4. Is(F, L)
  <2> HIDE DEF Is
  <2>1. QED BY <1>3
<1>5. L # 0 => FlattenSeq(seqs) = F[L]
  BY <1>1 DEF FlattenSeq
<1>6. \A i \in 1 .. L : F[i] = IF i = 1 THEN seqs[i] ELSE F[i - 1] \o seqs[i]
  <2> HIDE DEF F
  <2>1. QED BY <1>4
<1> HIDE DEF F, Is
<1> DEFINE Upto(i) == /\ F[i] \in Seq(A) /\ Once(F[i])
                      /\ \A x : Has(F[i], x) <=> \E k \in 1 .. i : Has(seqs[k], x)
<1>7. \A i \in 1 .. L : Upto(i)
  <2> DEFINE Bad == {i \in 1 .. L : ~Upto(i)}
  <2>1. SUFFICES ASSUME Bad # {} PROVE FALSE
    OBVIOUS
  <2>2. PICK i \in Bad : \A m \in Bad : i <= m
    <3>1. Bad \subseteq Nat
      <4> HIDE DEF Upto
      <4>1. QED OBVIOUS
    <3> HIDE DEF Bad
    <3>2. QED BY <2>1, <3>1, LeastNat
  <2>3. i \in 1 .. L /\ ~Upto(i)
    OBVIOUS
  <2>4. seqs[i] \in Seq(A) /\ Once(seqs[i])
    BY <1>1, <2>3
  <2>5. i # 1
    <3>1. ASSUME i = 1 PROVE FALSE
      <4>1. F[i] = seqs[i]
        BY <1>6, <2>3, <3>1
      <4>2. \A x : Has(F[i], x) <=> \E k \in 1 .. i : Has(seqs[k], x)
        <5>1. 1 .. i = {i}
          BY <3>1
        <5>2. QED BY <4>1, <5>1, Zenon
      <4>3. QED BY <2>3, <2>4, <4>1, <4>2
    <3>2. QED BY <3>1
  <2>6. PICK j \in 1 .. L : j = i - 1 /\ 1 .. i = 1 .. j \cup {i} /\ i \notin 1 .. j /\ ~(i <= j)
                            /\ 1 .. j \subseteq 1 .. L
    <3>1. i - 1 \in 1 .. L /\ 1 .. i = 1 .. i - 1 \cup {i} /\ i \notin 1 .. i - 1 /\ ~(i <= i - 1)
          /\ 1 .. i - 1 \subseteq 1 .. L
      BY <2>3, <2>5
    <3>2. QED BY <3>1
  <2>7. Upto(j)
    <3>1. j \notin Bad
      <4> HIDE DEF Bad
      <4>1. QED BY <2>2, <2>6
    <3>2. QED BY <2>6, <3>1
  <2>8. F[i] = F[j] \o seqs[i]
    BY <1>6, <2>3, <2>5, <2>6
  <2>9. Apart(F[j], seqs[i])
    <3>1. ASSUME NEW x, Has(F[j], x), Has(seqs[i], x) PROVE FALSE
      <4>1. PICK k \in 1 .. j : Has(seqs[k], x)
        BY <2>7, <3>1
      <4>2. Apart(seqs[k], seqs[i])
        BY <1>1, <2>3, <2>6, <4>1
      <4>3. QED BY <3>1, <4>1, <4>2 DEF Apart
    <3>2. QED BY <3>1 DEF Apart
  <2>10. /\ F[i] \in Seq(A) /\ Once(F[i])
         /\ \A x : Has(F[i], x) <=> Has(F[j], x) \/ Has(seqs[i], x)
    <3>1. F[j] \in Seq(A) /\ Once(F[j])
      BY <2>7
    <3>2. QED BY <2>4, <2>8, <2>9, <3>1, ConcatOnce
  <2>11. \A x : Has(F[i], x) <=> \E k \in 1 .. i : Has(seqs[k], x)
    BY <2>6, <2>7, <2>10, Zenon
  <2>12. QED BY <2>3, <2>10, <2>11
<1>8. CASE L = 0
  <2>1. FlattenSeq(seqs) = seqs
    <3>1. Len(seqs) = 0
      BY <1>1, <1>8
    <3>2. QED BY <3>1, Zenon DEF FlattenSeq
  <2>2. seqs = <<>> /\ DOMAIN seqs = {}
    BY <1>1, <1>8
  <2>3. seqs \in Seq(A)
    BY <2>2
  <2>4. QED BY <2>1, <2>2, <2>3 DEF Once, Has
<1>9. CASE L # 0
  <2>1. L \in 1 .. L
    BY <1>9
  <2>2. Upto(L)
    BY <1>7, <2>1
  <2>3. QED BY <1>1, <1>5, <1>9, <2>2
<1>10. QED BY <1>8, <1>9

\* The used slots of pools that fit are slots of the buffer, each once.
PoolsFit(index, count, nslot) ==
  /\ index \in Seq(Nat) /\ count \in Seq(Nat)
  /\ \A b \in DOMAIN count : count[b] # 0 => count[b] <= nslot /\ nslot * b <= Len(index)

\* Slot x is one of those that count has taken.
Taken(count, nslot, x) == \E b \in DOMAIN count : \E i \in 1 .. count[b] : x = nslot * (b - 1) + i

\* Slots of different pools are different.
LEMMA PoolsApart ==
  ASSUME NEW nslot \in Nat, NEW b \in Nat \ {0}, NEW c \in Nat \ {0},
         NEW i \in 1 .. nslot, NEW j \in 1 .. nslot, nslot * (b - 1) + i = nslot * (c - 1) + j
  PROVE  b = c /\ i = j
<1>1. ASSUME NEW x \in Nat, NEW y \in Nat, x < y PROVE nslot * y >= nslot * x + nslot
  <2>1. PICK d \in Nat : y = x + 1 + d
    <3>1. y - x - 1 \in Nat /\ y = x + 1 + (y - x - 1)
      BY <1>1
    <3>2. QED BY <3>1
  <2>2. nslot * (x + 1 + d) = nslot * x + nslot + nslot * d /\ nslot * d \in Nat /\ nslot * x \in Nat
    BY SMT
  <2>3. PICK p \in Nat, q \in Nat : p = nslot * x /\ q = nslot * d
    BY <2>2
  <2>4. nslot * y = p + nslot + q
    BY <2>1, <2>2, <2>3
  <2>5. QED BY <2>3, <2>4
<1>2. PICK x \in Nat, y \in Nat : x = b - 1 /\ y = c - 1
  OBVIOUS
<1>3. nslot * x \in Nat /\ nslot * y \in Nat
  BY SMT
<1>4. PICK p \in Nat, q \in Nat : p = nslot * x /\ q = nslot * y
  BY <1>3
<1>5. p + i = q + j
  BY <1>2, <1>4
<1>6. ~(x < y)
  <2>1. SUFFICES ASSUME x < y PROVE FALSE
    OBVIOUS
  <2>2. q >= p + nslot
    BY <1>1, <1>4, <2>1
  <2>3. QED BY <1>5, <2>2
<1>7. ~(y < x)
  <2>1. SUFFICES ASSUME y < x PROVE FALSE
    OBVIOUS
  <2>2. p >= q + nslot
    BY <1>1, <1>4, <2>1
  <2>3. QED BY <1>5, <2>2
<1>8. x = y
  BY <1>6, <1>7
<1>9. b = c
  BY <1>2, <1>8
<1>10. p = q
  BY <1>4, <1>8
<1>11. QED BY <1>5, <1>9, <1>10

AreTaken(s, count, nslot) == \A x : x \in ToSet(s) <=> Taken(count, nslot, x)

LEMMA UsedSlotsAre ==
  ASSUME NEW index, NEW count, NEW nslot \in Nat, PoolsFit(index, count, nslot)
  PROVE  /\ UsedSlots(count, nslot) \in Seq(1 .. Len(index)) /\ Once(UsedSlots(count, nslot))
         /\ AreTaken(UsedSlots(count, nslot), count, nslot)
<1> DEFINE slots == [b \in DOMAIN count |-> [i \in 1 .. count[b] |-> nslot * (b - 1) + i]]
<1>0. PICK l \in Nat : l = Len(index)
  BY DEF PoolsFit
<1>1. Len(count) \in Nat /\ DOMAIN count = 1 .. Len(count) /\ \A b \in DOMAIN count : count[b] \in Nat
  BY DEF PoolsFit
<1>2. ASSUME NEW b \in DOMAIN count
      PROVE  /\ slots[b] \in Seq(1 .. l) /\ Once(slots[b])
             /\ \A x : Has(slots[b], x) <=> \E i \in 1 .. count[b] : x = nslot * (b - 1) + i
  <2>1. PICK c \in Nat : c = count[b]
    BY <1>1
  <2>2. nslot * (b - 1) \in Nat
    <3>1. b - 1 \in Nat
      BY <1>1
    <3>2. \A x \in Nat : nslot * x \in Nat
      BY SMT
    <3>3. QED BY <3>1, <3>2
  <2>3. PICK k \in Nat : k = nslot * (b - 1)
    BY <2>2
  <2>4. ASSUME NEW i \in 1 .. c PROVE k + i \in 1 .. l
    <3>1. c # 0
      BY <2>4
    <3>2. c <= nslot /\ nslot * b <= l
      BY <1>0, <2>1, <3>1 DEF PoolsFit
    <3>3. PICK a \in Nat : a = b - 1 /\ b = a + 1
      BY <1>1
    <3>4. nslot * (a + 1) = nslot * a + nslot
      BY SMT
    <3>5. nslot * b = k + nslot
      BY <2>3, <3>3, <3>4
    <3>6. k + nslot <= l
      BY <3>2, <3>5
    <3>7. QED BY <2>4, <3>2, <3>6
  <2>5. PICK f : f = slots[b]
    OBVIOUS
  <2>6. f = [i \in 1 .. c |-> k + i]
    BY <2>1, <2>3, <2>5
  <2>7. f \in [1 .. c -> 1 .. l]
    BY <2>4, <2>6
  <2>8. f \in Seq(1 .. l) /\ DOMAIN f = 1 .. c
    BY <2>7
  <2>9. Once(f)
    BY <2>6, <2>8 DEF Once
  <2>10. \A x : Has(f, x) <=> \E i \in 1 .. c : x = k + i
    BY <2>6, <2>8 DEF Has
  <2> HIDE DEF slots
  <2>11. QED BY <2>1, <2>3, <2>5, <2>8, <2>9, <2>10
<1>3. ASSUME NEW b \in DOMAIN count, NEW c \in DOMAIN count, b # c
      PROVE  Apart(slots[b], slots[c])
  <2>1. SUFFICES ASSUME NEW x, Has(slots[b], x), Has(slots[c], x) PROVE FALSE
    BY DEF Apart
  <2> HIDE DEF slots
  <2>2. PICK i \in 1 .. count[b] : x = nslot * (b - 1) + i
    BY <1>2, <2>1
  <2>3. PICK j \in 1 .. count[c] : x = nslot * (c - 1) + j
    BY <1>2, <2>1
  <2>4. i \in 1 .. nslot
    <3>1. PICK m \in Nat : m = count[b]
      BY <1>1
    <3>2. m <= nslot
      BY <2>2, <3>1 DEF PoolsFit
    <3>3. QED BY <2>2, <3>1, <3>2
  <2>5. j \in 1 .. nslot
    <3>1. PICK m \in Nat : m = count[c]
      BY <1>1
    <3>2. m <= nslot
      BY <2>3, <3>1 DEF PoolsFit
    <3>3. QED BY <2>3, <3>1, <3>2
  <2>6. b \in Nat \ {0} /\ c \in Nat \ {0}
    BY <1>1
  <2>7. nslot * (b - 1) + i = nslot * (c - 1) + j
    BY <2>2, <2>3
  <2>8. QED BY <1>3, <2>4, <2>5, <2>6, <2>7, PoolsApart
<1>4. slots \in Seq(Seq(1 .. l)) /\ DOMAIN slots = DOMAIN count
  <2>1. DOMAIN slots = 1 .. Len(count) /\ slots = [b \in 1 .. Len(count) |-> slots[b]]
    BY <1>1
  <2> HIDE DEF slots
  <2>2. slots \in [1 .. Len(count) -> Seq(1 .. l)]
    BY <1>1, <1>2, <2>1
  <2>3. QED BY <1>1, <2>1, <2>2
<1>5. UsedSlots(count, nslot) = FlattenSeq(slots)
  BY DEF UsedSlots
<1> HIDE DEF slots
<1>6. PICK A, t : A = 1 .. l /\ t = slots
  OBVIOUS
<1>7. /\ t \in Seq(Seq(A)) /\ \A k \in DOMAIN t : Once(t[k])
      /\ \A k, m \in DOMAIN t : k # m => Apart(t[k], t[m])
  BY <1>2, <1>3, <1>4, <1>6
<1>8. /\ FlattenSeq(t) \in Seq(A) /\ Once(FlattenSeq(t))
      /\ \A x : Has(FlattenSeq(t), x) <=> \E k \in DOMAIN t : Has(t[k], x)
  BY <1>7, FlattenOnce
<1>9. PICK u : u = UsedSlots(count, nslot) /\ u = FlattenSeq(t)
  BY <1>5, <1>6
<1>10. ASSUME NEW x PROVE x \in ToSet(u) <=> Taken(count, nslot, x)
  <2>1. x \in ToSet(u) <=> Has(u, x)
    BY DEF ToSet, Has
  <2>2. Has(u, x) <=> \E k \in DOMAIN t : Has(t[k], x)
    BY <1>8, <1>9
  <2>3. (\E k \in DOMAIN t : Has(t[k], x)) <=> Taken(count, nslot, x)
    <3>1. \A k \in DOMAIN count : Has(slots[k], x) <=> \E i \in 1 .. count[k] : x = nslot * (k - 1) + i
      BY <1>2
    <3>2. t = slots /\ DOMAIN slots = DOMAIN count
      BY <1>4, <1>6
    <3>3. QED BY <3>1, <3>2, Zenon DEF Taken
  <2>4. QED BY <2>1, <2>2, <2>3
<1>11. AreTaken(u, count, nslot)
  BY <1>10 DEF AreTaken
<1>12. QED BY <1>0, <1>6, <1>8, <1>9, <1>11

LEMMA AppendFits ==
  ASSUME NEW index, NEW count, NEW nslot \in Nat, PoolsFit(index, count, nslot)
  PROVE  PoolsFit(index, Append(count, 0), nslot)
<1>1. /\ count \in Seq(Nat) /\ Append(count, 0) \in Seq(Nat)
      /\ \A b \in DOMAIN Append(count, 0) :
           Append(count, 0)[b] = 0 \/ (b \in DOMAIN count /\ Append(count, 0)[b] = count[b])
  BY DEF PoolsFit
<1>2. QED BY <1>1 DEF PoolsFit

Into(s, n, A) == \A i \in 1 .. n : s[i] \in A

LEMMA PermutedIn ==
  ASSUME NEW A, NEW s, NEW n \in Nat, NEW order, order \in Seq(1 .. n), Into(s, n, A)
  PROVE  /\ Permuted(s, order) \in Seq(A) /\ Len(Permuted(s, order)) = Len(order)
         /\ DOMAIN Permuted(s, order) = 1 .. Len(order)
         /\ \A i \in 1 .. Len(order) : Permuted(s, order)[i] = s[order[i]] /\ order[i] \in 1 .. n
<1>1. PICK m \in Nat : m = Len(order) /\ DOMAIN order = 1 .. m /\ order \in [1 .. m -> 1 .. n]
  OBVIOUS
<1>2. Permuted(s, order) = [i \in 1 .. m |-> s[order[i]]]
  BY <1>1 DEF Permuted
<1>3. Permuted(s, order) \in [1 .. m -> A]
  BY <1>1, <1>2 DEF Into
<1>4. Permuted(s, order) \in Seq(A) /\ Len(Permuted(s, order)) = m
  BY <1>3
<1>5. QED BY <1>1, <1>2, <1>4

\* What std::sort leaves never falls.
NotFalling(s) == s \in Seq(Nat) /\ \A i \in 1 .. Len(s) - 1 : s[i] <= s[i + 1]

LEMMA NotFallingIs ==
  ASSUME NEW s, NotFalling(s)
  PROVE  \A i, j \in DOMAIN s : i <= j => s[i] <= s[j]
<1>1. PICK n \in Nat : n = Len(s) /\ DOMAIN s = 1 .. n /\ s \in [1 .. n -> Nat]
  BY DEF NotFalling
<1>2. SUFFICES ASSUME NEW i \in 1 .. n PROVE \A j \in 1 .. n : i <= j => s[i] <= s[j]
  BY <1>1
<1> DEFINE Bad == {j \in 1 .. n : i <= j /\ ~(s[i] <= s[j])}
<1>3. SUFFICES ASSUME Bad # {} PROVE FALSE
  OBVIOUS
<1>4. PICK j \in Bad : \A k \in Bad : j <= k
  <2>1. Bad \subseteq Nat
    OBVIOUS
  <2> HIDE DEF Bad
  <2>2. QED BY <1>3, <2>1, LeastNat
<1>5. j \in 1 .. n /\ i <= j /\ ~(s[i] <= s[j])
  OBVIOUS
<1>6. i # j /\ s[i] \in Nat /\ s[j] \in Nat
  BY <1>1, <1>5
<1>7. PICK k \in 1 .. n : k = j - 1 /\ j = k + 1
  BY <1>5, <1>6
<1>8. i <= k /\ ~(j <= k)
  BY <1>5, <1>6, <1>7
<1>9. k \notin Bad
  <2> HIDE DEF Bad
  <2>1. QED BY <1>4, <1>8
<1>10. s[i] <= s[k]
  BY <1>8, <1>9
<1>11. s[k] <= s[j]
  <2>1. k \in 1 .. Len(s) - 1
    BY <1>1, <1>5, <1>7
  <2>2. QED BY <1>7, <2>1 DEF NotFalling
<1>12. QED BY <1>1, <1>5, <1>6, <1>7, <1>10, <1>11

LEMMA SortedIs ==
  ASSUME NEW keys \in Seq(Nat), NEW order \in Sortings(keys)
  PROVE  /\ order \in Seq(1 .. Len(keys)) /\ Len(order) = Len(keys)
         /\ NotFalling(Permuted(keys, order))
<1>1. PICK n \in Nat : n = Len(keys) /\ DOMAIN keys = 1 .. n
  OBVIOUS
<1>2. order \in [1 .. n -> 1 .. n] /\ \A i \in 1 .. n - 1 : keys[order[i]] <= keys[order[i + 1]]
  BY <1>1 DEF Sortings
<1>3. order \in Seq(1 .. n) /\ Len(order) = n
  BY <1>2
<1>4. /\ Permuted(keys, order) \in Seq(Nat) /\ Len(Permuted(keys, order)) = n
      /\ \A i \in 1 .. n : Permuted(keys, order)[i] = keys[order[i]]
  <2>1. Into(keys, n, Nat)
    BY <1>1 DEF Into
  <2>2. /\ Permuted(keys, order) \in Seq(Nat) /\ Len(Permuted(keys, order)) = Len(order)
        /\ \A i \in 1 .. Len(order) : Permuted(keys, order)[i] = keys[order[i]]
    <3>1. PICK A, o : A = Nat /\ o = order
      OBVIOUS
    <3>2. Into(keys, n, A) /\ o \in Seq(1 .. n)
      BY <1>3, <2>1, <3>1
    <3>3. /\ Permuted(keys, o) \in Seq(A) /\ Len(Permuted(keys, o)) = Len(o)
          /\ \A i \in 1 .. Len(o) : Permuted(keys, o)[i] = keys[o[i]]
      BY <3>2, PermutedIn
    <3>4. QED BY <3>1, <3>3
  <2>3. QED BY <1>3, <2>2
<1>5. NotFalling(Permuted(keys, order))
  <2>1. ASSUME NEW i \in 1 .. n - 1
        PROVE  Permuted(keys, order)[i] <= Permuted(keys, order)[i + 1]
    <3>1. i \in 1 .. n /\ i + 1 \in 1 .. n
      OBVIOUS
    <3>2. QED BY <1>2, <1>4, <3>1
  <2>2. QED BY <1>4, <2>1 DEF NotFalling
<1>6. QED BY <1>1, <1>3, <1>5

\* A sorting has every position.
LEMMA SortingOnto ==
  ASSUME NEW keys \in Seq(Nat), NEW order \in Sortings(keys), NEW n, n = Len(keys)
  PROVE  /\ order \in [1 .. n -> 1 .. n] /\ \A i, j \in 1 .. n : order[i] = order[j] => i = j
         /\ \A k \in 1 .. n : \E i \in 1 .. n : order[i] = k
<1>1. order \in [1 .. n -> 1 .. n] /\ \A i, j \in 1 .. n : order[i] = order[j] => i = j
  BY DEF Sortings
<1>2. n \in Nat /\ IsFiniteSet(1 .. n)
  BY FS_Interval
<1>3. order \in Injection(1 .. n, 1 .. n)
  BY <1>1 DEF Injection, IsInjective
<1>4. order \in Surjection(1 .. n, 1 .. n)
  BY <1>2, <1>3, FS_Injection
<1>5. QED BY <1>1, <1>4 DEF Surjection

LEMMA PermutedAll ==
  ASSUME NEW used, NEW L \in Nat, used \in Seq(1 .. L), Once(used), NEW n, n = Len(used),
         NEW order \in [1 .. n -> 1 .. n], \A i, j \in 1 .. n : order[i] = order[j] => i = j,
         \A k \in 1 .. n : \E i \in 1 .. n : order[i] = k
  PROVE  Once(Permuted(used, order)) /\ ToSet(Permuted(used, order)) = ToSet(used)
<1>1. n \in Nat /\ DOMAIN used = 1 .. n
  <2>1. PICK T : T = 1 .. L
    OBVIOUS
  <2>2. used \in Seq(T)
    BY <2>1
  <2>3. QED BY <2>2
<1>2. PICK s : s = Permuted(used, order)
  OBVIOUS
<1>3. DOMAIN s = 1 .. n /\ \A i \in 1 .. n : s[i] = used[order[i]]
  BY <1>2 DEF Permuted
<1>4. Once(s)
  <2>1. ASSUME NEW i \in 1 .. n, NEW j \in 1 .. n, s[i] = s[j] PROVE i = j
    <3>1. order[i] \in 1 .. n /\ order[j] \in 1 .. n /\ used[order[i]] = used[order[j]]
      BY <1>3, <2>1
    <3>2. order[i] = order[j]
      BY <1>1, <3>1 DEF Once
    <3>3. QED BY <3>2
  <2>2. QED BY <1>3, <2>1 DEF Once
<1>5. ToSet(s) = ToSet(used)
  <2>1. \A x \in ToSet(s) : x \in ToSet(used)
    BY <1>1, <1>3 DEF ToSet
  <2>2. \A x \in ToSet(used) : x \in ToSet(s)
    BY <1>1, <1>3 DEF ToSet
  <2>3. QED BY <2>1, <2>2
<1>6. QED BY <1>2, <1>4, <1>5

LEMMA IncreasingRises ==
  ASSUME NEW S, S \subseteq Nat, IsFiniteSet(S)
  PROVE  Rising(Increasing(S)) /\ Len(Increasing(S)) = Cardinality(S) /\ ToSet(Increasing(S)) = S
<1>1. S \subseteq Int
  OBVIOUS
<1>2. PICK n \in Nat : n = Cardinality(S)
  BY <1>1, IncreasingIs
<1>3. /\ Increasing(S) \in [1 .. n -> S]
      /\ \A i, j \in 1 .. n : i < j => Increasing(S)[i] < Increasing(S)[j]
      /\ \A x \in S : \E i \in 1 .. n : Increasing(S)[i] = x
  BY <1>1, <1>2, IncreasingIs
<1>4. Increasing(S) \in Seq(Nat) /\ Len(Increasing(S)) = n /\ DOMAIN Increasing(S) = 1 .. n
  <2>1. PICK f : f = Increasing(S)
    OBVIOUS
  <2>2. f \in [1 .. n -> Nat]
    BY <1>3, <2>1
  <2>3. f \in Seq(Nat) /\ Len(f) = n /\ DOMAIN f = 1 .. n
    BY <2>2
  <2>4. QED BY <2>1, <2>3
<1>5. Rising(Increasing(S))
  BY <1>3, <1>4 DEF Rising
<1>6. ToSet(Increasing(S)) = S
  BY <1>3, <1>4 DEF ToSet
<1>7. QED BY <1>2, <1>4, <1>5, <1>6

\* The first entries of the runs of equal keys rise.
LEMMA SegmentsRise ==
  ASSUME NEW s, NotFalling(s)
  PROVE  /\ Segments(s) \in Seq(1 .. Len(s))
         /\ Rising(Permuted(s, Segments(s)))
         /\ \A x \in ToSet(Permuted(s, Segments(s))) : x \in ToSet(s)
<1>1. PICK n \in Nat : n = Len(s) /\ DOMAIN s = 1 .. n /\ s \in [1 .. n -> Nat]
  BY DEF NotFalling
<1>2. PICK S : S = {p \in 1 .. n : p = 1 \/ s[p - 1] # s[p]}
  OBVIOUS
<1>3. Segments(s) = Increasing(S)
  BY <1>1, <1>2 DEF Segments
<1>4. S \subseteq Int /\ IsFiniteSet(S)
  <2>1. S \in SUBSET (1 .. n)
    BY <1>2
  <2>2. IsFiniteSet(1 .. n)
    BY FS_Interval
  <2>3. S \subseteq Int
    BY <2>1
  <2>4. QED BY <2>1, <2>2, <2>3, FS_Subset
<1>5. PICK m \in Nat : m = Cardinality(S)
  BY <1>4, IncreasingIs
<1>6. PICK t : t = Increasing(S)
  OBVIOUS
<1>7. t \in [1 .. m -> S] /\ \A i, j \in 1 .. m : i < j => t[i] < t[j]
  BY <1>4, <1>5, <1>6, IncreasingIs
<1>8. t \in Seq(1 .. n) /\ Len(t) = m
  <2>1. t \in [1 .. m -> 1 .. n]
    BY <1>2, <1>7
  <2>2. QED BY <2>1
<1>9. /\ Permuted(s, t) \in Seq(Nat) /\ DOMAIN Permuted(s, t) = 1 .. m
      /\ \A i \in 1 .. m : Permuted(s, t)[i] = s[t[i]]
  <2>1. Into(s, n, Nat)
    BY <1>1 DEF Into
  <2>2. QED BY <1>8, <2>1, PermutedIn
<1>10. ASSUME NEW i \in 1 .. m, NEW j \in 1 .. m, i < j
       PROVE  s[t[i]] < s[t[j]]
  <2>1. PICK p \in 1 .. n, q \in 1 .. n : p = t[i] /\ q = t[j] /\ p < q /\ (q = 1 \/ s[q - 1] # s[q])
    BY <1>2, <1>7, <1>10
  <2>2. PICK r \in 1 .. n : r = q - 1 /\ p <= r /\ r <= q /\ s[r] # s[q]
    BY <2>1
  <2>3. s[p] <= s[r] /\ s[r] <= s[q]
    BY <1>1, <2>2, NotFallingIs
  <2>4. s[p] \in Nat /\ s[r] \in Nat /\ s[q] \in Nat
    BY <1>1
  <2>5. QED BY <2>1, <2>2, <2>3, <2>4
<1>11. Rising(Permuted(s, t))
  BY <1>9, <1>10 DEF Rising
<1>12. \A x \in ToSet(Permuted(s, t)) : x \in ToSet(s)
  BY <1>1, <1>7, <1>9, <1>2 DEF ToSet
<1>13. QED BY <1>1, <1>3, <1>6, <1>8, <1>11, <1>12

-----------------------------------------------------------------------------
(* The search.                                                             *)

NarrowTo(f, idx, x, n, base) ==
  IF n <= 1 THEN base
  ELSE f[n - n \div 2][IF idx[base + n \div 2 + 1] < x THEN base + n \div 2 ELSE base]
IsNarrow(f, idx, x, N) ==
  f = [n \in 0 .. N |-> [base \in Nat |-> NarrowTo(f, idx, x, n, base)]]

LEMMA Halves ==
  ASSUME NEW n \in Nat, n > 1
  PROVE  /\ n \div 2 \in 1 .. n - 1 /\ n - n \div 2 \in 1 .. n - 1
         /\ n \div 2 <= n - n \div 2
  OBVIOUS

LEMMA NarrowApplies ==
  ASSUME NEW idx, NEW x, NEW N, NEW f, IsNarrow(f, idx, x, N), NEW n \in 0 .. N
  PROVE  /\ f[n] = [base \in Nat |-> NarrowTo(f, idx, x, n, base)]
         /\ \A base \in Nat : f[n][base] = NarrowTo(f, idx, x, n, base)
<1>1. PICK g : g = [m \in 0 .. N |-> [base \in Nat |-> NarrowTo(f, idx, x, m, base)]]
  OBVIOUS
<1>2. f = g
  BY <1>1 DEF IsNarrow
<1>3. g[n] = [base \in Nat |-> NarrowTo(f, idx, x, n, base)]
  BY <1>1
<1>4. \A base \in Nat : g[n][base] = NarrowTo(f, idx, x, n, base)
  BY <1>3
<1>5. QED BY <1>2, <1>3, <1>4

\* The loop ends: the recursive function exists.
LEMMA NarrowExists ==
  ASSUME NEW idx, NEW x, NEW N \in Nat
  PROVE  \E f : IsNarrow(f, idx, x, N)
<1> DEFINE Bad == {k \in Nat : ~\E f : IsNarrow(f, idx, x, k)}
<1>1. SUFFICES ASSUME Bad # {} PROVE FALSE
  OBVIOUS
<1>2. PICK k \in Bad : \A m \in Bad : k <= m
  <2>1. Bad \subseteq Nat
    OBVIOUS
  <2> HIDE DEF Bad
  <2>2. QED BY <1>1, <2>1, LeastNat
<1>3. k \in Nat /\ ~\E f : IsNarrow(f, idx, x, k)
  OBVIOUS
<1>4. k # 0
  <2>1. SUFFICES ASSUME k = 0 PROVE FALSE
    OBVIOUS
  <2>2. PICK f : f = [n \in 0 .. 0 |-> [base \in Nat |-> base]]
    OBVIOUS
  <2>3. \A n \in 0 .. 0, base \in Nat : NarrowTo(f, idx, x, n, base) = base
    BY DEF NarrowTo
  <2>4. \A n \in 0 .. 0 : [base \in Nat |-> NarrowTo(f, idx, x, n, base)] = [base \in Nat |-> base]
    BY <2>3
  <2>5. f = [n \in 0 .. 0 |-> [base \in Nat |-> NarrowTo(f, idx, x, n, base)]]
    BY <2>2, <2>4
  <2>6. QED BY <1>3, <2>1, <2>5 DEF IsNarrow
<1>5. PICK f : IsNarrow(f, idx, x, k - 1)
  <2>1. k - 1 \in Nat /\ ~(k <= k - 1)
    BY <1>3, <1>4
  <2>2. k - 1 \notin Bad
    <3> HIDE DEF Bad
    <3>1. QED BY <1>2, <2>1
  <2>3. QED BY <2>1, <2>2
<1>6. PICK g : g = [n \in 0 .. k |-> [base \in Nat |-> NarrowTo(f, idx, x, n, base)]]
  OBVIOUS
<1>7. ASSUME NEW n \in 0 .. k - 1 PROVE g[n] = f[n]
  <2>1. f[n] = [base \in Nat |-> NarrowTo(f, idx, x, n, base)]
    BY <1>5, NarrowApplies
  <2>2. n \in 0 .. k
    BY <1>3
  <2>3. g[n] = [base \in Nat |-> NarrowTo(f, idx, x, n, base)]
    BY <1>6, <2>2
  <2>4. QED BY <2>1, <2>3
<1>8. \A n \in 0 .. k, base \in Nat : NarrowTo(g, idx, x, n, base) = NarrowTo(f, idx, x, n, base)
  <2>1. SUFFICES ASSUME NEW n \in 0 .. k, NEW base \in Nat, ~(n <= 1)
                 PROVE  NarrowTo(g, idx, x, n, base) = NarrowTo(f, idx, x, n, base)
    BY DEF NarrowTo
  <2>2. n - n \div 2 \in 0 .. k - 1
    <3>1. n \in Nat /\ n <= k
      BY <1>3
    <3>2. n > 1 /\ n - n \div 2 \in 1 .. n - 1
      BY <2>1, <3>1, Halves
    <3>3. QED BY <1>3, <3>1, <3>2
  <2>3. g[n - n \div 2] = f[n - n \div 2]
    BY <1>7, <2>2
  <2>4. QED BY <2>3 DEF NarrowTo
<1>9. \A n \in 0 .. k :
        [base \in Nat |-> NarrowTo(f, idx, x, n, base)] = [base \in Nat |-> NarrowTo(g, idx, x, n, base)]
  BY <1>8
<1>10. IsNarrow(g, idx, x, k)
  BY <1>6, <1>9 DEF IsNarrow
<1>11. QED BY <1>3, <1>10

\* Where x is or belongs.
Belongs(idx, x, id) ==
  id \in 0 .. Len(idx) /\ \A i \in 1 .. Len(idx) : i <= id <=> idx[i] < x

\* What the loop keeps: x does not belong before base or behind base + n.
Between(idx, x, n, base) ==
  /\ n \in Nat /\ n >= 1 /\ base \in Nat /\ base + n <= Len(idx)
  /\ base = 0 \/ idx[base + 1] < x
  /\ base + n = Len(idx) \/ ~(idx[base + n + 1] < x)

LEMMA NarrowKeeps ==
  ASSUME NEW idx, Rising(idx), NEW x \in Nat, NEW N \in Nat,
         NEW f, IsNarrow(f, idx, x, N),
         NEW n \in 0 .. N, NEW base, Between(idx, x, n, base)
  PROVE  Between(idx, x, 1, f[n][base])
<1> DEFINE Bad == {k \in 0 .. N : \E b \in Nat : Between(idx, x, k, b) /\ ~Between(idx, x, 1, f[k][b])}
<1>1. SUFFICES ASSUME Bad # {} PROVE FALSE
  BY DEF Between
<1>2. PICK k \in Bad : \A m \in Bad : k <= m
  <2>1. Bad \subseteq Nat
    OBVIOUS
  <2> HIDE DEF Bad
  <2>2. QED BY <1>1, <2>1, LeastNat
<1>3. PICK b \in Nat : k \in 0 .. N /\ Between(idx, x, k, b) /\ ~Between(idx, x, 1, f[k][b])
  OBVIOUS
<1>4. f[k][b] = NarrowTo(f, idx, x, k, b)
  <2> HIDE DEF Bad
  <2>1. PICK j \in 0 .. N : j = k
    BY <1>3
  <2>2. f[j] = [c \in Nat |-> NarrowTo(f, idx, x, j, c)]
    BY NarrowApplies
  <2>3. f[j][b] = NarrowTo(f, idx, x, j, b)
    BY <2>2
  <2>4. QED BY <2>1, <2>3
<1>5. k # 1
  <2>1. SUFFICES ASSUME k = 1 PROVE FALSE
    OBVIOUS
  <2>2. f[k][b] = b
    BY <1>4, <2>1 DEF NarrowTo
  <2>3. QED BY <1>3, <2>1, <2>2
<1>6. k \in Nat /\ k > 1 /\ b + k <= Len(idx) /\ Len(idx) \in Nat /\ k <= N
  BY <1>3, <1>5 DEF Between, Rising
<1>7. PICK h \in Nat, m \in Nat : /\ h = k \div 2 /\ m = k - k \div 2 /\ h \in 1 .. k - 1
                                  /\ m \in 1 .. k - 1 /\ h <= m /\ m + h = k
  <2>1. /\ k \div 2 \in 1 .. k - 1 /\ k - k \div 2 \in 1 .. k - 1
        /\ k \div 2 <= k - k \div 2
    BY <1>6, Halves
  <2>2. QED BY <1>6, <2>1
<1>8. PICK c \in Nat : c = IF idx[b + h + 1] < x THEN b + h ELSE b
  OBVIOUS
<1>9. f[k][b] = f[m][c]
  BY <1>4, <1>6, <1>7, <1>8 DEF NarrowTo
<1>10. Between(idx, x, m, c)
  <2>1. CASE idx[b + h + 1] < x
    <3>1. c = b + h /\ c + m = b + k
      BY <1>7, <1>8, <2>1
    <3>2. QED BY <1>3, <1>6, <1>7, <2>1, <3>1 DEF Between
  <2>2. CASE ~(idx[b + h + 1] < x)
    <3>1. c = b
      BY <1>8, <2>2
    <3>2. b + h + 1 \in DOMAIN idx /\ b + m + 1 \in DOMAIN idx /\ b + h + 1 <= b + m + 1
      BY <1>6, <1>7 DEF Rising
    <3>3. ~(idx[b + m + 1] < x)
      <4>1. idx[b + h + 1] \in Nat /\ idx[b + m + 1] \in Nat
        BY <3>2 DEF Rising
      <4>2. idx[b + h + 1] <= idx[b + m + 1]
        <5>1. CASE h = m
          BY <4>1, <5>1
        <5>2. CASE h # m
          <6>1. PICK i \in DOMAIN idx, j \in DOMAIN idx : i = b + h + 1 /\ j = b + m + 1 /\ i < j
            BY <1>7, <3>2, <5>2
          <6>2. idx[i] < idx[j]
            BY <6>1 DEF Rising
          <6>3. QED BY <4>1, <6>1, <6>2
        <5>3. QED BY <5>1, <5>2
      <4>3. QED BY <2>2, <4>1, <4>2
    <3>4. b = 0 \/ idx[b + 1] < x
      BY <1>3 DEF Between
    <3>5. QED BY <1>6, <1>7, <3>1, <3>3, <3>4 DEF Between
  <2>3. QED BY <2>1, <2>2
<1>11. m \in 0 .. N /\ ~(k <= m)
  BY <1>6, <1>7
<1>12. m \notin Bad
  <2> HIDE DEF Bad
  <2>1. QED BY <1>2, <1>11
<1>13. Between(idx, x, 1, f[m][c])
  BY <1>10, <1>11, <1>12
<1>14. QED BY <1>3, <1>9, <1>13

\* The comparison with the element that is left decides.
LEMMA BetweenBelongs ==
  ASSUME NEW idx, Rising(idx), NEW x \in Nat, NEW base, Between(idx, x, 1, base)
  PROVE  Belongs(idx, x, base + IF idx[base + 1] < x THEN 1 ELSE 0)
<1>1. PICK N \in Nat : N = Len(idx) /\ DOMAIN idx = 1 .. N
  BY DEF Rising
<1>2. base \in Nat /\ base + 1 <= N /\ base + 1 \in 1 .. N
  BY <1>1 DEF Between
<1>3. \A i \in 1 .. N : idx[i] \in Nat
  BY <1>1 DEF Rising
<1>4. CASE idx[base + 1] < x
  <2>1. ASSUME NEW i \in 1 .. N PROVE i <= base + 1 <=> idx[i] < x
    <3>1. CASE i <= base + 1
      <4>1. i = base + 1 \/ idx[i] < idx[base + 1]
        BY <1>1, <1>2, <3>1 DEF Rising
      <4>2. QED BY <1>2, <1>3, <1>4, <3>1, <4>1
    <3>2. CASE ~(i <= base + 1)
      <4>1. base + 2 \in 1 .. N /\ base + 1 # N /\ base + 2 <= i
        BY <1>2, <3>2
      <4>2. ~(idx[base + 2] < x)
        BY <1>1, <1>2, <4>1 DEF Between
      <4>3. i = base + 2 \/ idx[base + 2] < idx[i]
        <5>1. PICK c \in 1 .. N : c = base + 2 /\ c <= i
          BY <4>1
        <5>2. c < i => idx[c] < idx[i]
          BY <1>1, <5>1 DEF Rising
        <5>3. QED BY <1>1, <5>1, <5>2
      <4>4. QED BY <1>2, <1>3, <3>2, <4>1, <4>2, <4>3
    <3>3. QED BY <3>1, <3>2
  <2>2. QED BY <1>1, <1>2, <1>4, <2>1 DEF Belongs
<1>5. CASE ~(idx[base + 1] < x)
  <2>1. base = 0
    BY <1>5 DEF Between
  <2>2. ASSUME NEW i \in 1 .. N PROVE ~(i <= 0) /\ ~(idx[i] < x)
    <3>1. i = 1 \/ idx[1] < idx[i]
      BY <1>1, <1>2, <2>1 DEF Rising
    <3>2. QED BY <1>2, <1>3, <1>5, <2>1, <3>1
  <2>3. QED BY <1>1, <1>2, <1>5, <2>1, <2>2 DEF Belongs
<1>6. QED BY <1>4, <1>5

\* The loop of the model is that function.
LEMMA NarrowIs ==
  ASSUME NEW x \in Nat, Rising(vct_index), vct_index # <<>>, Len(vct_data) = Len(vct_index) + 1
  PROVE  Between(vct_index, x, 1, Narrow(x))
<1> DEFINE F == CHOOSE f : IsNarrow(f, vct_index, x, Len(vct_data))
<1>1. PICK N \in Nat : N = Len(vct_index) /\ N >= 1 /\ Len(vct_data) = N + 1 /\ Len(vct_data) \in Nat
  <2>1. Len(vct_index) \in Nat \ {0}
    BY EmptySeq DEF Rising
  <2>2. QED BY <2>1
<1>2. IsNarrow(F, vct_index, x, Len(vct_data))
  BY <1>1, NarrowExists
<1>3. Narrow(x) = F[Len(vct_data) - 1][0]
  BY DEF Narrow, IsNarrow, NarrowTo
<1> HIDE DEF F
<1>4. Between(vct_index, x, N, 0)
  BY <1>1 DEF Between
<1>5. N \in 0 .. Len(vct_data) /\ Len(vct_data) - 1 = N
  BY <1>1
<1>6. Between(vct_index, x, 1, F[N][0])
  BY <1>1, <1>2, <1>4, <1>5, NarrowKeeps
<1>7. QED BY <1>3, <1>5, <1>6

\* SearchNoBck gives where x is or belongs, and the key it found there.
LEMMA SearchNoBckIs ==
  ASSUME NEW x \in Nat, Rising(vct_index), Len(vct_data) = Len(vct_index) + 1
  PROVE  /\ Belongs(vct_index, x, SearchNoBck(x).id)
         /\ SearchNoBck(x).v = IF SearchNoBck(x).id < Len(vct_index)
                               THEN vct_index[SearchNoBck(x).id + 1] ELSE -1
<1>1. CASE vct_index = <<>>
  <2>1. SearchNoBck(x) = [id |-> 0, v |-> -1]
    BY <1>1 DEF SearchNoBck
  <2>2. Len(vct_index) = 0
    BY <1>1
  <2>3. Belongs(vct_index, x, 0)
    BY <2>2 DEF Belongs
  <2>4. QED BY <2>1, <2>2, <2>3
<1>2. CASE vct_index # <<>>
  <2>1. PICK base : base = Narrow(x) /\ Between(vct_index, x, 1, base)
    BY <1>2, NarrowIs
  <2>2. PICK id : id = base + IF vct_index[base + 1] < x THEN 1 ELSE 0
    OBVIOUS
  <2>3. SearchNoBck(x) = [id |-> id, v |-> IF id < Len(vct_index) THEN vct_index[id + 1] ELSE -1]
    BY <1>2, <2>1, <2>2 DEF SearchNoBck
  <2>4. Belongs(vct_index, x, id)
    BY <2>1, <2>2, BetweenBelongs
  <2>5. QED BY <2>3, <2>4
<1>3. QED BY <1>1, <1>2

-----------------------------------------------------------------------------
(* Sequences whose elements nobody looks at.                               *)

LEMMA FunctionIsSeq ==
  ASSUME NEW f, NEW N \in Nat, f = [i \in 1 .. N |-> f[i]]
  PROVE  (\E S : f \in Seq(S)) /\ Len(f) = N /\ DOMAIN f = 1 .. N
<1>1. PICK S : S = {f[i] : i \in 1 .. N}
  OBVIOUS
<1>2. DOMAIN f = 1 .. N
  OBVIOUS
<1>3. \A i \in 1 .. N : f[i] \in S
  BY <1>1
<1>4. f \in [1 .. N -> S]
  BY <1>2, <1>3
<1>5. f \in Seq(S) /\ Len(f) = N
  BY <1>4
<1>6. QED BY <1>2, <1>5

\* The data of a vector: a value for each of n keys, and the background.
Vector(data, n, b) ==
  /\ n \in Nat /\ \E S : data \in Seq(S)
  /\ Len(data) = n + 1 /\ data[n + 1] = b

LEMMA AppendVector ==
  ASSUME NEW s, \E S : s \in Seq(S), NEW b
  PROVE  /\ Vector(Append(s, b), Len(s), b)
         /\ \A i \in 1 .. Len(s) : Append(s, b)[i] = s[i]
<1>1. PICK S : s \in Seq(S)
  OBVIOUS
<1>2. PICK T : T = S \cup {b}
  OBVIOUS
<1>3. s \in Seq(T) /\ b \in T
  BY <1>1, <1>2, SeqMonotonic
<1>4. /\ Append(s, b) \in Seq(T) /\ Len(Append(s, b)) = Len(s) + 1 /\ Len(s) \in Nat
      /\ Append(s, b)[Len(s) + 1] = b
      /\ \A i \in 1 .. Len(s) : Append(s, b)[i] = s[i]
  BY <1>3
<1>5. QED BY <1>4 DEF Vector

LEMMA FrontIs ==
  ASSUME NEW data, NEW n, NEW b, Vector(data, n, b)
  PROVE  /\ \E S : Front(data) \in Seq(S)
         /\ Len(Front(data)) = n /\ DOMAIN Front(data) = 1 .. n
         /\ \A i \in 1 .. n : Front(data)[i] = data[i]
<1>1. PICK S : data \in Seq(S)
  BY DEF Vector
<1>2. Len(data) = n + 1 /\ n \in Nat /\ DOMAIN data = 1 .. n + 1
  BY <1>1 DEF Vector
<1>3. Front(data) = SubSeq(data, 1, n)
  BY <1>2 DEF Front
<1>4. \A i \in 1 .. n : data[i] \in S
  BY <1>1, <1>2
<1>5. /\ SubSeq(data, 1, n) \in Seq(S)
      /\ Len(SubSeq(data, 1, n)) = IF 1 <= n THEN n - 1 + 1 ELSE 0
      /\ \A i \in 1 .. n - 1 + 1 : SubSeq(data, 1, n)[i] = data[1 + i - 1]
  BY <1>2, <1>4, SubSeqProperties
<1>6. /\ Len(Front(data)) = n
      /\ \A i \in 1 .. n : Front(data)[i] = data[i]
  BY <1>2, <1>3, <1>5
<1>7. DOMAIN Front(data) = 1 .. n
  BY <1>3, <1>5, <1>6
<1>8. QED BY <1>3, <1>5, <1>6, <1>7

LEMMA ExceptVector ==
  ASSUME NEW data, NEW n, NEW b, Vector(data, n, b), NEW i \in 1 .. n + 1, NEW e
  PROVE  /\ Vector([data EXCEPT ![i] = e], n, IF i = n + 1 THEN e ELSE b)
         /\ \A j \in 1 .. n + 1 : [data EXCEPT ![i] = e][j] = IF j = i THEN e ELSE data[j]
<1>1. PICK S : data \in Seq(S)
  BY DEF Vector
<1>2. PICK T : T = S \cup {e}
  OBVIOUS
<1>3. data \in Seq(T) /\ e \in T
  BY <1>1, <1>2, SeqMonotonic
<1>4. Len(data) = n + 1 /\ n \in Nat /\ data[n + 1] = b
  BY DEF Vector
<1>5. PICK d : d = [data EXCEPT ![i] = e]
  OBVIOUS
<1>6. /\ d \in Seq(T) /\ Len(d) = n + 1
      /\ \A j \in 1 .. n + 1 : d[j] = IF j = i THEN e ELSE data[j]
  BY <1>3, <1>4, <1>5, ExceptSeq
<1>7. n + 1 \in 1 .. n + 1
  BY <1>4
<1>8. QED BY <1>4, <1>5, <1>6, <1>7 DEF Vector

LEMMA InsertAtIs ==
  ASSUME NEW S, NEW s, s \in Seq(S), NEW at \in 1 .. Len(s) + 1, NEW e, e \in S
  PROVE  /\ InsertAt(s, at, e) \in Seq(S) /\ Len(InsertAt(s, at, e)) = Len(s) + 1
         /\ \A i \in 1 .. Len(s) + 1 :
              InsertAt(s, at, e)[i] = IF i < at THEN s[i] ELSE IF i = at THEN e ELSE s[i - 1]
<1>1. PICK n \in Nat : n = Len(s)
  OBVIOUS
<1>2. \A i \in 1 .. n : s[i] \in S
  BY <1>1
<1>3. PICK p, q : p = SubSeq(s, 1, at - 1) /\ q = SubSeq(s, at, n)
  OBVIOUS
<1>4. p \in Seq(S) /\ Len(p) = at - 1 /\ \A i \in 1 .. at - 1 : p[i] = s[i]
  <2>1. \A i \in 1 .. at - 1 : s[i] \in S
    BY <1>1, <1>2
  <2>2. PICK k \in Nat : k = at - 1
    BY <1>1
  <2>3. /\ SubSeq(s, 1, k) \in Seq(S)
        /\ Len(SubSeq(s, 1, k)) = IF 1 <= k THEN k - 1 + 1 ELSE 0
        /\ \A i \in 1 .. k - 1 + 1 : SubSeq(s, 1, k)[i] = s[1 + i - 1]
    BY <2>1, <2>2, SubSeqProperties
  <2>4. \A i \in 1 .. k : SubSeq(s, 1, k)[i] = s[i]
    BY <2>3
  <2>5. QED BY <1>3, <2>2, <2>3, <2>4
<1>5. q \in Seq(S) /\ Len(q) = n - at + 1 /\ \A i \in 1 .. n - at + 1 : q[i] = s[at + i - 1]
  <2>1. \A i \in at .. n : s[i] \in S
    BY <1>1, <1>2
  <2>2. PICK k \in Nat : k = at /\ k <= n + 1
    BY <1>1
  <2>3. /\ SubSeq(s, k, n) \in Seq(S)
        /\ Len(SubSeq(s, k, n)) = IF k <= n THEN n - k + 1 ELSE 0
        /\ \A i \in 1 .. n - k + 1 : SubSeq(s, k, n)[i] = s[k + i - 1]
    BY <2>1, <2>2, SubSeqProperties
  <2>4. QED BY <1>1, <1>3, <2>2, <2>3
<1>6. <<e>> \in Seq(S) /\ Len(<<e>>) = 1 /\ <<e>>[1] = e
  OBVIOUS
<1>7. PICK u : u = p \o <<e>>
  OBVIOUS
<1>8. /\ u \in Seq(S) /\ Len(u) = at
      /\ \A i \in 1 .. at : u[i] = IF i <= at - 1 THEN p[i] ELSE <<e>>[i - (at - 1)]
  <2>1. /\ p \o <<e>> \in Seq(S) /\ Len(p \o <<e>>) = Len(p) + Len(<<e>>)
        /\ \A i \in 1 .. Len(p) + Len(<<e>>) : (p \o <<e>>)[i] = IF i <= Len(p) THEN p[i] ELSE <<e>>[i - Len(p)]
    BY <1>4, <1>6, ConcatProperties
  <2>2. Len(p) + Len(<<e>>) = at
    BY <1>1, <1>4, <1>6
  <2>3. QED BY <1>4, <1>7, <2>1, <2>2
<1>9. \A i \in 1 .. at : u[i] = IF i < at THEN s[i] ELSE e
  <2>1. SUFFICES ASSUME NEW i \in 1 .. at PROVE u[i] = IF i < at THEN s[i] ELSE e
    OBVIOUS
  <2>2. CASE i < at
    <3>1. i \in 1 .. at - 1 /\ i <= at - 1
      BY <1>1, <2>2
    <3>2. u[i] = p[i] /\ p[i] = s[i]
      BY <1>4, <1>8, <3>1
    <3>3. QED BY <2>2, <3>2
  <2>3. CASE ~(i < at)
    <3>1. i = at /\ ~(i <= at - 1) /\ i - (at - 1) = 1
      BY <1>1, <2>3
    <3>2. u[i] = <<e>>[i - (at - 1)]
      BY <1>8, <3>1
    <3>3. QED BY <1>6, <2>3, <3>1, <3>2
  <2>4. QED BY <2>2, <2>3
<1>10. /\ u \o q \in Seq(S) /\ Len(u \o q) = n + 1
       /\ \A i \in 1 .. n + 1 : (u \o q)[i] = IF i <= at THEN u[i] ELSE q[i - at]
  <2>1. /\ u \o q \in Seq(S) /\ Len(u \o q) = Len(u) + Len(q)
        /\ \A i \in 1 .. Len(u) + Len(q) : (u \o q)[i] = IF i <= Len(u) THEN u[i] ELSE q[i - Len(u)]
    BY <1>5, <1>8, ConcatProperties
  <2>2. Len(u) + Len(q) = n + 1
    BY <1>1, <1>5, <1>8
  <2>3. QED BY <1>8, <2>1, <2>2
<1>11. ASSUME NEW i \in 1 .. n + 1
       PROVE  (u \o q)[i] = IF i < at THEN s[i] ELSE IF i = at THEN e ELSE s[i - 1]
  <2>1. CASE i <= at
    <3>1. i \in 1 .. at /\ (~(i < at) => i = at)
      BY <1>1, <2>1
    <3>2. (u \o q)[i] = u[i]
      BY <1>10, <2>1
    <3>3. u[i] = IF i < at THEN s[i] ELSE e
      BY <1>9, <3>1
    <3>4. QED BY <3>1, <3>2, <3>3
  <2>2. CASE i > at
    <3>1. i - at \in 1 .. n - at + 1 /\ at + (i - at) - 1 = i - 1
      BY <1>1, <2>2
    <3>2. q[i - at] = s[i - 1]
      BY <1>5, <3>1
    <3>3. ~(i <= at) /\ ~(i < at) /\ i # at
      BY <1>1, <2>2
    <3>4. (u \o q)[i] = q[i - at]
      BY <1>10, <3>3
    <3>5. QED BY <3>2, <3>3, <3>4
  <2>3. i <= at \/ i > at
    BY <1>1
  <2>4. QED BY <2>1, <2>2, <2>3
<1>12. InsertAt(s, at, e) = u \o q
  BY <1>1, <1>3, <1>7 DEF InsertAt
<1>13. QED BY <1>1, <1>10, <1>11, <1>12

LEMMA ToSetFinite ==
  ASSUME NEW s \in Seq(Nat)
  PROVE  IsFiniteSet(ToSet(s)) /\ ToSet(s) \subseteq Nat
<1>1. PICK n \in Nat : n = Len(s) /\ DOMAIN s = 1 .. n
  OBVIOUS
<1>2. ToSet(s) = {s[i] : i \in 1 .. n}
  BY <1>1 DEF ToSet
<1>3. IsFiniteSet(1 .. n)
  BY FS_Interval
<1>4. IsFiniteSet({s[i] : i \in 1 .. n})
  <2>1. s \in Surjection(1 .. n, {s[i] : i \in 1 .. n})
    BY <1>1 DEF Surjection
  <2>2. QED BY <1>3, <2>1, FS_Surjection
<1>5. QED BY <1>1, <1>2, <1>4

\* Taking positions twice.
LEMMA PermutedTwice ==
  ASSUME NEW s, NEW used, NEW order, \A i \in DOMAIN order : order[i] \in DOMAIN used
  PROVE  Permuted(Permuted(s, used), order) = Permuted(s, Permuted(used, order))
<1>1. Permuted(s, used) = [j \in DOMAIN used |-> s[used[j]]]
  BY DEF Permuted
<1>2. Permuted(used, order) = [i \in DOMAIN order |-> used[order[i]]]
  BY DEF Permuted
<1>3. PICK t, u : t = Permuted(s, used) /\ u = Permuted(used, order)
  OBVIOUS
<1>4. Permuted(t, order) = [i \in DOMAIN order |-> t[order[i]]]
  BY DEF Permuted
<1>5. Permuted(s, u) = [i \in DOMAIN order |-> s[u[i]]]
  BY <1>2, <1>3 DEF Permuted
<1>6. \A i \in DOMAIN order : t[order[i]] = s[used[order[i]]] /\ u[i] = used[order[i]]
  BY <1>1, <1>2, <1>3
<1>7. QED BY <1>3, <1>4, <1>5, <1>6

-----------------------------------------------------------------------------
(* The vector after insertFlush.                                           *)

LEMMA InsertVector ==
  ASSUME NEW data, NEW n, NEW b, Vector(data, n, b), NEW at \in 1 .. n + 1, NEW e
  PROVE  Vector(InsertAt(data, at, e), n + 1, b)
<1>1. PICK S : data \in Seq(S)
  BY DEF Vector
<1>2. PICK T : T = S \cup {e}
  OBVIOUS
<1>3. data \in Seq(T) /\ e \in T
  BY <1>1, <1>2, SeqMonotonic
<1>4. n \in Nat /\ Len(data) = n + 1 /\ data[n + 1] = b
  BY DEF Vector
<1>5. at \in 1 .. Len(data) + 1 /\ n + 2 \in 1 .. Len(data) + 1 /\ ~(n + 2 < at) /\ n + 2 # at
  BY <1>4
<1>6. /\ InsertAt(data, at, e) \in Seq(T) /\ Len(InsertAt(data, at, e)) = Len(data) + 1
      /\ \A i \in 1 .. Len(data) + 1 :
           InsertAt(data, at, e)[i] = IF i < at THEN data[i] ELSE IF i = at THEN e ELSE data[i - 1]
  BY <1>3, <1>5, InsertAtIs
<1>7. InsertAt(data, at, e)[n + 2] = data[n + 1]
  BY <1>4, <1>5, <1>6
<1>8. QED BY <1>4, <1>6, <1>7 DEF Vector

LEMMA InsertRises ==
  ASSUME NEW idx, Rising(idx), NEW x \in Nat, NEW id, Belongs(idx, x, id),
         id < Len(idx) => idx[id + 1] # x
  PROVE  Rising(InsertAt(idx, id + 1, x)) /\ Len(InsertAt(idx, id + 1, x)) = Len(idx) + 1
<1>1. PICK n \in Nat : n = Len(idx) /\ DOMAIN idx = 1 .. n /\ idx \in [1 .. n -> Nat]
  BY DEF Rising
<1>2. id \in 0 .. n /\ \A i \in 1 .. n : i <= id <=> idx[i] < x
  BY <1>1 DEF Belongs
<1>3. PICK at \in Nat : at = id + 1 /\ at \in 1 .. n + 1
  BY <1>2
<1>4. PICK t : t = InsertAt(idx, at, x)
  OBVIOUS
<1>5. /\ t \in Seq(Nat) /\ Len(t) = n + 1
      /\ \A i \in 1 .. n + 1 : t[i] = IF i < at THEN idx[i] ELSE IF i = at THEN x ELSE idx[i - 1]
  <2>1. PICK A : A = Nat
    OBVIOUS
  <2>2. idx \in Seq(A) /\ x \in A /\ at \in 1 .. Len(idx) + 1
    BY <1>1, <1>3, <2>1 DEF Rising
  <2>3. /\ InsertAt(idx, at, x) \in Seq(A) /\ Len(InsertAt(idx, at, x)) = Len(idx) + 1
        /\ \A i \in 1 .. Len(idx) + 1 :
             InsertAt(idx, at, x)[i] = IF i < at THEN idx[i] ELSE IF i = at THEN x ELSE idx[i - 1]
    BY <2>2, InsertAtIs
  <2>4. QED BY <1>1, <1>4, <2>1, <2>3
<1>6. \A i \in 1 .. n : i < at => idx[i] < x
  BY <1>2, <1>3
<1>7. \A i \in 1 .. n : i >= at => x < idx[i]
  <2>1. SUFFICES ASSUME NEW i \in 1 .. n, i >= at PROVE x < idx[i]
    OBVIOUS
  <2>2. ~(idx[i] < x) /\ ~(idx[at] < x) /\ at \in 1 .. n
    BY <1>2, <1>3, <2>1
  <2>3. idx[at] # x /\ idx[at] \in Nat /\ idx[i] \in Nat
    BY <1>1, <1>2, <1>3, <2>2
  <2>4. i = at \/ idx[at] < idx[i]
    BY <1>1, <2>1, <2>2 DEF Rising
  <2>5. QED BY <2>2, <2>3, <2>4
<1>8. ASSUME NEW i \in 1 .. n + 1, NEW j \in 1 .. n + 1, i < j
      PROVE  t[i] < t[j]
  <2>0. /\ t[i] = IF i < at THEN idx[i] ELSE IF i = at THEN x ELSE idx[i - 1]
        /\ t[j] = IF j < at THEN idx[j] ELSE IF j = at THEN x ELSE idx[j - 1]
    BY <1>5
  <2>1. \A k, l \in 1 .. n : k < l => idx[k] < idx[l]
    BY <1>1 DEF Rising
  <2>2. CASE j < at
    <3>1. i \in 1 .. n /\ j \in 1 .. n /\ i < at
      BY <1>3, <1>8, <2>2
    <3>2. QED BY <1>8, <2>0, <2>1, <2>2, <3>1
  <2>3. CASE j = at
    <3>1. i \in 1 .. n /\ i < at
      BY <1>3, <1>8, <2>3
    <3>2. QED BY <1>3, <1>6, <2>0, <2>3, <3>1
  <2>4. CASE j > at
    <3>1. PICK l \in 1 .. n : l = j - 1 /\ l >= at
      BY <1>3, <2>4
    <3>2. t[j] = idx[l] /\ x < idx[l]
      BY <1>3, <1>7, <2>0, <2>4, <3>1
    <3>3. CASE i < at
      <4>1. i \in 1 .. n /\ i < l
        BY <1>3, <3>1, <3>3
      <4>2. QED BY <2>0, <2>1, <3>2, <3>3, <4>1
    <3>4. CASE i = at
      BY <1>3, <2>0, <3>2, <3>4
    <3>5. CASE i > at
      <4>1. PICK k \in 1 .. n : k = i - 1 /\ k < l
        BY <1>3, <1>8, <3>1, <3>5
      <4>2. t[i] = idx[k]
        BY <1>3, <2>0, <3>5, <4>1
      <4>3. QED BY <2>1, <3>2, <4>1, <4>2
    <3>6. QED BY <1>3, <3>3, <3>4, <3>5
  <2>5. QED BY <1>3, <2>2, <2>3, <2>4
<1>9. DOMAIN t = 1 .. n + 1
  BY <1>5
<1>10. QED BY <1>1, <1>3, <1>4, <1>5, <1>8, <1>9 DEF Rising

\* A kernel's slots fit in the pools it was launched with.
LEMMA StoredFits ==
  ASSUME NEW index, NEW count, NEW nslot \in Nat, nslot > 0, PoolsFit(index, count, nslot),
         nslot * NBlock <= Len(index),
         NEW b \in 1 .. NBlock, NEW inc \in BOOLEAN, inc => count[b] < nslot,
         NEW at, NEW k \in Nat
  PROVE  /\ PoolsFit(Stored(index, nslot, at, k, inc, NoKey), Counted(count, b, inc), nslot)
         /\ Len(Stored(index, nslot, at, k, inc, NoKey)) = Len(index)
<1>1. PICK n \in Nat, m \in Nat :
        /\ n = Len(index) /\ DOMAIN index = 1 .. n /\ index \in [1 .. n -> Nat]
        /\ m = Len(count) /\ DOMAIN count = 1 .. m /\ count \in [1 .. m -> Nat]
  BY SMTT(20) DEF PoolsFit
<1>2. PICK t, c : t = Stored(index, nslot, at, k, inc, NoKey) /\ c = Counted(count, b, inc)
  OBVIOUS
<1>3. t \in Seq(Nat) /\ Len(t) = n
  <2>1. PICK last : last = nslot * NBlock
    OBVIOUS
  <2>2. t = [i \in 1 .. n |-> IF i = at THEN k ELSE IF inc \/ i > last THEN index[i] ELSE NoKey]
    BY <1>1, <1>2, <2>1 DEF Stored
  <2>3. t \in [1 .. n -> Nat]
    BY <1>1, <2>2 DEF NoKey
  <2>4. QED BY <2>3
<1>4. c = [d \in 1 .. m |-> (IF inc \/ d > NBlock THEN count[d] ELSE 0) + IF d = b THEN 1 ELSE 0]
  BY <1>1, <1>2 DEF Counted
<1>5. c \in Seq(Nat) /\ DOMAIN c = 1 .. m
  <2>1. c \in [1 .. m -> Nat]
    BY <1>1, <1>4
  <2>2. QED BY <2>1
<1>6. NBlock \in Nat
  BY SparseVectorAssumption
<1>7. ASSUME NEW d \in 1 .. m, c[d] # 0
      PROVE  c[d] <= nslot /\ nslot * d <= n
  <2>1. count[d] \in Nat /\ (count[d] # 0 => count[d] <= nslot /\ nslot * d <= n)
    BY <1>1 DEF PoolsFit
  <2>2. c[d] = (IF inc \/ d > NBlock THEN count[d] ELSE 0) + IF d = b THEN 1 ELSE 0
    BY <1>4
  <2>3. CASE d = b
    <3>1. c[d] <= nslot
      BY <1>6, <2>1, <2>2, <2>3
    <3>2. nslot * d <= nslot * NBlock
      <4>1. PICK B \in Nat, r \in Nat : B = NBlock /\ B = d + r
        <5>1. NBlock - d \in Nat /\ NBlock = d + (NBlock - d)
          BY <1>6, <2>3
        <5>2. QED BY <1>6, <5>1
      <4>2. nslot * (d + r) = nslot * d + nslot * r /\ nslot * r \in Nat /\ nslot * d \in Nat
        BY SMT
      <4>3. QED BY <4>1, <4>2
    <3>3. nslot * d \in Nat /\ nslot * NBlock \in Nat
      BY <1>6
    <3>4. QED BY <1>1, <3>1, <3>2, <3>3
  <2>4. CASE d # b
    BY <1>7, <2>1, <2>2, <2>4
  <2>5. QED BY <2>3, <2>4
<1>8. PoolsFit(t, c, nslot)
  BY <1>3, <1>5, <1>7 DEF PoolsFit
<1>9. QED BY <1>1, <1>2, <1>3, <1>8

LEMMA StoredType ==
  ASSUME NEW index \in Seq(Nat), NEW count \in Seq(Nat), NEW nslot,
         NEW b, NEW inc \in BOOLEAN, NEW at, NEW k \in Nat
  PROVE  /\ Stored(index, nslot, at, k, inc, NoKey) \in Seq(Nat)
         /\ Counted(count, b, inc) \in Seq(Nat)
<1>1. PICK n \in Nat, m \in Nat :
        /\ DOMAIN index = 1 .. n /\ index \in [1 .. n -> Nat]
        /\ DOMAIN count = 1 .. m /\ count \in [1 .. m -> Nat]
  OBVIOUS
<1>2. PICK t, c : t = Stored(index, nslot, at, k, inc, NoKey) /\ c = Counted(count, b, inc)
  OBVIOUS
<1>3. t \in [1 .. n -> Nat]
  <2>1. PICK last : last = nslot * NBlock
    OBVIOUS
  <2>2. QED BY <1>1, <1>2, <2>1 DEF Stored, NoKey
<1>4. c \in [1 .. m -> Nat]
  BY <1>1, <1>2 DEF Counted
<1>5. t \in Seq(Nat) /\ c \in Seq(Nat)
  BY <1>3, <1>4
<1>6. QED BY <1>2, <1>5

-----------------------------------------------------------------------------
(* The inductive invariant.                                                *)

\* The vector, the one it is swapped with, and the pools of both kernels.
MainInv == Rising(vct_index) /\ Vector(vct_data, Len(vct_index), bck)
OtherInv ==
  /\ Rising(other.index) /\ \E b : Vector(other.data, Len(other.index), b)
  /\ other.add_index \in Seq(Nat)
AddInv ==
  /\ vct_add_index \in Seq(Nat) /\ vct_nadd_index \in Seq(Nat) /\ n_add_slot \in Nat
  /\ device /\ n_add_slot > 0 => PoolsFit(vct_add_index, vct_nadd_index, n_add_slot)
RemInv ==
  /\ vct_rem_index \in Seq(Nat) /\ vct_nrem_index \in Seq(Nat) /\ n_rem_slot \in Nat
  /\ n_rem_slot > 0 => /\ PoolsFit(vct_rem_index, vct_nrem_index, n_rem_slot)
                       /\ n_rem_slot * NBlock <= Len(vct_rem_index)
SvInv == MainInv /\ OtherInv /\ AddInv /\ RemInv

LEMMA MainIs ==
  ASSUME MainInv
  PROVE  /\ vct_index \in Seq(Nat) /\ Len(vct_index) \in Nat
         /\ Len(vct_data) = Len(vct_index) + 1
         /\ vct_data[Len(vct_index) + 1] = bck
BY DEF MainInv, Rising, Vector

LEMMA KeysAre == Key \subseteq Nat /\ \A k \in Key : k # -1
BY SparseVectorAssumption

LEMMA EmptyVector ==
  ASSUME NEW b
  PROVE  Rising(<<>>) /\ Vector(<<b>>, Len(<<>>), b)
<1>1. Rising(<<>>)
  BY DEF Rising
<1>2. <<b>> \in Seq({b}) /\ Len(<<b>>) = 0 + 1 /\ <<b>>[0 + 1] = b /\ Len(<<>>) = 0
  OBVIOUS
<1>3. QED BY <1>1, <1>2 DEF Vector

LEMMA SvInit == Init => SvInv
<1> SUFFICES ASSUME Init PROVE SvInv
  OBVIOUS
<1>1. MainInv
  BY EmptyVector DEF Init, MainInv
<1>2. OtherInv
  <2>1. other.index = <<>> /\ other.data = <<bck>> /\ other.add_index = <<>>
    BY DEF Init
  <2>2. QED BY <2>1, EmptyVector DEF OtherInv
<1>3. AddInv /\ RemInv
  BY DEF Init, AddInv, RemInv
<1>4. QED BY <1>1, <1>2, <1>3 DEF SvInv

LEMMA SetBackgroundKeeps == MainInv /\ SetBackground => MainInv'
<1> SUFFICES ASSUME MainInv, SetBackground PROVE MainInv'
  OBVIOUS
<1>1. PICK n \in Nat : n = Len(vct_index)
  BY MainIs
<1>2. Len(vct_data) = n + 1 /\ Vector(vct_data, n, bck) /\ n + 1 \in 1 .. n + 1
  BY <1>1, MainIs DEF MainInv
<1>3. PICK b : bck' = b /\ vct_data' = [vct_data EXCEPT ![n + 1] = b] /\ vct_index' = vct_index
  BY <1>2 DEF SetBackground
<1>4. Vector([vct_data EXCEPT ![n + 1] = b], n, b)
  BY <1>2, ExceptVector
<1>5. QED BY <1>1, <1>3, <1>4 DEF MainInv

LEMMA InsertFlushKeeps == \A k \in Key : MainInv /\ InsertFlush(k) => MainInv'
<1> SUFFICES ASSUME NEW k \in Key, MainInv, InsertFlush(k) PROVE MainInv'
  OBVIOUS
<1>1. PICK n \in Nat : n = Len(vct_index)
  BY MainIs
<1>2. Rising(vct_index) /\ Vector(vct_data, n, bck) /\ Len(vct_data) = n + 1
  BY <1>1, MainIs DEF MainInv
<1>3. k \in Nat /\ k # -1
  BY KeysAre
<1>4. PICK id, v : id = SearchNoBck(k).id /\ v = SearchNoBck(k).v
  OBVIOUS
<1>5. Belongs(vct_index, k, id) /\ v = IF id < n THEN vct_index[id + 1] ELSE -1
  BY <1>1, <1>2, <1>3, <1>4, SearchNoBckIs
<1>6. id \in 0 .. n
  BY <1>1, <1>5 DEF Belongs
<1>7. bck' = bck
  BY DEF InsertFlush
<1>8. CASE v = k
  <2>1. vct_data' = [vct_data EXCEPT ![id + 1] = <<next>>] /\ vct_index' = vct_index
    BY <1>4, <1>8 DEF InsertFlush
  <2>2. id + 1 \in 1 .. n + 1 /\ id + 1 # n + 1
    BY <1>3, <1>5, <1>6, <1>8
  <2>3. Vector([vct_data EXCEPT ![id + 1] = <<next>>], n, bck)
    BY <1>2, <2>2, ExceptVector
  <2>4. QED BY <1>1, <1>2, <1>7, <2>1, <2>3 DEF MainInv
<1>9. CASE v # k
  <2>1. /\ vct_data' = InsertAt(vct_data, id + 1, <<next>>)
        /\ vct_index' = InsertAt(vct_index, id + 1, k)
    BY <1>4, <1>9 DEF InsertFlush
  <2>2. id < n => vct_index[id + 1] # k
    BY <1>5, <1>9
  <2>3. Rising(InsertAt(vct_index, id + 1, k)) /\ Len(InsertAt(vct_index, id + 1, k)) = n + 1
    BY <1>1, <1>2, <1>3, <1>5, <2>2, InsertRises
  <2>4. id + 1 \in 1 .. n + 1
    BY <1>6
  <2>5. Vector(InsertAt(vct_data, id + 1, <<next>>), n + 1, bck)
    BY <1>2, <2>4, InsertVector
  <2>6. QED BY <1>7, <2>1, <2>3, <2>5 DEF MainInv
<1>10. QED BY <1>8, <1>9

-----------------------------------------------------------------------------
(* The flushes.                                                            *)

LEMMA HostFlushKeeps == MainInv /\ AddInv /\ FlushOnHost => MainInv'
<1> SUFFICES ASSUME MainInv, AddInv, FlushOnHost PROVE MainInv'
  OBVIOUS
<1>1. bck' = bck /\ vct_add_index \in Seq(Nat)
  BY DEF FlushOnHost, AddInv
<1>2. PICK order, keys, data :
        /\ order \in Sortings(vct_add_index)
        /\ keys = Permuted(Permuted(vct_add_index, order), Segments(Permuted(vct_add_index, order)))
        /\ vct_index' = HostMerge(keys, data).index
        /\ vct_data' = Append(HostMerge(keys, data).data, bck)
  BY DEF FlushOnHost
<1>3. Rising(keys)
  BY <1>1, <1>2, SortedIs, SegmentsRise
<1>4. PICK S : S = ToSet(keys) \cup ToSet(vct_index)
  OBVIOUS
<1>5. S \subseteq Nat /\ IsFiniteSet(S)
  <2>1. keys \in Seq(Nat) /\ vct_index \in Seq(Nat)
    BY <1>3, MainIs DEF Rising
  <2>2. QED BY <1>4, <2>1, ToSetFinite, FS_Union
<1>6. PICK all : all = Increasing(S)
  OBVIOUS
<1>7. Rising(all)
  BY <1>5, <1>6, IncreasingRises
<1>8. PICK n \in Nat : n = Len(all) /\ DOMAIN all = 1 .. n
  BY <1>7 DEF Rising
<1>9. PICK d : d = HostMerge(keys, data).data
  OBVIOUS
<1>10. HostMerge(keys, data).index = all /\ d = [i \in 1 .. n |-> d[i]]
  BY <1>4, <1>6, <1>8, <1>9 DEF HostMerge
<1>11. (\E T : d \in Seq(T)) /\ Len(d) = n
  BY <1>10, FunctionIsSeq
<1>12. Vector(Append(d, bck), n, bck)
  BY <1>11, AppendVector
<1>13. QED BY <1>1, <1>2, <1>7, <1>8, <1>9, <1>10, <1>12 DEF MainInv

LEMMA NothingFlushKeeps == MainInv /\ FlushOnDeviceNothing => MainInv'
<1> SUFFICES ASSUME MainInv, FlushOnDeviceNothing PROVE MainInv'
  OBVIOUS
<1>1. bck' = bck /\ vct_index' = vct_index /\ vct_data' = Append(Front(vct_data), bck)
  BY DEF FlushOnDeviceNothing
<1>2. PICK n : n = Len(vct_index) /\ Vector(vct_data, n, bck)
  BY DEF MainInv
<1>3. (\E S : Front(vct_data) \in Seq(S)) /\ Len(Front(vct_data)) = n
  BY <1>2, FrontIs
<1>4. Vector(Append(Front(vct_data), bck), n, bck)
  BY <1>3, AppendVector
<1>5. QED BY <1>1, <1>2, <1>4 DEF MainInv

\* The parts of a flush on the device: the used slots in the order of their
\* keys, the keys, the reductions and the merge.
DeviceFlush(slots, sorted, unique, m) ==
  /\ slots \in Seq(1 .. Len(vct_add_index)) /\ Once(slots)
  /\ ToSet(slots) = ToSet(UsedSlots(Append(vct_nadd_index, 0), n_add_slot))
  /\ sorted = Permuted(vct_add_index, slots)
  /\ NotFalling(sorted)
  /\ unique = Segreduce(Permuted(vct_add_data, slots), Segments(sorted))
  /\ m = Merge(vct_index, Permuted(sorted, Segments(sorted)))
  /\ vct_index' = Realign(IsLast(m), ConflictKeys(m), NoKey)
  /\ vct_data' = Append(Realign(IsLast(m), ConflictData(m, Front(vct_data), unique), Junk), bck)
  /\ bck' = bck

LEMMA DeviceFlushIs ==
  ASSUME AddInv, FlushOnDevice
  PROVE  \E slots, sorted, unique, m : DeviceFlush(slots, sorted, unique, m)
<1>1. PICK nslot \in Nat, L \in Nat :
        nslot = n_add_slot /\ L = Len(vct_add_index) /\ PoolsFit(vct_add_index, vct_nadd_index, nslot)
  BY DEF FlushOnDevice, AddInv
<1>2. PICK used : used = UsedSlots(Append(vct_nadd_index, 0), n_add_slot)
  OBVIOUS
<1>3. used \in Seq(1 .. L) /\ Once(used)
  <2>1. PoolsFit(vct_add_index, Append(vct_nadd_index, 0), nslot)
    BY <1>1, AppendFits
  <2>2. QED BY <1>1, <1>2, <2>1, UsedSlotsAre
<1>4. PICK order, slots, sorted, unique, m :
        /\ order \in Sortings(Permuted(vct_add_index, used))
        /\ slots = Permuted(used, order)
        /\ sorted = Permuted(vct_add_index, slots)
        /\ unique = Segreduce(Permuted(vct_add_data, slots), Segments(sorted))
        /\ m = Merge(vct_index, Permuted(sorted, Segments(sorted)))
        /\ vct_index' = Realign(IsLast(m), ConflictKeys(m), NoKey)
        /\ vct_data' = Append(Realign(IsLast(m), ConflictData(m, Front(vct_data), unique), Junk), bck)
        /\ bck' = bck
  BY <1>2 DEF FlushOnDevice
<1>5. PICK keys : keys = Permuted(vct_add_index, used)
  OBVIOUS
<1>6. keys \in Seq(Nat) /\ Len(keys) = Len(used)
  <2>1. PICK A : A = Nat
    OBVIOUS
  <2>2. Into(vct_add_index, L, A)
    BY <1>1, <2>1 DEF Into, PoolsFit
  <2>3. QED BY <1>3, <1>5, <2>1, <2>2, PermutedIn
<1>7. order \in Seq(1 .. Len(used)) /\ NotFalling(Permuted(keys, order))
  BY <1>4, <1>5, <1>6, SortedIs
<1>8. sorted = Permuted(keys, order)
  <2>1. Permuted(Permuted(vct_add_index, used), order) = Permuted(vct_add_index, Permuted(used, order))
    <3>1. \A i \in DOMAIN order : order[i] \in DOMAIN used
      BY <1>3, <1>7
    <3>2. QED BY <3>1, PermutedTwice
  <2>2. QED BY <1>4, <1>5, <2>1, Zenon
<1>9. slots \in Seq(1 .. L)
  <2>0. Len(used) \in Nat
    BY <1>3
  <2>1. PICK A, n, o : A = 1 .. L /\ n = Len(used) /\ o = order /\ n \in Nat /\ o \in Seq(1 .. n)
    BY <1>7, <2>0
  <2>2. Into(used, n, A)
    BY <1>3, <2>1 DEF Into
  <2>3. Permuted(used, o) \in Seq(A)
    BY <2>1, <2>2, PermutedIn
  <2>4. QED BY <1>4, <2>1, <2>3
<1>10. Once(slots) /\ ToSet(slots) = ToSet(used)
  <2>1. PICK n : n = Len(used) /\ n = Len(keys)
    BY <1>6
  <2>2. /\ order \in [1 .. n -> 1 .. n] /\ \A i, j \in 1 .. n : order[i] = order[j] => i = j
        /\ \A k \in 1 .. n : \E i \in 1 .. n : order[i] = k
    BY <1>4, <1>5, <1>6, <2>1, SortingOnto
  <2>3. QED BY <1>3, <1>4, <2>1, <2>2, PermutedAll
<1>11. DeviceFlush(slots, sorted, unique, m)
  BY <1>1, <1>2, <1>4, <1>7, <1>8, <1>9, <1>10 DEF DeviceFlush
<1>12. QED BY <1>11

LEMMA DeviceFlushKeeps == MainInv /\ AddInv /\ FlushOnDevice => MainInv'
<1> SUFFICES ASSUME MainInv, AddInv, FlushOnDevice PROVE MainInv'
  OBVIOUS
<1>1. PICK slots, sorted, unique, m : DeviceFlush(slots, sorted, unique, m)
  BY DeviceFlushIs
<1>2. PICK b : b = Permuted(sorted, Segments(sorted)) /\ Rising(b)
  BY <1>1, SegmentsRise DEF DeviceFlush
<1>3. Rising(vct_index) /\ m = Merge(vct_index, b)
  BY <1>1, <1>2 DEF MainInv, DeviceFlush
<1>4. PICK pred : pred = IsLast(m)
  OBVIOUS
<1>5. /\ Rising(Realign(pred, ConflictKeys(m), NoKey))
      /\ Len(Realign(pred, ConflictKeys(m), NoKey)) = Cardinality(Kept(pred))
  BY <1>2, <1>3, <1>4, FlushedKeysRise
<1>6. PICK n \in Nat : n = Cardinality(Kept(pred))
  BY <1>5 DEF Rising
<1>7. PICK out, d : out = ConflictData(m, Front(vct_data), unique) /\ d = Realign(pred, out, Junk)
  OBVIOUS
<1>8. d = [i \in 1 .. n |-> d[i]]
  BY <1>6, <1>7 DEF Realign, Kept
<1>9. (\E T : d \in Seq(T)) /\ Len(d) = n
  BY <1>8, FunctionIsSeq
<1>10. Vector(Append(d, bck), n, bck)
  BY <1>9, AppendVector
<1>11. QED BY <1>1, <1>4, <1>5, <1>6, <1>7, <1>10 DEF MainInv, DeviceFlush

\* The keys a flush of the removals takes.
LEMMA RemovedKeysAre ==
  ASSUME RemInv, FlushRemove
  PROVE  \E keys \in Seq(Nat) :
           LET m == Merge(vct_index, Increasing(ToSet(keys)))
               stays == StaysIn(m, Len(vct_index))
               came == RealignRemove(stays, [p \in DOMAIN m |-> m[p].from])
           IN  /\ keys = Permuted(vct_rem_index, UsedSlots(Append(vct_nrem_index, 0), n_rem_slot))
               /\ vct_index' = RealignRemove(stays, [p \in DOMAIN m |-> m[p].key])
               /\ vct_data' = Append(Permuted(vct_data, came), bck)
               /\ bck' = bck
<1>1. PICK nslot \in Nat, L \in Nat :
        nslot = n_rem_slot /\ L = Len(vct_rem_index) /\ PoolsFit(vct_rem_index, vct_nrem_index, nslot)
  BY DEF FlushRemove, RemInv
<1>2. PICK used : used = UsedSlots(Append(vct_nrem_index, 0), n_rem_slot)
  OBVIOUS
<1>3. used \in Seq(1 .. L)
  <2>1. PoolsFit(vct_rem_index, Append(vct_nrem_index, 0), nslot)
    BY <1>1, AppendFits
  <2>2. QED BY <1>1, <1>2, <2>1, UsedSlotsAre
<1>4. PICK keys : keys = Permuted(vct_rem_index, used)
  OBVIOUS
<1>5. keys \in Seq(Nat)
  <2>1. PICK A : A = Nat
    OBVIOUS
  <2>2. Into(vct_rem_index, L, A)
    BY <1>1, <2>1 DEF Into, PoolsFit
  <2>3. QED BY <1>3, <1>4, <2>1, <2>2, PermutedIn
<1>6. QED BY <1>2, <1>4, <1>5 DEF FlushRemove

LEMMA RemoveFlushKeeps == MainInv /\ RemInv /\ FlushRemove => MainInv'
<1> SUFFICES ASSUME MainInv, RemInv, FlushRemove PROVE MainInv'
  OBVIOUS
<1>1. PICK keys \in Seq(Nat) :
        LET m == Merge(vct_index, Increasing(ToSet(keys)))
            stays == StaysIn(m, Len(vct_index))
            came == RealignRemove(stays, [p \in DOMAIN m |-> m[p].from])
        IN  /\ vct_index' = RealignRemove(stays, [p \in DOMAIN m |-> m[p].key])
            /\ vct_data' = Append(Permuted(vct_data, came), bck)
            /\ bck' = bck
  BY RemovedKeysAre
<1>2. PICK b : b = Increasing(ToSet(keys))
  OBVIOUS
<1>3. Rising(b)
  BY <1>2, ToSetFinite, IncreasingRises
<1>4. PICK m, stays, came, old :
        /\ m = Merge(vct_index, b) /\ old = Len(vct_index) /\ stays = StaysIn(m, old)
        /\ came = RealignRemove(stays, [p \in DOMAIN m |-> m[p].from])
        /\ vct_index' = RealignRemove(stays, [p \in DOMAIN m |-> m[p].key])
        /\ vct_data' = Append(Permuted(vct_data, came), bck)
        /\ bck' = bck
  BY <1>1, <1>2
<1>5. Rising(vct_index)
  BY DEF MainInv
<1>6. /\ Rising(vct_index') /\ Len(vct_index') = Cardinality(Kept(stays))
       /\ DOMAIN came = 1 .. Cardinality(Kept(stays))
  BY <1>3, <1>4, <1>5, RemovedKeysRise
<1>7. PICK n \in Nat : n = Len(vct_index') /\ DOMAIN came = 1 .. n
  BY <1>6 DEF Rising
<1>8. PICK d : d = Permuted(vct_data, came)
  OBVIOUS
<1>9. d = [i \in 1 .. n |-> d[i]]
  BY <1>7, <1>8 DEF Permuted
<1>10. (\E T : d \in Seq(T)) /\ Len(d) = n
  BY <1>9, FunctionIsSeq
<1>11. Vector(Append(d, bck), n, bck)
  BY <1>10, AppendVector
<1>12. QED BY <1>4, <1>6, <1>7, <1>8, <1>11 DEF MainInv

-----------------------------------------------------------------------------
(* Every step keeps the invariant.                                         *)

LEMMA MainStep == SvInv /\ [Next]_vars => MainInv'
<1> SUFFICES ASSUME SvInv, [Next]_vars PROVE MainInv'
  OBVIOUS
<1>0. MainInv /\ OtherInv /\ AddInv /\ RemInv
  BY DEF SvInv
<1>1. CASE UNCHANGED main
  BY <1>0, <1>1 DEF MainInv, main
<1>2. ASSUME NEW k \in Key, Insert(k) PROVE MainInv'
  BY <1>1, <1>2 DEF Insert
<1>3. ASSUME NEW k \in Key, InsertFlush(k) PROVE MainInv'
  BY <1>0, <1>3, InsertFlushKeeps
<1>4. ASSUME NEW j \in Key, NEW k \in Key, PreFlush(j, k) PROVE MainInv'
  BY <1>1, <1>4 DEF PreFlush
<1>5. ASSUME NEW b \in 1 .. NBlock, NEW k \in Key, NEW inc \in BOOLEAN,
             InsertKernel(b, k, inc) \/ RemoveKernel(b, k, inc)
      PROVE  MainInv'
  BY <1>1, <1>5 DEF InsertKernel, RemoveKernel
<1>6. CASE SetBackground
  BY <1>0, <1>6, SetBackgroundKeeps
<1>7. CASE SetGPUInsertBuffer \/ SetGPURemoveBuffer \/ RemoveUnusedBuffers
  BY <1>1, <1>7 DEF SetGPUInsertBuffer, SetGPURemoveBuffer, RemoveUnusedBuffers
<1>8. CASE FlushOnHost
  BY <1>0, <1>8, HostFlushKeeps
<1>9. CASE FlushOnDeviceNothing
  BY <1>0, <1>9, NothingFlushKeeps
<1>10. CASE FlushOnDevice
  BY <1>0, <1>10, DeviceFlushKeeps
<1>11. CASE FlushRemove
  BY <1>0, <1>11, RemoveFlushKeeps
<1>12. CASE Clear
  BY <1>12, EmptyVector DEF Clear, MainInv
<1>13. CASE Swap
  <2>1. /\ vct_index' = other.index /\ vct_data' = other.data /\ bck' = bck
        /\ Last(other.data) = bck
    BY <1>13 DEF Swap
  <2>2. PICK b : Vector(other.data, Len(other.index), b)
    BY <1>0 DEF OtherInv
  <2>3. b = bck
    BY <2>1, <2>2 DEF Vector, Last
  <2>4. QED BY <1>0, <2>1, <2>2, <2>3 DEF MainInv, OtherInv
<1>14. CASE UNCHANGED vars
  BY <1>1, <1>14 DEF vars
<1>15. QED
  BY <1>2, <1>3, <1>4, <1>5, <1>6, <1>7, <1>8, <1>9, <1>10, <1>11, <1>12, <1>13, <1>14 DEF Next

LEMMA OtherStep == SvInv /\ [Next]_vars => OtherInv'
<1> SUFFICES ASSUME SvInv, [Next]_vars PROVE OtherInv'
  OBVIOUS
<1>0. MainInv /\ OtherInv /\ AddInv
  BY DEF SvInv
<1>1. CASE UNCHANGED other
  BY <1>0, <1>1 DEF OtherInv
<1>2. CASE Swap
  <2>1. other' = [index |-> vct_index, data |-> vct_data,
                  add_index |-> vct_add_index, add_data |-> vct_add_data]
    BY <1>2 DEF Swap
  <2>2. other'.index = vct_index /\ other'.data = vct_data /\ other'.add_index = vct_add_index
    BY <2>1
  <2>3. vct_add_index \in Seq(Nat)
    BY <1>0 DEF AddInv
  <2>4. QED BY <1>0, <2>2, <2>3 DEF OtherInv, MainInv
<1>3. \/ UNCHANGED other
      \/ Swap
  BY DEF Next, vars, Insert, InsertFlush, PreFlush, InsertKernel, RemoveKernel, SetBackground,
         SetGPUInsertBuffer, SetGPURemoveBuffer, FlushOnHost, FlushOnDeviceNothing,
         FlushOnDevice, FlushRemove, Clear, RemoveUnusedBuffers
<1>4. QED BY <1>1, <1>2, <1>3

\* Growing the buffer of the host leaves the pools of the device where they are.
LEMMA GrownFits ==
  ASSUME NEW index, NEW count, NEW nslot \in Nat, NEW k \in Nat, PoolsFit(index, count, nslot)
  PROVE  PoolsFit(Append(index, k), count, nslot)
<1>1. PICK n \in Nat : n = Len(index)
  BY DEF PoolsFit
<1>2. index \in Seq(Nat) /\ Append(index, k) \in Seq(Nat) /\ Len(Append(index, k)) = n + 1
  BY <1>1 DEF PoolsFit
<1>3. ASSUME NEW b \in DOMAIN count, count[b] # 0
      PROVE  count[b] <= nslot /\ nslot * b <= n + 1
  <2>1. count[b] <= nslot /\ nslot * b <= n
    BY <1>1, <1>3 DEF PoolsFit
  <2>2. b \in Nat
    BY DEF PoolsFit
  <2>3. nslot * b \in Nat
    BY <2>2
  <2>4. QED BY <2>1, <2>3
<1>4. QED BY <1>2, <1>3 DEF PoolsFit

LEMMA NothingStored ==
  ASSUME NEW p \in Nat
  PROVE  [i \in 1 .. p |-> NoKey] \in Seq(Nat) /\ Len([i \in 1 .. p |-> NoKey]) = p
<1>1. PICK t : t = [i \in 1 .. p |-> NoKey]
  OBVIOUS
<1>2. t \in [1 .. p -> Nat]
  BY <1>1 DEF NoKey
<1>3. t \in Seq(Nat) /\ Len(t) = p
  BY <1>2
<1>4. QED BY <1>1, <1>3

\* New pools hold nothing.
LEMMA NewPools ==
  ASSUME NEW index, index = [i \in 1 .. NBlock * NSlot |-> NoKey]
  PROVE  /\ index \in Seq(Nat) /\ Len(index) = NBlock * NSlot
         /\ Zeros(NBlock) \in Seq(Nat) /\ NSlot \in Nat /\ NSlot > 0
         /\ PoolsFit(index, Zeros(NBlock), NSlot)
         /\ NSlot * NBlock <= Len(index)
<1>1. PICK B \in Nat, n \in Nat : B = NBlock /\ n = NSlot /\ n > 0
  BY SparseVectorAssumption
<1>2. PICK p \in Nat : p = B * n /\ p = n * B
  <2>1. B * n \in Nat /\ B * n = n * B
    BY SMT
  <2>2. QED BY <2>1
<1>3. index \in Seq(Nat) /\ Len(index) = p
  <2>1. index = [i \in 1 .. p |-> NoKey]
    BY <1>1, <1>2
  <2>2. QED BY <2>1, NothingStored
<1>4. PICK z : z = Zeros(NBlock) /\ z = [b \in 1 .. B |-> 0]
  BY <1>1 DEF Zeros
<1>5. z \in Seq(Nat) /\ \A b \in DOMAIN z : z[b] = 0
  <2>1. z \in [1 .. B -> Nat]
    BY <1>4
  <2>2. QED BY <1>4, <2>1
<1>6. PoolsFit(index, z, NSlot)
  BY <1>3, <1>5 DEF PoolsFit
<1>7. QED BY <1>1, <1>2, <1>3, <1>4, <1>5, <1>6

LEMMA InsertKernelFits ==
  ASSUME AddInv, NEW b \in 1 .. NBlock, NEW k \in Nat, NEW inc \in BOOLEAN,
         InsertKernel(b, k, inc)
  PROVE  AddInv'
<1>1. PICK nslot \in Nat : nslot = n_add_slot /\ nslot > 0
  BY DEF AddInv, InsertKernel
<1>2. PICK at :
        /\ vct_add_index' = Stored(vct_add_index, n_add_slot, at, k, inc, NoKey)
        /\ vct_nadd_index' = Counted(vct_nadd_index, b, inc)
        /\ n_add_slot' = nslot /\ client' = client
        /\ nslot * NBlock <= Len(vct_add_index)
        /\ inc => vct_nadd_index[b] < nslot
  BY <1>1 DEF InsertKernel
<1>3. CASE device
  <2>1. PoolsFit(vct_add_index, vct_nadd_index, nslot)
    BY <1>1, <1>3 DEF AddInv
  <2>2. PoolsFit(vct_add_index', vct_nadd_index', nslot)
    BY <1>1, <1>2, <2>1, StoredFits
  <2>3. QED BY <1>2, <2>2 DEF AddInv, PoolsFit
<1>4. CASE ~device
  <2>1. vct_add_index' \in Seq(Nat) /\ vct_nadd_index' \in Seq(Nat)
    BY <1>2, StoredType DEF AddInv
  <2>2. QED BY <1>1, <1>2, <1>4, <2>1 DEF AddInv, device
<1>5. QED BY <1>3, <1>4

LEMMA AddStep == SvInv /\ [Next]_vars => AddInv'
<1> SUFFICES ASSUME SvInv, [Next]_vars PROVE AddInv'
  OBVIOUS
<1>0. AddInv /\ OtherInv
  BY DEF SvInv
<1>a. /\ vct_add_index \in Seq(Nat) /\ vct_nadd_index \in Seq(Nat) /\ n_add_slot \in Nat
      /\ device /\ n_add_slot > 0 => PoolsFit(vct_add_index, vct_nadd_index, n_add_slot)
  BY <1>0 DEF AddInv
<1>1. CASE UNCHANGED <<vct_add_index, vct_nadd_index, n_add_slot, client>>
  BY <1>a, <1>1 DEF AddInv, device
<1>2. ASSUME NEW k \in Key, Insert(k) PROVE AddInv'
  <2>1. /\ vct_add_index' = Append(vct_add_index, k) /\ vct_nadd_index' = vct_nadd_index
        /\ n_add_slot' = n_add_slot /\ client' = client
    BY <1>2 DEF Insert, main, rems
  <2>2. k \in Nat
    BY KeysAre
  <2>3. Append(vct_add_index, k) \in Seq(Nat)
    BY <1>a, <2>2
  <2>4. device /\ n_add_slot > 0 => PoolsFit(Append(vct_add_index, k), vct_nadd_index, n_add_slot)
    BY <1>a, <2>2, GrownFits
  <2>5. QED BY <1>a, <2>1, <2>3, <2>4 DEF AddInv, device
<1>3. ASSUME NEW k \in Key, InsertFlush(k) PROVE AddInv'
  BY <1>1, <1>3 DEF InsertFlush, adds
<1>4. ASSUME NEW j \in Key, NEW k \in Key, PreFlush(j, k) PROVE AddInv'
  <2>1. /\ vct_add_index' = <<j, k>> /\ vct_nadd_index' = [i \in 1 .. 2 |-> 1] /\ n_add_slot' = 1
    BY <1>4 DEF PreFlush
  <2>2. <<j, k>> \in Seq(Nat) /\ Len(<<j, k>>) = 2
    BY KeysAre
  <2>3. PICK c : c = [i \in 1 .. 2 |-> 1]
    OBVIOUS
  <2>4. c \in Seq(Nat) /\ \A i \in DOMAIN c : c[i] = 1 /\ i \in 1 .. 2
    <3>1. c \in [1 .. 2 -> Nat]
      BY <2>3
    <3>2. QED BY <2>3, <3>1
  <2>5. PoolsFit(<<j, k>>, c, 1)
    BY <2>2, <2>4 DEF PoolsFit
  <2>6. QED BY <2>1, <2>2, <2>3, <2>4, <2>5 DEF AddInv
<1>5. ASSUME NEW b \in 1 .. NBlock, NEW k \in Key, NEW inc \in BOOLEAN, InsertKernel(b, k, inc)
      PROVE  AddInv'
  BY <1>0, <1>5, KeysAre, InsertKernelFits
<1>6. ASSUME NEW b \in 1 .. NBlock, NEW k \in Key, NEW inc \in BOOLEAN, RemoveKernel(b, k, inc)
      PROVE  AddInv'
  BY <1>1, <1>6 DEF RemoveKernel, adds
<1>7. CASE SetBackground \/ SetGPURemoveBuffer \/ FlushRemove \/ RemoveUnusedBuffers
  BY <1>1, <1>7 DEF SetBackground, SetGPURemoveBuffer, FlushRemove, RemoveUnusedBuffers, adds
<1>8. CASE SetGPUInsertBuffer
  <2>1. /\ vct_add_index' = [i \in 1 .. NBlock * NSlot |-> NoKey]
        /\ vct_nadd_index' = Zeros(NBlock) /\ n_add_slot' = NSlot
    BY <1>8 DEF SetGPUInsertBuffer
  <2>2. QED BY <2>1, NewPools DEF AddInv
<1>9. CASE FlushOnHost
  <2>1. /\ vct_add_index' = <<>> /\ vct_nadd_index' = vct_nadd_index /\ n_add_slot' = n_add_slot
        /\ ~device /\ client' = client
    BY <1>9 DEF FlushOnHost, rems
  <2>2. QED BY <1>a, <2>1 DEF AddInv, device
<1>10. CASE FlushOnDeviceNothing
  <2>1. /\ vct_add_index' = vct_add_index /\ n_add_slot' = n_add_slot /\ client' = client
        /\ vct_nadd_index' = vct_nadd_index \/ vct_nadd_index' = Append(vct_nadd_index, 0)
    BY <1>10 DEF FlushOnDeviceNothing
  <2>2. CASE vct_nadd_index' = vct_nadd_index
    BY <1>1, <2>1, <2>2
  <2>3. CASE vct_nadd_index' = Append(vct_nadd_index, 0)
    <3>1. Append(vct_nadd_index, 0) \in Seq(Nat)
      BY <1>a
    <3>2. device /\ n_add_slot > 0 => PoolsFit(vct_add_index, Append(vct_nadd_index, 0), n_add_slot)
      BY <1>a, AppendFits
    <3>3. QED BY <1>a, <2>1, <2>3, <3>1, <3>2 DEF AddInv, device
  <2>4. QED BY <2>1, <2>2, <2>3
<1>11. CASE FlushOnDevice
  <2>1. /\ vct_add_index' = [i \in DOMAIN vct_add_index |-> NoKey]
        /\ vct_nadd_index' = Append(vct_nadd_index, 0) /\ n_add_slot' = 0
    BY <1>11 DEF FlushOnDevice
  <2>2. [i \in DOMAIN vct_add_index |-> NoKey] \in Seq(Nat)
    <3>1. PICK n \in Nat : DOMAIN vct_add_index = 1 .. n
      BY <1>a
    <3>2. PICK f : f = [i \in 1 .. n |-> NoKey]
      OBVIOUS
    <3>3. f \in [1 .. n -> Nat]
      BY <3>2 DEF NoKey
    <3>4. QED BY <3>1, <3>2, <3>3
  <2>3. QED BY <1>a, <2>1, <2>2 DEF AddInv
<1>12. CASE Clear
  BY <1>a, <1>12 DEF Clear, AddInv
<1>13. CASE Swap
  BY <1>0, <1>a, <1>13 DEF Swap, AddInv, OtherInv
<1>14. CASE UNCHANGED vars
  BY <1>1, <1>14 DEF vars, adds
<1>15. QED
  BY <1>2, <1>3, <1>4, <1>5, <1>6, <1>7, <1>8, <1>9, <1>10, <1>11, <1>12, <1>13, <1>14 DEF Next

LEMMA RemStep == SvInv /\ [Next]_vars => RemInv'
<1> SUFFICES ASSUME SvInv, [Next]_vars PROVE RemInv'
  OBVIOUS
<1>0. RemInv
  BY DEF SvInv
<1>a. /\ vct_rem_index \in Seq(Nat) /\ vct_nrem_index \in Seq(Nat) /\ n_rem_slot \in Nat
      /\ n_rem_slot > 0 => /\ PoolsFit(vct_rem_index, vct_nrem_index, n_rem_slot)
                           /\ n_rem_slot * NBlock <= Len(vct_rem_index)
  BY <1>0 DEF RemInv
<1>1. CASE UNCHANGED rems
  BY <1>a, <1>1 DEF RemInv, rems
<1>2. ASSUME NEW b \in 1 .. NBlock, NEW k \in Key, NEW inc \in BOOLEAN, RemoveKernel(b, k, inc)
      PROVE  RemInv'
  <2>1. PICK nslot \in Nat : nslot = n_rem_slot /\ nslot > 0
    BY <1>a, <1>2 DEF RemoveKernel
  <2>2. PICK at :
          /\ vct_rem_index' = Stored(vct_rem_index, n_rem_slot, at, k, inc, NoKey)
          /\ vct_nrem_index' = Counted(vct_nrem_index, b, inc)
          /\ n_rem_slot' = nslot
          /\ inc => vct_nrem_index[b] < nslot
    BY <1>2, <2>1 DEF RemoveKernel
  <2>3. PoolsFit(vct_rem_index, vct_nrem_index, nslot) /\ nslot * NBlock <= Len(vct_rem_index)
    BY <1>a, <2>1
  <2>4. k \in Nat
    BY KeysAre
  <2>5. PICK t, c : t = vct_rem_index' /\ c = vct_nrem_index'
    OBVIOUS
  <2>6. PoolsFit(t, c, nslot) /\ Len(t) = Len(vct_rem_index)
    BY <2>1, <2>2, <2>3, <2>4, <2>5, StoredFits
  <2>7. QED BY <2>1, <2>2, <2>3, <2>5, <2>6 DEF RemInv, PoolsFit
<1>3. CASE SetGPURemoveBuffer
  <2>1. /\ vct_rem_index' = [i \in 1 .. NBlock * NSlot |-> NoKey]
        /\ vct_nrem_index' = Zeros(NBlock) /\ n_rem_slot' = NSlot
    BY <1>3 DEF SetGPURemoveBuffer
  <2>2. QED BY <2>1, NewPools DEF RemInv
<1>4. CASE FlushRemove
  <2>1. /\ vct_rem_index' = vct_rem_index /\ n_rem_slot' = n_rem_slot
        /\ vct_nrem_index' = Append(vct_nrem_index, 0)
    BY <1>4 DEF FlushRemove
  <2>2. Append(vct_nrem_index, 0) \in Seq(Nat)
    BY <1>a
  <2>3. n_rem_slot > 0 => PoolsFit(vct_rem_index, Append(vct_nrem_index, 0), n_rem_slot)
    BY <1>a, AppendFits
  <2>4. QED BY <1>a, <2>1, <2>2, <2>3 DEF RemInv
<1>5. CASE Clear
  BY <1>a, <1>5 DEF Clear, RemInv
<1>6. \/ UNCHANGED rems
      \/ \E b \in 1 .. NBlock, k \in Key, inc \in BOOLEAN : RemoveKernel(b, k, inc)
      \/ SetGPURemoveBuffer \/ FlushRemove \/ Clear
  BY DEF Next, vars, Insert, InsertFlush, PreFlush, InsertKernel, SetBackground,
         SetGPUInsertBuffer, FlushOnHost, FlushOnDeviceNothing,
         FlushOnDevice, Swap, RemoveUnusedBuffers
<1>7. QED BY <1>1, <1>2, <1>3, <1>4, <1>5, <1>6

-----------------------------------------------------------------------------
(* Reductions: a fold of values is a value.                                *)

FoldTo(f, b, s, t) == IF t = {} THEN b ELSE Red(f[t \ {Max(t)}], s[Max(t)])
IsFold(f, b, s, n) == f = [t \in SUBSET (1 .. n) |-> FoldTo(f, b, s, t)]

LEMMA MaxIs ==
  ASSUME NEW n \in Nat, NEW t, t \subseteq 1 .. n, t # {}
  PROVE  Max(t) \in t /\ \A x \in t : x <= Max(t)
<1> DEFINE U == {u \in Nat : \A x \in t : x <= u}
<1>1. n \in U
  OBVIOUS
<1>2. PICK u \in U : \A v \in U : u <= v
  <2>1. U \subseteq Nat
    OBVIOUS
  <2> HIDE DEF U
  <2>2. QED BY <1>1, <2>1, LeastNat
<1>3. u \in Nat /\ \A x \in t : x <= u
  OBVIOUS
<1>4. u \in t
  <2>1. SUFFICES ASSUME u \notin t PROVE FALSE
    OBVIOUS
  <2>2. PICK y \in t : y \in 1 .. n
    OBVIOUS
  <2>3. \A x \in t : x \in Nat /\ x <= u /\ x # u
    BY <1>3, <2>1
  <2>4. u - 1 \in Nat /\ \A x \in t : x <= u - 1
    BY <1>3, <2>2, <2>3
  <2>5. u - 1 \in U
    BY <2>4
  <2>6. u <= u - 1
    <3> HIDE DEF U
    <3>1. QED BY <1>2, <2>5
  <2>7. QED BY <1>3, <2>6
<1>5. \E x \in t : \A y \in t : x >= y
  BY <1>3, <1>4
<1>6. Max(t) \in t /\ \A y \in t : Max(t) >= y
  BY <1>5 DEF Max
<1>7. QED BY <1>6

\* The function FoldLeft asks for exists.
PartFold(f, b, s, n, k) ==
  f = [t \in {u \in SUBSET (1 .. n) : Cardinality(u) <= k} |-> FoldTo(f, b, s, t)]

LEMMA SubsetsCount ==
  ASSUME NEW n \in Nat, NEW t \in SUBSET (1 .. n)
  PROVE  /\ Cardinality(t) \in Nat /\ Cardinality(t) <= n
         /\ Cardinality(t) = 0 <=> t = {}
         /\ t # {} => /\ t \ {Max(t)} \in SUBSET (1 .. n) /\ Max(t) \in 1 .. n
                      /\ Cardinality(t \ {Max(t)}) = Cardinality(t) - 1
<1>1. IsFiniteSet(1 .. n) /\ Cardinality(1 .. n) = n
  BY FS_Interval
<1>2. IsFiniteSet(t) /\ Cardinality(t) <= n
  BY <1>1, FS_Subset
<1>3. Cardinality(t) \in Nat /\ (Cardinality(t) = 0 <=> t = {})
  BY <1>2, FS_CardinalityType, FS_EmptySet
<1>4. t # {} => Max(t) \in t
  BY MaxIs
<1>5. t # {} => Cardinality(t \ {Max(t)}) = Cardinality(t) - 1
  BY <1>2, <1>4, FS_RemoveElement
<1>6. t # {} => t \ {Max(t)} \in SUBSET (1 .. n) /\ Max(t) \in 1 .. n
  BY <1>4
<1>7. QED BY <1>2, <1>3, <1>5, <1>6

LEMMA FoldExists ==
  ASSUME NEW b, NEW s, NEW n \in Nat
  PROVE  \E f : IsFold(f, b, s, n)
<1> DEFINE Bad == {k \in Nat : ~\E f : PartFold(f, b, s, n, k)}
<1>1. Bad = {}
  <2>1. SUFFICES ASSUME Bad # {} PROVE FALSE
    OBVIOUS
  <2>2. PICK k \in Bad : \A m \in Bad : k <= m
    <3>1. Bad \subseteq Nat
      OBVIOUS
    <3> HIDE DEF Bad
    <3>2. QED BY <2>1, <3>1, LeastNat
  <2>3. k \in Nat /\ ~\E f : PartFold(f, b, s, n, k)
    OBVIOUS
  <2> DEFINE Of(j) == {u \in SUBSET (1 .. n) : Cardinality(u) <= j}
  <2>4. k # 0
    <3>1. SUFFICES ASSUME k = 0 PROVE FALSE
      OBVIOUS
    <3>2. PICK f : f = [t \in Of(0) |-> b]
      OBVIOUS
    <3>3. \A t \in Of(0) : FoldTo(f, b, s, t) = b
      <4>1. SUFFICES ASSUME NEW t \in Of(0) PROVE FoldTo(f, b, s, t) = b
        OBVIOUS
      <4>2. t \in SUBSET (1 .. n) /\ Cardinality(t) <= 0
        OBVIOUS
      <4>3. t = {}
        <5>1. PICK c \in Nat : c = Cardinality(t) /\ (c = 0 <=> t = {})
          BY <4>2, SubsetsCount
        <5>2. c = 0
          BY <4>2, <5>1
        <5>3. QED BY <5>1, <5>2
      <4>4. QED BY <4>3 DEF FoldTo
    <3>4. f = [t \in Of(0) |-> FoldTo(f, b, s, t)]
      BY <3>2, <3>3
    <3>5. QED BY <2>3, <3>1, <3>4 DEF PartFold
  <2>5. PICK f : PartFold(f, b, s, n, k - 1)
    <3>1. k - 1 \in Nat /\ ~(k <= k - 1)
      BY <2>3, <2>4
    <3>2. k - 1 \notin Bad
      <4> HIDE DEF Bad
      <4>1. QED BY <2>2, <3>1
    <3>3. QED BY <3>1, <3>2
  <2>6. PICK g : g = [t \in Of(k) |-> FoldTo(f, b, s, t)]
    OBVIOUS
  <2>7. ASSUME NEW t \in Of(k - 1) PROVE g[t] = f[t]
    <3>1. PICK h : h = [u \in Of(k - 1) |-> FoldTo(f, b, s, u)]
      OBVIOUS
    <3>2. f = h
      BY <2>5, <3>1 DEF PartFold
    <3>3. h[t] = FoldTo(f, b, s, t)
      BY <3>1
    <3>4. t \in Of(k)
      <4>1. t \in SUBSET (1 .. n) /\ Cardinality(t) <= k - 1
        OBVIOUS
      <4>2. PICK c \in Nat : c = Cardinality(t)
        BY <4>1, SubsetsCount
      <4>3. c <= k
        BY <2>3, <4>1, <4>2
      <4>4. QED BY <4>1, <4>2, <4>3
    <3>5. QED BY <2>6, <3>2, <3>3, <3>4
  <2>8. ASSUME NEW t \in Of(k) PROVE FoldTo(g, b, s, t) = FoldTo(f, b, s, t)
    <3>1. SUFFICES ASSUME t # {} PROVE FoldTo(g, b, s, t) = FoldTo(f, b, s, t)
      BY DEF FoldTo
    <3>2. t \ {Max(t)} \in Of(k - 1)
      <4>1. t \in SUBSET (1 .. n) /\ Cardinality(t) <= k
        OBVIOUS
      <4>2. PICK c \in Nat : c = Cardinality(t)
        BY <4>1, SubsetsCount
      <4>3. t \ {Max(t)} \in SUBSET (1 .. n) /\ Cardinality(t \ {Max(t)}) = c - 1
        BY <3>1, <4>1, <4>2, SubsetsCount
      <4>4. c - 1 <= k - 1
        BY <2>3, <4>1, <4>2
      <4>5. QED BY <4>3, <4>4
    <3>3. g[t \ {Max(t)}] = f[t \ {Max(t)}]
      BY <2>7, <3>2
    <3>4. QED BY <3>1, <3>3 DEF FoldTo
  <2>9. PICK h : h = [t \in Of(k) |-> FoldTo(g, b, s, t)]
    OBVIOUS
  <2>10. g = h
    BY <2>6, <2>8, <2>9
  <2>11. PartFold(g, b, s, n, k)
    BY <2>9, <2>10 DEF PartFold
  <2>12. QED BY <2>3, <2>11
<1>2. PICK f : PartFold(f, b, s, n, n)
  <2>1. n \notin Bad
    <3> HIDE DEF Bad
    <3>1. QED BY <1>1
  <2>2. QED BY <2>1
<1>3. {u \in SUBSET (1 .. n) : Cardinality(u) <= n} = SUBSET (1 .. n)
  <2>1. \A u \in SUBSET (1 .. n) : Cardinality(u) <= n
    BY SubsetsCount
  <2>2. QED BY <2>1
<1>4. IsFold(f, b, s, n)
  BY <1>2, <1>3 DEF PartFold, IsFold
<1>5. QED BY <1>4

LEMMA FoldIsIn ==
  ASSUME NEW b, b \in Seq(Nat), NEW s, NEW n \in Nat, \A i \in 1 .. n : s[i] \in Seq(Nat),
         NEW f, IsFold(f, b, s, n)
  PROVE  f[1 .. n] \in Seq(Nat)
<1> DEFINE Bad == {k \in Nat : \E t \in SUBSET (1 .. n) : Cardinality(t) = k /\ f[t] \notin Seq(Nat)}
<1>1. SUFFICES ASSUME f[1 .. n] \notin Seq(Nat) PROVE FALSE
  OBVIOUS
<1>2. Bad # {}
  <2>1. PICK t : t = 1 .. n /\ t \in SUBSET (1 .. n)
    OBVIOUS
  <2>2. PICK k \in Nat : k = Cardinality(t)
    BY <2>1, SubsetsCount
  <2>3. k \in Bad
    BY <1>1, <2>1, <2>2
  <2>4. QED BY <2>3
<1>3. PICK k \in Bad : \A m \in Bad : k <= m
  <2>1. Bad \subseteq Nat
    OBVIOUS
  <2> HIDE DEF Bad
  <2>2. QED BY <1>2, <2>1, LeastNat
<1>4. PICK t \in SUBSET (1 .. n) : Cardinality(t) = k /\ f[t] \notin Seq(Nat)
  OBVIOUS
<1>5. f[t] = FoldTo(f, b, s, t)
  <2>1. PICK h : h = [u \in SUBSET (1 .. n) |-> FoldTo(f, b, s, u)]
    OBVIOUS
  <2>2. f = h
    BY <2>1 DEF IsFold
  <2>3. h[t] = FoldTo(f, b, s, t)
    BY <2>1
  <2>4. QED BY <2>2, <2>3
<1>6. t # {}
  BY <1>4, <1>5 DEF FoldTo
<1>7. PICK u : u = t \ {Max(t)} /\ u \in SUBSET (1 .. n) /\ Max(t) \in 1 .. n /\ Cardinality(u) = k - 1
  BY <1>4, <1>6, SubsetsCount
<1>8. f[u] \in Seq(Nat)
  <2>1. k \in Nat /\ k - 1 \in Nat /\ ~(k <= k - 1)
    <3>1. PICK c \in Nat : c = Cardinality(u)
      BY <1>7, SubsetsCount
    <3>2. k \in Nat
      OBVIOUS
    <3>3. QED BY <1>7, <3>1, <3>2
  <2>2. k - 1 \notin Bad
    <3> HIDE DEF Bad
    <3>1. QED BY <1>3, <2>1
  <2>3. QED BY <1>7, <2>1, <2>2
<1>9. f[t] = f[u] \o s[Max(t)]
  BY <1>5, <1>6, <1>7 DEF FoldTo, Red
<1>10. s[Max(t)] \in Seq(Nat)
  BY <1>7
<1>11. f[u] \o s[Max(t)] \in Seq(Nat)
  BY <1>8, <1>10
<1>12. QED BY <1>4, <1>9, <1>11

LEMMA FoldLeftIn ==
  ASSUME NEW b, b \in Seq(Nat), NEW s, NEW n \in Nat, DOMAIN s = 1 .. n,
         \A i \in 1 .. n : s[i] \in Seq(Nat)
  PROVE  FoldLeft(Red, b, s) \in Seq(Nat)
<1> DEFINE F == CHOOSE f : IsFold(f, b, s, n)
<1>1. IsFold(F, b, s, n)
  BY FoldExists
<1>2. FoldLeft(Red, b, s) =
        (CHOOSE f : f = [t \in SUBSET DOMAIN s |->
                           IF t = {} THEN b ELSE Red(f[t \ {Max(t)}], s[Max(t)])])[DOMAIN s]
  BY DEF FoldLeft, MapThenFoldSet
<1>3. FoldLeft(Red, b, s) = F[1 .. n]
  BY <1>2 DEF IsFold, FoldTo
<1> HIDE DEF F
<1>4. QED BY <1>1, <1>3, FoldIsIn

\* One value for each run of equal keys.
LEMMA SegreduceIn ==
  ASSUME NEW data \in Seq(Seq(Nat)), NEW starts, Rising(starts), starts \in Seq(1 .. Len(data))
  PROVE  /\ Len(Segreduce(data, starts)) = Len(starts)
         /\ DOMAIN Segreduce(data, starts) = 1 .. Len(starts)
         /\ \A i \in 1 .. Len(starts) : Segreduce(data, starts)[i] \in Seq(Nat)
<1>1. PICK n \in Nat, l \in Nat :
        n = Len(data) /\ DOMAIN data = 1 .. n /\ l = Len(starts) /\ DOMAIN starts = 1 .. l
  OBVIOUS
<1>2. \A i \in 1 .. n : data[i] \in Seq(Nat)
  BY <1>1
<1> DEFINE End(i) == IF i = l THEN n ELSE starts[i + 1] - 1
           Run(i) == SubSeq(data, starts[i], End(i))
           One(i) == FoldLeft(Red, Head(Run(i)), Tail(Run(i)))
<1>3. Segreduce(data, starts) = [i \in 1 .. l |-> One(i)]
  BY <1>1, Zenon DEF Segreduce
<1>4. ASSUME NEW i \in 1 .. l PROVE One(i) \in Seq(Nat)
  <2>1. PICK a \in 1 .. n : a = starts[i]
    BY <1>1
  <2>2. PICK e \in 1 .. n : e = End(i) /\ a <= e
    <3>1. CASE i = l
      BY <2>1, <3>1
    <3>2. CASE i # l
      <4>1. i + 1 \in 1 .. l
        BY <3>2
      <4>2. starts[i + 1] \in 1 .. n
        BY <1>1, <4>1
      <4>3. i \in DOMAIN starts /\ i + 1 \in DOMAIN starts /\ i < i + 1
        BY <1>1, <4>1
      <4>4. starts[i] < starts[i + 1]
        BY <4>3 DEF Rising
      <4>5. PICK c \in 1 .. n : c = starts[i + 1] /\ a < c
        BY <2>1, <4>2, <4>4
      <4>6. c - 1 \in 1 .. n /\ a <= c - 1
        BY <4>5
      <4>7. End(i) = c - 1
        BY <3>2, <4>5
      <4>8. QED BY <4>6, <4>7
    <3>3. QED BY <3>1, <3>2
  <2>3. PICK r : r = SubSeq(data, a, e)
    OBVIOUS
  <2>4. r \in Seq(Seq(Nat)) /\ Len(r) = e - a + 1
    <3>1. PICK A : A = Seq(Nat)
      OBVIOUS
    <3>2. \A j \in a .. e : data[j] \in A
      BY <1>2, <2>2, <3>1
    <3>3. a \in Int /\ e \in Int /\ a <= e
      BY <2>2
    <3>4. SubSeq(data, a, e) \in Seq(A) /\ Len(SubSeq(data, a, e)) = IF a <= e THEN e - a + 1 ELSE 0
      BY <3>2, <3>3, SubSeqProperties
    <3>5. QED BY <2>3, <3>1, <3>3, <3>4
  <2>5. PICK h, t : h = Head(r) /\ t = Tail(r)
    OBVIOUS
  <2>6. r # <<>>
    BY <2>2, <2>4
  <2>7. h \in Seq(Nat) /\ t \in Seq(Seq(Nat))
    BY <2>4, <2>5, <2>6
  <2>8. PICK m \in Nat : DOMAIN t = 1 .. m /\ \A j \in 1 .. m : t[j] \in Seq(Nat)
    BY <2>7
  <2>9. FoldLeft(Red, h, t) \in Seq(Nat)
    BY <2>7, <2>8, FoldLeftIn
  <2>10. Run(i) = r
    BY <2>1, <2>2, <2>3
  <2> HIDE DEF Run
  <2>11. QED BY <2>5, <2>9, <2>10
<1> HIDE DEF One
<1>5. PICK g : g = [i \in 1 .. l |-> One(i)]
  OBVIOUS
<1>6. g \in [1 .. l -> Seq(Nat)]
  BY <1>4, <1>5
<1>7. Len(g) = l /\ DOMAIN g = 1 .. l /\ \A i \in 1 .. l : g[i] \in Seq(Nat)
  BY <1>6
<1>8. QED BY <1>1, <1>3, <1>5, <1>7

-----------------------------------------------------------------------------
(* What a flush on the device makes of the values.                         *)

\* The first n of data are values.
Values(data, n) == \A i \in 1 .. n : data[i] \in Seq(Nat)

\* The value a kept entry stands for: the reduction, if the entry before it has
\* the old value of the same key.
Came(m, old, new, i) == IF i <= Len(old) THEN old[i] ELSE new[i - Len(old)]
Both(m, old, new, p) == Red(old[m[p].from], new[m[p + 1].from - Len(old)])
StandsFor(pred, m, old, new) ==
  [p \in DOMAIN m |-> IF p > 1 /\ ~pred[p - 1] THEN Both(m, old, new, p - 1)
                      ELSE Came(m, old, new, m[p].from)]

\* An entry with predicate 0 shares the place of the next in its block.
LEMMA PartnersShare ==
  ASSUME NEW pred, NEW n, Predicate(pred, n), NEW p \in 1 .. n, p > 1, ~pred[p - 1], Tid(p) # 0
  PROVE  Slot(pred, p - 1) = Slot(pred, p)
<1>1. n \in Nat /\ p \in Nat \ {0} /\ p - 1 \in Nat \ {0} /\ p - 1 \in 1 .. n
  BY DEF Predicate
<1>2. PICK b \in Nat, t \in 0 .. BlockDim - 1 : b = Block(p) /\ t = Tid(p) /\ ThreadOf(b, t) = p
  BY <1>1, ThreadSplits
<1>3. Block(p - 1) = b
  <2>1. t - 1 \in 0 .. BlockDim - 1
    BY <1>2, BlockDimAssumption
  <2>2. ThreadOf(b, t - 1) = p - 1
    <3>1. b * BlockDim \in Nat
      BY BlockDimAssumption
    <3>2. PICK k \in Nat : k = b * BlockDim
      BY <3>1
    <3>3. p = k + t + 1
      BY <1>2, <3>2 DEF ThreadOf
    <3>4. k + (t - 1) + 1 = p - 1
      BY <1>2, <3>2, <3>3
    <3>5. QED BY <3>2, <3>4 DEF ThreadOf
  <2>3. QED BY <2>1, <2>2, ThreadIs
<1>4. KeptInto(pred, p - 1) = KeptInto(pred, p)
  <2>1. Kept(pred) \subseteq 1 .. n
    BY KeptCounts
  <2>2. \A q \in Kept(pred) : q < p <=> q < p - 1
    <3>1. SUFFICES ASSUME NEW q \in Kept(pred) PROVE q < p <=> q < p - 1
      OBVIOUS
    <3>2. q \in 1 .. n /\ q # p - 1
      BY <2>1 DEF Kept
    <3>3. QED BY <1>1, <3>2
  <2>3. QED BY <1>2, <1>3, <2>2 DEF KeptInto, KeptIn
<1>5. Scan(pred, p - 1) = Scan(pred, p)
  BY <1>4, KeptCounts
<1>6. QED BY <1>2, <1>3, <1>5 DEF Slot

LEMMA ConflictDataFill ==
  ASSUME NEW a, NEW b, NEW m, NEW n, Merged(a, b, m, n), NEW old, NEW new
  PROVE  Fills(IsLast(m), n, ConflictData(m, old, new), StandsFor(IsLast(m), m, old, new))
<1>0. n \in Nat /\ DOMAIN m = 1 .. n
  BY DEF Merged
<1>1. PICK pred : pred = IsLast(m)
  OBVIOUS
<1>2. Predicate(pred, n) /\ NoTwo(pred, n)
  BY <1>1, IsLastIs
<1>3. PICK out, val : out = ConflictData(m, old, new) /\ val = StandsFor(pred, m, old, new)
  OBVIOUS
<1> DEFINE Older(s) == CHOOSE p \in 1 .. n : ~pred[p] /\ Slot(pred, p) = s
           Newer(s) == CHOOSE p \in 1 .. n : pred[p] /\ Slot(pred, p) = s
<1>4. out = [s \in 1 .. n |->
        IF \E p \in 1 .. n : ~pred[p] /\ Slot(pred, p) = s THEN Both(m, old, new, Older(s))
        ELSE IF \E p \in 1 .. n : pred[p] /\ Slot(pred, p) = s THEN Came(m, old, new, m[Newer(s)].from)
        ELSE Junk]
  BY <1>0, <1>1, <1>3 DEF ConflictData, Both, Came
<1>5. ASSUME NEW p \in 1 .. n, NEW q \in 1 .. n, p # q, Slot(pred, p) = Slot(pred, q), ~pred[p]
      PROVE  q = p + 1 /\ pred[q]
  <2>1. p < q \/ q < p
    BY <1>0, <1>5
  <2>2. ~(q < p)
    BY <1>2, <1>5, SlotShared
  <2>3. QED BY <1>2, <1>5, <2>1, <2>2, SlotShared
<1>6. ASSUME NEW p \in 1 .. n, ~pred[p]
      PROVE  out[Slot(pred, p)] = Both(m, old, new, p)
  <2>1. PICK s \in 1 .. n : s = Slot(pred, p)
    BY <1>2, SlotsAre
  <2>2. \A q \in 1 .. n : ~pred[q] /\ Slot(pred, q) = s => q = p
    BY <1>5, <1>6, <2>1
  <2>3. Older(s) = p
    BY <1>6, <2>1, <2>2
  <2> HIDE DEF Older
  <2>4. \E q \in 1 .. n : ~pred[q] /\ Slot(pred, q) = s
    BY <1>6, <2>1
  <2>5. QED BY <1>4, <2>1, <2>3, <2>4
<1>7. ASSUME NEW p \in 1 .. n, pred[p], p > 1 => pred[p - 1]
      PROVE  out[Slot(pred, p)] = Came(m, old, new, m[p].from)
  <2>1. PICK s \in 1 .. n : s = Slot(pred, p)
    BY <1>2, SlotsAre
  <2>2. ~\E q \in 1 .. n : ~pred[q] /\ Slot(pred, q) = s
    <3>1. SUFFICES ASSUME NEW q \in 1 .. n, ~pred[q], Slot(pred, q) = s PROVE FALSE
      OBVIOUS
    <3>2. p = q + 1
      BY <1>5, <1>7, <2>1, <3>1
    <3>3. p > 1 /\ p - 1 = q
      BY <3>2
    <3>4. QED BY <1>7, <3>1, <3>3
  <2>3. \A q \in 1 .. n : pred[q] /\ Slot(pred, q) = s => q = p
    <3>1. SUFFICES ASSUME NEW q \in 1 .. n, pred[q], Slot(pred, q) = s, q # p PROVE FALSE
      OBVIOUS
    <3>2. p < q \/ q < p
      BY <1>0, <3>1
    <3>3. QED BY <1>2, <1>7, <2>1, <3>1, <3>2, SlotShared
  <2>4. Newer(s) = p
    BY <1>7, <2>1, <2>3
  <2> HIDE DEF Newer, Older
  <2>5. \E q \in 1 .. n : pred[q] /\ Slot(pred, q) = s
    BY <1>7, <2>1
  <2>6. QED BY <1>4, <2>1, <2>2, <2>4, <2>5
<1> HIDE DEF Newer, Older
<1>8. \A p \in 1 .. n : val[p] = IF p > 1 /\ ~pred[p - 1] THEN Both(m, old, new, p - 1)
                                 ELSE Came(m, old, new, m[p].from)
  BY <1>0, <1>3 DEF StandsFor
<1>9. ASSUME NEW p \in 1 .. n, pred[p], ~Joined(pred, p)
      PROVE  out[Slot(pred, p)] = val[p]
  <2>1. CASE p > 1 /\ ~pred[p - 1]
    <3>1. Tid(p) # 0
      BY <1>9, <2>1 DEF Joined
    <3>2. Slot(pred, p - 1) = Slot(pred, p)
      BY <1>2, <2>1, <3>1, PartnersShare
    <3>3. p - 1 \in 1 .. n
      BY <1>0, <2>1
    <3>4. out[Slot(pred, p - 1)] = Both(m, old, new, p - 1)
      BY <1>6, <2>1, <3>3
    <3>5. QED BY <1>8, <2>1, <3>2, <3>4
  <2>2. CASE ~(p > 1 /\ ~pred[p - 1])
    BY <1>7, <1>8, <1>9, <2>2
  <2>3. QED BY <2>1, <2>2
<1>10. ASSUME NEW p \in 1 .. n, ~pred[p]
       PROVE  out[Slot(pred, p)] = val[p + 1]
  <2>1. p + 1 \in 1 .. n /\ p + 1 > 1 /\ (p + 1) - 1 = p
    BY <1>0, <1>2, <1>10 DEF NoTwo
  <2>2. val[p + 1] = Both(m, old, new, p)
    BY <1>8, <1>10, <2>1
  <2>3. QED BY <1>6, <1>10, <2>2
<1>11. QED BY <1>1, <1>3, <1>9, <1>10 DEF Fills

\* What a flush merges: sorted keys a with their values old, and b with new.
Flushes(a, b, m, n, old, new) ==
  /\ a \in Seq(Nat) /\ b \in Seq(Nat) /\ Merged(a, b, m, n)
  /\ Len(old) = Len(a) /\ Values(old, Len(a)) /\ Values(new, Len(b))

\* Every value of a flush is a value, and a key that was there before has what
\* it had, and then what is new.
Extends(la, m, n, old, val) ==
  \A p \in 1 .. n :
    /\ val[p] \in Seq(Nat)
    /\ \A q \in 1 .. n : IsLast(m)[p] /\ m[p].key = m[q].key /\ m[q].from <= la =>
         val[p] = old[m[q].from] \/ \E r \in Seq(Nat) : val[p] = old[m[q].from] \o r

LEMMA StandsForValues ==
  ASSUME NEW a, NEW b, NEW m, NEW n, NEW old, NEW new, Flushes(a, b, m, n, old, new)
  PROVE  Extends(Len(a), m, n, old, StandsFor(IsLast(m), m, old, new))
<1> SUFFICES ASSUME NEW p \in 1 .. n
             PROVE  /\ StandsFor(IsLast(m), m, old, new)[p] \in Seq(Nat)
                    /\ \A q \in 1 .. n : IsLast(m)[p] /\ m[p].key = m[q].key /\ m[q].from <= Len(a) =>
                         \/ StandsFor(IsLast(m), m, old, new)[p] = old[m[q].from]
                         \/ \E r \in Seq(Nat) : StandsFor(IsLast(m), m, old, new)[p] = old[m[q].from] \o r
  BY DEF Extends
<1>a. /\ a \in Seq(Nat) /\ b \in Seq(Nat) /\ Merged(a, b, m, n)
      /\ Len(old) = Len(a) /\ Values(old, Len(a)) /\ Values(new, Len(b))
  BY DEF Flushes
<1>0. n \in Nat /\ DOMAIN m = 1 .. n /\ n = Len(a) + Len(b)
  BY <1>a DEF Merged
<1>1. PICK pred : pred = IsLast(m)
  OBVIOUS
<1>2. /\ Predicate(pred, n) /\ NoTwo(pred, n)
      /\ \A q \in 1 .. n : pred[q] <=> q = n \/ m[q].key # m[q + 1].key
  <2>1. Merged(a, b, m, n)
    BY <1>a
  <2>2. QED BY <1>1, <2>1, IsLastIs
<1>3. PICK v : v = StandsFor(pred, m, old, new)[p]
  OBVIOUS
<1>4. v = IF p > 1 /\ ~pred[p - 1] THEN Both(m, old, new, p - 1) ELSE Came(m, old, new, m[p].from)
  BY <1>0, <1>3 DEF StandsFor
<1>5. PICK la \in Nat, lb \in Nat : la = Len(a) /\ lb = Len(b) /\ n = la + lb /\ DOMAIN b = 1 .. lb
  <2>1. Len(a) \in Nat /\ Len(b) \in Nat /\ DOMAIN b = 1 .. Len(b)
    BY <1>a
  <2>2. QED BY <1>0, <2>1
<1>6. \A q \in 1 .. n : /\ m[q].from \in 1 .. n
                        /\ m[q].from <= la => m[q].key = a[m[q].from]
                        /\ m[q].from > la => m[q].from - la \in 1 .. lb
  BY <1>a, <1>5 DEF Merged, IsEntry
<1>7. \A i, j \in 1 .. n : i < j /\ m[i].key = m[j].key => m[i].from <= la /\ m[j].from > la /\ j = i + 1
  BY <1>a, <1>5 DEF Merged
<1>8. \A i, j \in 1 .. n : i < j => m[i].key <= m[j].key
  BY <1>a DEF Merged
<1>9. CASE p > 1 /\ ~pred[p - 1]
  <2>1. PICK o \in 1 .. n : o = p - 1 /\ p = o + 1
    BY <1>0, <1>9
  <2>2. m[o].key = m[p].key
    BY <1>2, <1>9, <2>1
  <2>3. m[o].from <= la /\ m[p].from > la
    BY <1>7, <2>1, <2>2
  <2>4. PICK s \in Seq(Nat), r \in Seq(Nat) : s = old[m[o].from] /\ r = new[m[p].from - la]
    <3>1. m[o].from \in 1 .. la /\ m[p].from - la \in 1 .. lb
      BY <1>5, <1>6, <2>3
    <3>2. QED BY <1>a, <1>5, <3>1 DEF Values
  <2>5. v = s \o r
    BY <1>a, <1>4, <1>5, <1>9, <2>1, <2>4 DEF Both, Red
  <2>6. v \in Seq(Nat)
    BY <2>5
  <2>7. ASSUME NEW q \in 1 .. n, m[p].key = m[q].key, m[q].from <= la
        PROVE  q = o
    <3>1. q # p
      <4>1. m[p].from \in 1 .. n
        BY <1>6
      <4>2. QED BY <1>5, <2>3, <2>7, <4>1
    <3>2. ~(p < q)
      <4>1. SUFFICES ASSUME p < q PROVE FALSE
        OBVIOUS
      <4>2. m[q].from > la
        BY <1>7, <2>7, <4>1
      <4>3. m[q].from \in 1 .. n
        BY <1>6
      <4>4. QED BY <1>5, <2>7, <4>2, <4>3
    <3>3. q < p
      BY <1>0, <3>1, <3>2
    <3>4. p = q + 1
      BY <1>7, <2>7, <3>3
    <3>5. QED BY <2>1, <3>4
  <2>8. QED BY <1>1, <1>3, <1>5, <2>4, <2>5, <2>6, <2>7
<1>10. CASE ~(p > 1 /\ ~pred[p - 1])
  <2>1. v = Came(m, old, new, m[p].from)
    BY <1>4, <1>10
  <2>2. v \in Seq(Nat)
    <3>1. CASE m[p].from <= la
      <4>1. m[p].from \in 1 .. la
        BY <1>5, <1>6, <3>1
      <4>2. QED BY <1>a, <1>5, <2>1, <3>1, <4>1 DEF Came, Values
    <3>2. CASE ~(m[p].from <= la)
      <4>1. m[p].from - la \in 1 .. lb
        BY <1>5, <1>6, <3>2
      <4>2. QED BY <1>a, <1>5, <2>1, <3>2, <4>1 DEF Came, Values
    <3>3. QED BY <3>1, <3>2
  <2>3. ASSUME NEW q \in 1 .. n, pred[p], m[p].key = m[q].key, m[q].from <= la
        PROVE  v = old[m[q].from]
    <3>1. ~(p < q)
      <4>1. m[q].from \in 1 .. n
        BY <1>6
      <4>2. QED BY <1>5, <1>7, <2>3, <4>1
    <3>2. ~(q < p)
      <4>1. SUFFICES ASSUME q < p PROVE FALSE
        OBVIOUS
      <4>2. p = q + 1
        BY <1>7, <2>3, <4>1
      <4>3. p > 1 /\ p - 1 = q /\ q # n
        BY <1>0, <4>2
      <4>4. ~pred[q]
        BY <1>2, <2>3, <4>2, <4>3
      <4>5. QED BY <1>10, <4>3, <4>4
    <3>3. q = p
      BY <1>0, <3>1, <3>2
    <3>4. QED BY <1>a, <1>5, <2>1, <2>3, <3>3 DEF Came
  <2>4. QED BY <1>1, <1>3, <1>5, <2>2, <2>3
<1>11. QED BY <1>9, <1>10

-----------------------------------------------------------------------------
(* What the keys have.                                                     *)

ValuesInv ==
  Values(vct_data, Len(vct_index)) /\ Values(other.data, Len(other.index)) /\ next \in Nat

\* A value waits for every key that a flush may take.
WaitInv ==
  /\ vct_add_data \in Seq(Seq(Nat)) /\ other.add_data \in Seq(Seq(Nat))
  /\ ~device \/ n_add_slot > 0 => Len(vct_add_data) = Len(vct_add_index)
  /\ ~device => Len(other.add_data) = Len(other.add_index)

LEMMA SegmentsIncrease ==
  ASSUME NEW s, NotFalling(s)
  PROVE  /\ Rising(Segments(s)) /\ Segments(s) \in Seq(1 .. Len(s))
         /\ Len(Permuted(s, Segments(s))) = Len(Segments(s))
<1>1. PICK n \in Nat : n = Len(s) /\ DOMAIN s = 1 .. n /\ s \in [1 .. n -> Nat]
  BY DEF NotFalling
<1>2. PICK S : S = {p \in 1 .. n : p = 1 \/ s[p - 1] # s[p]}
  OBVIOUS
<1>3. Segments(s) = Increasing(S)
  BY <1>1, <1>2 DEF Segments
<1>4. S \subseteq Nat /\ IsFiniteSet(S)
  <2>1. S \subseteq 1 .. n
    BY <1>2
  <2>2. S \subseteq Nat
    BY <2>1
  <2>3. IsFiniteSet(1 .. n)
    BY FS_Interval
  <2>4. IsFiniteSet(S)
    BY <2>1, <2>3, FS_Subset
  <2>5. QED BY <2>2, <2>4
<1>5. Rising(Segments(s))
  BY <1>3, <1>4, IncreasingRises
<1>6. Segments(s) \in Seq(1 .. Len(s))
  BY SegmentsRise
<1>7. PICK t : t = Segments(s)
  OBVIOUS
<1>8. Len(Permuted(s, t)) = Len(t)
  <2>1. Into(s, n, Nat)
    BY <1>1 DEF Into
  <2>2. t \in Seq(1 .. n)
    BY <1>1, <1>6, <1>7
  <2>3. QED BY <2>1, <2>2, PermutedIn
<1>9. QED BY <1>5, <1>6, <1>7, <1>8

\* The reductions of what waits, in the order of its keys.
LEMMA ReducedIn ==
  ASSUME NEW data, data \in Seq(Seq(Nat)), NEW L, Len(data) = L,
         NEW slots, slots \in Seq(1 .. L), NEW sorted, NotFalling(sorted), Len(sorted) = Len(slots)
  PROVE  \A i \in 1 .. Len(Permuted(sorted, Segments(sorted))) :
           Segreduce(Permuted(data, slots), Segments(sorted))[i] \in Seq(Nat)
<1>1. PICK A, n, o : A = Seq(Nat) /\ n = L /\ n \in Nat /\ o = slots
  OBVIOUS
<1>2. Into(data, n, A) /\ o \in Seq(1 .. n)
  BY <1>1 DEF Into
<1>3. Permuted(data, o) \in Seq(A) /\ Len(Permuted(data, o)) = Len(o)
  BY <1>1, <1>2, PermutedIn
<1>4. PICK d, t : d = Permuted(data, slots) /\ t = Segments(sorted)
  OBVIOUS
<1>5. d \in Seq(Seq(Nat)) /\ Len(d) = Len(sorted)
  BY <1>1, <1>3, <1>4
<1>6. Rising(t) /\ t \in Seq(1 .. Len(d)) /\ Len(Permuted(sorted, t)) = Len(t)
  BY <1>4, <1>5, SegmentsIncrease
<1>7. \A i \in 1 .. Len(t) : Segreduce(d, t)[i] \in Seq(Nat)
  BY <1>5, <1>6, SegreduceIn
<1>8. QED BY <1>4, <1>6, <1>7

LEMMA PrefixOf ==
  ASSUME NEW a \in Seq(Nat), NEW b \in Seq(Nat), NEW l \in Nat, NEW n \in Nat,
         Len(a) = l, Len(b) = n, l <= n, \A i \in 1 .. l : a[i] = b[i]
  PROVE  IsPrefix(a, b)
<1>1. \A i \in 1 .. l : a[i] \in Nat /\ b[i] \in Nat /\ i \in 1 .. n
  OBVIOUS
<1>2. PICK x, y : x = SubSeq(a, 1, l) /\ y = SubSeq(b, 1, l)
  OBVIOUS
<1>3. x = [i \in 1 .. l |-> a[i]]
  BY <1>2
<1>4. y = [i \in 1 .. l |-> b[i]]
  BY <1>2
<1>5. x = y
  BY <1>3, <1>4
<1>6. QED BY <1>2, <1>5 DEF IsPrefix

LEMMA ReverseIs ==
  ASSUME NEW s \in Seq(Nat), NEW n \in Nat, Len(s) = n
  PROVE  /\ Reverse(s) \in Seq(Nat) /\ Len(Reverse(s)) = n
         /\ \A i \in 1 .. n : Reverse(s)[i] = s[(n - i) + 1]
<1>1. PICK x : x = Reverse(s)
  OBVIOUS
<1>2. x = [i \in 1 .. n |-> s[(n - i) + 1]]
  BY <1>1 DEF Reverse
<1>3. \A i \in 1 .. n : s[(n - i) + 1] \in Nat
  <2>1. \A i \in 1 .. n : (n - i) + 1 \in 1 .. n
    OBVIOUS
  <2>2. \A j \in 1 .. n : s[j] \in Nat
    OBVIOUS
  <2>3. QED BY <2>1, <2>2
<1>4. x \in [1 .. n -> Nat]
  BY <1>2, <1>3
<1>5. x \in Seq(Nat) /\ Len(x) = n
  BY <1>4
<1>6. QED BY <1>1, <1>2, <1>5

LEMMA JoinedEnds ==
  ASSUME NEW s \in Seq(Nat), NEW r \in Seq(Nat)
  PROVE  IsPrefix(s, s) /\ IsPrefix(s, s \o r) /\ IsSuffix(s, s) /\ IsSuffix(s, r \o s)
<1>1. PICK n \in Nat, k \in Nat : n = Len(s) /\ k = Len(r)
  OBVIOUS
<1>2. n <= n + k /\ n <= k + n /\ n + k \in Nat /\ k + n \in Nat
  OBVIOUS
<1>3. IsPrefix(s, s)
  BY <1>1, PrefixOf
<1>4. IsPrefix(s, s \o r)
  <2>1. PICK y : y = s \o r
    OBVIOUS
  <2>2. y \in Seq(Nat) /\ Len(y) = n + k /\ \A i \in 1 .. n : y[i] = s[i]
    BY <1>1, <2>1
  <2>3. IsPrefix(s, y)
    BY <1>1, <1>2, <2>2, PrefixOf
  <2>4. QED BY <2>1, <2>3
<1>5. PICK x, y, z : x = Reverse(s) /\ y = r \o s /\ z = Reverse(y)
  OBVIOUS
<1>6. y \in Seq(Nat) /\ Len(y) = k + n /\ \A i \in 1 .. n : y[k + i] = s[i]
  BY <1>1, <1>5
<1>7. x \in Seq(Nat) /\ Len(x) = n /\ \A i \in 1 .. n : x[i] = s[(n - i) + 1]
  BY <1>1, <1>5, ReverseIs
<1>8. PICK l \in Nat : l = k + n
  OBVIOUS
<1>9. z \in Seq(Nat) /\ Len(z) = l /\ \A i \in 1 .. l : z[i] = y[(l - i) + 1]
  BY <1>5, <1>6, <1>8, ReverseIs
<1>10. \A i \in 1 .. n : x[i] = z[i]
  <2>1. SUFFICES ASSUME NEW i \in 1 .. n PROVE x[i] = z[i]
    OBVIOUS
  <2>2. PICK j \in 1 .. n : j = (n - i) + 1 /\ (l - i) + 1 = k + j /\ i \in 1 .. l
    BY <1>8
  <2>3. x[i] = s[j] /\ z[i] = y[k + j] /\ y[k + j] = s[j]
    <3>1. x[i] = s[j]
      BY <1>7, <2>2
    <3>2. z[i] = y[k + j]
      BY <1>9, <2>2
    <3>3. QED BY <1>6, <3>1, <3>2
  <2>4. QED BY <2>3, Zenon
<1>11. IsPrefix(x, z)
  <2>1. n <= l
    BY <1>8
  <2>2. QED BY <1>7, <1>9, <1>10, <2>1, PrefixOf
<1>12. IsPrefix(x, x)
  BY <1>7, PrefixOf
<1>13. QED BY <1>3, <1>4, <1>5, <1>11, <1>12 DEF IsSuffix

-----------------------------------------------------------------------------
(* Each flush keeps the order of the operands.                             *)

\* The keys there are after a flush that were there before, and their values.
Onto(index, data, index1, data1) ==
  \A i \in 1 .. Len(index), j \in 1 .. Len(index1) :
    index1[j] = index[i] => IsPrefix(data[i], data1[j])
Behind(index, data, index1, data1) ==
  \A i \in 1 .. Len(index), j \in 1 .. Len(index1) :
    index1[j] = index[i] => IsSuffix(data[i], data1[j])

LEMMA DeviceMerges ==
  ASSUME NEW a, NEW b, Rising(a), Rising(b), NEW m, m = Merge(a, b),
         NEW old, Len(old) = Len(a), Values(old, Len(a)), NEW new, Values(new, Len(b)),
         NEW index, index = Realign(IsLast(m), ConflictKeys(m), NoKey),
         NEW data, data = Realign(IsLast(m), ConflictData(m, old, new), Junk)
  PROVE  /\ \E S : data \in Seq(S)
         /\ Len(data) = Len(index) /\ Len(index) \in Nat /\ Values(data, Len(index))
         /\ Onto(a, old, index, data)
<1>1. PICK la \in Nat, lb \in Nat : la = Len(a) /\ lb = Len(b) /\ DOMAIN a = 1 .. la
  BY DEF Rising
<1>2. PICK n \in Nat : n = la + lb
  OBVIOUS
<1>3. Merged(a, b, m, n) /\ \A x \in Entries(a, b) : \E q \in 1 .. n : m[q] = x
  BY <1>1, <1>2, MergeOfRising
<1>4. DOMAIN m = 1 .. n
  BY <1>3 DEF Merged
<1>5. PICK pred : pred = IsLast(m)
  OBVIOUS
<1>6. Predicate(pred, n) /\ NoTwo(pred, n)
  BY <1>3, <1>5, IsLastIs
<1>7. PICK k \in Nat : k = Cardinality(Kept(pred))
  BY <1>6, KeptCounts
<1>8. PICK keys, vals : keys = [p \in 1 .. n |-> m[p].key] /\ vals = StandsFor(pred, m, old, new)
  OBVIOUS
<1>9. index = [i \in 1 .. k |-> keys[Nth(pred, i)]]
  <2>1. PICK out : out = ConflictKeys(m)
    OBVIOUS
  <2>2. Fills(pred, n, out, keys)
    BY <1>3, <1>5, <1>8, <2>1, ConflictKeysFill
  <2>3. index = Realign(pred, out, NoKey)
    BY <1>5, <2>1
  <2>4. QED BY <1>6, <1>7, <2>2, <2>3, RealignIs
<1>10. data = [i \in 1 .. k |-> vals[Nth(pred, i)]]
  <2>1. PICK out : out = ConflictData(m, old, new)
    OBVIOUS
  <2>2. Fills(pred, n, out, vals)
    BY <1>3, <1>5, <1>8, <2>1, ConflictDataFill
  <2>3. data = Realign(pred, out, Junk)
    BY <1>5, <2>1
  <2>4. QED BY <1>6, <1>7, <2>2, <2>3, RealignIs
<1>11. ASSUME NEW j \in 1 .. k
       PROVE  Nth(pred, j) \in 1 .. n /\ pred[Nth(pred, j)]
  <2>1. Nth(pred, j) \in Kept(pred)
    BY <1>6, <1>7, KeptPlaces
  <2>2. Kept(pred) \subseteq 1 .. n
    BY <1>6, KeptCounts
  <2>3. QED BY <2>1, <2>2 DEF Kept
<1>12. Len(index) = k /\ \A j \in 1 .. k : index[j] = m[Nth(pred, j)].key
  BY <1>8, <1>9, <1>11
<1>13. Len(data) = k /\ \A j \in 1 .. k : data[j] = vals[Nth(pred, j)]
  BY <1>10
<1>14. \E S : data \in Seq(S)
  <2>1. data = [j \in 1 .. k |-> data[j]]
    BY <1>10
  <2>2. QED BY <2>1, FunctionIsSeq
<1>15. Extends(la, m, n, old, vals)
  <2>1. a \in Seq(Nat) /\ b \in Seq(Nat)
    BY DEF Rising
  <2>2. Flushes(a, b, m, n, old, new)
    BY <1>3, <2>1 DEF Flushes
  <2>3. QED BY <1>1, <1>5, <1>8, <2>2, StandsForValues
<1>16. Values(data, k)
  <2>1. \A p \in 1 .. n : vals[p] \in Seq(Nat)
    BY <1>15 DEF Extends
  <2>2. ASSUME NEW j \in 1 .. k PROVE data[j] \in Seq(Nat)
    BY <1>11, <1>13, <2>1
  <2>3. QED BY <2>2 DEF Values
<1>17. ASSUME NEW i \in 1 .. la, NEW j \in 1 .. k, index[j] = a[i]
       PROVE  IsPrefix(old[i], data[j])
  <2>1. PICK p \in 1 .. n : p = Nth(pred, j) /\ pred[p]
    BY <1>11
  <2>2. m[p].key = a[i] /\ data[j] = vals[p]
    BY <1>12, <1>13, <1>17, <2>1
  <2>3. PICK x : x = [key |-> a[i], from |-> i]
    OBVIOUS
  <2>4. x \in Entries(a, b) /\ x.key = a[i] /\ x.from = i
    BY <1>1, <2>3 DEF Entries
  <2>5. PICK q \in 1 .. n : m[q] = x
    BY <1>3, <2>4
  <2>6. m[p].key = m[q].key /\ m[q].from = i /\ i <= la
    BY <2>2, <2>4, <2>5
  <2>7. vals[p] = old[i] \/ \E r \in Seq(Nat) : vals[p] = old[i] \o r
    <3>1. PICK o : o = old[m[q].from] /\ o = old[i]
      BY <2>6
    <3>2. IsLast(m)[p] /\ m[p].key = m[q].key /\ m[q].from <= la
      BY <1>5, <2>1, <2>6
    <3>3. vals[p] = old[m[q].from] \/ \E r \in Seq(Nat) : vals[p] = old[m[q].from] \o r
      BY <1>15, <3>2 DEF Extends
    <3>4. QED BY <3>1, <3>3
  <2>8. old[i] \in Seq(Nat)
    BY <1>1 DEF Values
  <2>9. QED BY <2>2, <2>7, <2>8, JoinedEnds
<1>18. QED BY <1>1, <1>12, <1>13, <1>14, <1>16, <1>17 DEF Onto

LEMMA DeviceFlushOrder ==
  ASSUME MainInv, AddInv, ValuesInv, WaitInv, FlushOnDevice
  PROVE  Values(vct_data', Len(vct_index')) /\ Onto(vct_index, vct_data, vct_index', vct_data')
<1>1. PICK slots, sorted, unique, m : DeviceFlush(slots, sorted, unique, m)
  BY DeviceFlushIs
<1>2. PICK a, b, la : a = vct_index /\ b = Permuted(sorted, Segments(sorted)) /\ la = Len(a) /\ la \in Nat
  BY MainIs
<1>3. Rising(a) /\ Rising(b) /\ m = Merge(a, b)
  BY <1>1, <1>2, SegmentsRise DEF DeviceFlush, MainInv
<1>4. PICK old : old = Front(vct_data)
  OBVIOUS
<1>5. Len(old) = la /\ Values(old, la) /\ \A i \in 1 .. la : old[i] = vct_data[i]
  <2>1. Vector(vct_data, la, bck)
    BY <1>2 DEF MainInv
  <2>2. Len(old) = la /\ \A i \in 1 .. la : old[i] = vct_data[i]
    BY <1>4, <2>1, FrontIs
  <2>3. \A i \in 1 .. la : vct_data[i] \in Seq(Nat)
    BY <1>2 DEF ValuesInv, Values
  <2>4. QED BY <2>2, <2>3 DEF Values
<1>6. Values(unique, Len(b))
  <2>1. PICK L \in Nat : L = Len(vct_add_index)
    BY DEF AddInv
  <2>2. vct_add_data \in Seq(Seq(Nat)) /\ Len(vct_add_data) = L
    <3>1. n_add_slot > 0
      BY DEF FlushOnDevice
    <3>2. QED BY <2>1, <3>1 DEF WaitInv
  <2>3. slots \in Seq(1 .. L) /\ NotFalling(sorted) /\ sorted = Permuted(vct_add_index, slots)
    BY <1>1, <2>1 DEF DeviceFlush
  <2>4. Len(sorted) = Len(slots)
    <3>1. PICK A : A = Nat
      OBVIOUS
    <3>2. Into(vct_add_index, L, A)
      BY <2>1, <3>1 DEF AddInv, Into
    <3>3. QED BY <2>3, <3>2, PermutedIn
  <2>5. unique = Segreduce(Permuted(vct_add_data, slots), Segments(sorted))
    BY <1>1 DEF DeviceFlush
  <2>6. QED BY <1>2, <2>2, <2>3, <2>4, <2>5, ReducedIn DEF Values
<1>7. PICK index, data :
        /\ index = Realign(IsLast(m), ConflictKeys(m), NoKey)
        /\ data = Realign(IsLast(m), ConflictData(m, old, unique), Junk)
  OBVIOUS
<1>8. vct_index' = index /\ vct_data' = Append(data, bck)
  BY <1>1, <1>4, <1>7 DEF DeviceFlush
<1>9. /\ \E S : data \in Seq(S)
      /\ Len(data) = Len(index) /\ Len(index) \in Nat /\ Values(data, Len(index))
      /\ Onto(a, old, index, data)
  BY <1>2, <1>3, <1>5, <1>6, <1>7, DeviceMerges
<1>10. PICK k \in Nat : k = Len(index) /\ k = Len(data)
  BY <1>9
<1>11. \A j \in 1 .. k : Append(data, bck)[j] = data[j]
  BY <1>9, <1>10, AppendVector
<1>12. PICK d : d = Append(data, bck)
  OBVIOUS
<1>13. Values(d, k)
  BY <1>9, <1>10, <1>11, <1>12 DEF Values
<1>14. Onto(a, vct_data, index, d)
  BY <1>2, <1>5, <1>9, <1>10, <1>11, <1>12 DEF Onto
<1>15. QED BY <1>2, <1>8, <1>10, <1>12, <1>13, <1>14
\* The place of a key.
PlaceOf(s, k) == CHOOSE i \in DOMAIN s : s[i] = k

LEMMA PlaceOfIs ==
  ASSUME NEW s, Rising(s)
  PROVE  /\ \A k \in ToSet(s) : PlaceOf(s, k) \in 1 .. Len(s)
         /\ \A i \in 1 .. Len(s) : s[i] \in ToSet(s) /\ PlaceOf(s, s[i]) = i
<1>1. PICK n \in Nat : n = Len(s) /\ DOMAIN s = 1 .. n /\ \A i \in 1 .. n : s[i] \in Nat
  BY DEF Rising
<1>2. ASSUME NEW k \in ToSet(s) PROVE PlaceOf(s, k) \in 1 .. n
  <2>1. \E i \in 1 .. n : s[i] = k
    BY <1>1 DEF ToSet
  <2>2. QED BY <1>1, <2>1 DEF PlaceOf
<1>3. ASSUME NEW i \in 1 .. n PROVE s[i] \in ToSet(s) /\ PlaceOf(s, s[i]) = i
  <2>1. ASSUME NEW j \in 1 .. n, s[j] = s[i] PROVE j = i
    <3>1. ~(i < j) /\ ~(j < i)
      BY <1>1, <2>1 DEF Rising
    <3>2. QED BY <3>1
  <2>2. PlaceOf(s, s[i]) = i
    BY <1>1, <2>1 DEF PlaceOf
  <2>3. QED BY <1>1, <2>2 DEF ToSet
<1>4. QED BY <1>1, <1>2, <1>3

\* What the merge loop of the host stores for a key.
HostValue(keys, data, k) ==
  IF k \notin ToSet(vct_index) THEN data[PlaceOf(keys, k)]
  ELSE IF k \notin ToSet(keys) THEN vct_data[PlaceOf(vct_index, k)]
  ELSE Red(data[PlaceOf(keys, k)], vct_data[PlaceOf(vct_index, k)])

LEMMA HostMerges ==
  ASSUME NEW keys, Rising(keys), Rising(vct_index),
         NEW data, Values(data, Len(keys)), Values(vct_data, Len(vct_index)),
         NEW index, index = HostMerge(keys, data).index, NEW d, d = HostMerge(keys, data).data
  PROVE  /\ \E S : d \in Seq(S)
         /\ Len(d) = Len(index) /\ Len(index) \in Nat /\ Values(d, Len(index))
         /\ Behind(vct_index, vct_data, index, d)
<1>1. PICK S : S = ToSet(keys) \cup ToSet(vct_index)
  OBVIOUS
<1>2. S \subseteq Nat /\ IsFiniteSet(S)
  <2>1. keys \in Seq(Nat) /\ vct_index \in Seq(Nat)
    BY DEF Rising
  <2>2. QED BY <1>1, <2>1, ToSetFinite, FS_Union
<1>3. PICK all : all = Increasing(S)
  OBVIOUS
<1>4. Rising(all) /\ ToSet(all) = S
  BY <1>2, <1>3, IncreasingRises
<1>5. PICK n \in Nat : n = Len(all) /\ DOMAIN all = 1 .. n
  BY <1>4 DEF Rising
<1>6. index = all /\ d = [i \in 1 .. n |-> HostValue(keys, data, all[i])]
  BY <1>1, <1>3, <1>5 DEF HostMerge, HostValue, PlaceOf
<1>7. Len(d) = n /\ \A i \in 1 .. n : d[i] = HostValue(keys, data, all[i])
  BY <1>6
<1>8. \E T : d \in Seq(T)
  <2>1. d = [i \in 1 .. n |-> d[i]]
    BY <1>6
  <2>2. QED BY <2>1, FunctionIsSeq
<1>9. ASSUME NEW k \in ToSet(keys) PROVE data[PlaceOf(keys, k)] \in Seq(Nat)
  BY PlaceOfIs DEF Values
<1>10. ASSUME NEW k \in ToSet(vct_index) PROVE vct_data[PlaceOf(vct_index, k)] \in Seq(Nat)
  BY PlaceOfIs DEF Values
<1>11. ASSUME NEW k \in S PROVE HostValue(keys, data, k) \in Seq(Nat)
  <2>1. CASE k \notin ToSet(vct_index)
    BY <1>1, <1>9, <2>1 DEF HostValue
  <2>2. CASE k \in ToSet(vct_index) /\ k \notin ToSet(keys)
    BY <1>10, <2>2 DEF HostValue
  <2>3. CASE k \in ToSet(vct_index) /\ k \in ToSet(keys)
    <3>1. PICK r \in Seq(Nat), s \in Seq(Nat) :
            r = data[PlaceOf(keys, k)] /\ s = vct_data[PlaceOf(vct_index, k)]
      BY <1>9, <1>10, <2>3
    <3>2. HostValue(keys, data, k) = r \o s
      BY <2>3, <3>1 DEF HostValue, Red
    <3>3. QED BY <3>2
  <2>4. QED BY <2>1, <2>2, <2>3
<1>12. Values(d, n)
  <2>1. \A i \in 1 .. n : all[i] \in S
    BY <1>4, <1>5 DEF ToSet
  <2>2. QED BY <1>7, <1>11, <2>1 DEF Values
<1>13. ASSUME NEW i \in 1 .. Len(vct_index), NEW j \in 1 .. n, all[j] = vct_index[i]
       PROVE  IsSuffix(vct_data[i], d[j])
  <2>1. PICK k : k = vct_index[i]
    OBVIOUS
  <2>2. k \in ToSet(vct_index) /\ PlaceOf(vct_index, k) = i
    BY <2>1, PlaceOfIs
  <2>3. PICK s \in Seq(Nat) : s = vct_data[i]
    BY <1>10, <2>2
  <2>4. d[j] = HostValue(keys, data, k)
    BY <1>7, <1>13, <2>1
  <2>5. CASE k \notin ToSet(keys)
    <3>1. d[j] = s
      BY <2>2, <2>3, <2>4, <2>5 DEF HostValue
    <3>2. QED BY <2>3, <3>1, JoinedEnds
  <2>6. CASE k \in ToSet(keys)
    <3>1. PICK r \in Seq(Nat) : r = data[PlaceOf(keys, k)]
      BY <1>9, <2>6
    <3>2. d[j] = r \o s
      BY <2>2, <2>3, <2>4, <2>6, <3>1 DEF HostValue, Red
    <3>3. QED BY <2>3, <3>2, JoinedEnds
  <2>7. QED BY <2>5, <2>6
<1>14. QED BY <1>5, <1>6, <1>7, <1>8, <1>12, <1>13 DEF Behind

LEMMA HostFlushOrder ==
  ASSUME MainInv, AddInv, ValuesInv, WaitInv, FlushOnHost
  PROVE  Values(vct_data', Len(vct_index')) /\ Behind(vct_index, vct_data, vct_index', vct_data')
<1>1. PICK L \in Nat : L = Len(vct_add_index) /\ vct_add_index \in Seq(Nat)
  BY DEF AddInv
<1>2. vct_add_data \in Seq(Seq(Nat)) /\ Len(vct_add_data) = L
  <2>1. ~device
    BY DEF FlushOnHost
  <2>2. QED BY <1>1, <2>1 DEF WaitInv
<1>3. PICK order, sorted, keys, data :
        /\ order \in Sortings(vct_add_index) /\ sorted = Permuted(vct_add_index, order)
        /\ keys = Permuted(sorted, Segments(sorted))
        /\ data = Segreduce(Permuted(vct_add_data, order), Segments(sorted))
        /\ vct_index' = HostMerge(keys, data).index
        /\ vct_data' = Append(HostMerge(keys, data).data, bck)
  BY DEF FlushOnHost
<1>4. order \in Seq(1 .. L) /\ NotFalling(sorted) /\ Len(order) = L
  BY <1>1, <1>3, SortedIs
<1>5. Len(sorted) = L
  <2>1. PICK A : A = Nat
    OBVIOUS
  <2>2. Into(vct_add_index, L, A)
    BY <1>1, <2>1 DEF Into
  <2>3. QED BY <1>3, <1>4, <2>2, PermutedIn
<1>6. Rising(keys) /\ Rising(vct_index)
  BY <1>3, <1>4, SegmentsRise DEF MainInv
<1>7. Values(data, Len(keys))
  BY <1>2, <1>3, <1>4, <1>5, ReducedIn DEF Values
<1>8. PICK index, d : index = HostMerge(keys, data).index /\ d = HostMerge(keys, data).data
  OBVIOUS
<1>9. /\ \E S : d \in Seq(S)
      /\ Len(d) = Len(index) /\ Len(index) \in Nat /\ Values(d, Len(index))
      /\ Behind(vct_index, vct_data, index, d)
  <2>1. Values(vct_data, Len(vct_index))
    BY DEF ValuesInv
  <2>2. QED BY <1>6, <1>7, <1>8, <2>1, HostMerges
<1>10. PICK k \in Nat : k = Len(index) /\ k = Len(d)
  BY <1>9
<1>11. PICK e : e = Append(d, bck)
  OBVIOUS
<1>12. \A j \in 1 .. k : e[j] = d[j]
  BY <1>9, <1>10, <1>11, AppendVector
<1>13. Values(e, k)
  BY <1>9, <1>10, <1>12 DEF Values
<1>14. Behind(vct_index, vct_data, index, e)
  BY <1>9, <1>10, <1>12 DEF Behind
<1>15. QED BY <1>3, <1>8, <1>10, <1>11, <1>13, <1>14

-----------------------------------------------------------------------------
(* Every step keeps values where there are keys, and values waiting where  *)
(* keys wait.                                                              *)

LEMMA EmptyValues ==
  ASSUME NEW data
  PROVE  Values(data, Len(<<>>)) /\ <<>> \in Seq(Seq(Nat)) /\ Len(<<>>) = 0
<1>1. Len(<<>>) = 0 /\ <<>> \in Seq(Seq(Nat))
  OBVIOUS
<1>2. QED BY <1>1 DEF Values

LEMMA NumberIsValue ==
  ASSUME NEW n \in Nat
  PROVE  <<n>> \in Seq(Nat)
OBVIOUS

LEMMA BackgroundValues ==
  ASSUME MainInv, ValuesInv, SetBackground
  PROVE  Values(vct_data', Len(vct_index'))
<1>1. PICK n \in Nat : n = Len(vct_index) /\ Len(vct_data) = n + 1 /\ Vector(vct_data, n, bck)
  BY MainIs DEF MainInv
<1>2. PICK b : vct_data' = [vct_data EXCEPT ![n + 1] = b] /\ vct_index' = vct_index
  BY <1>1 DEF SetBackground
<1>3. PICK d : d = [vct_data EXCEPT ![n + 1] = b]
  OBVIOUS
<1>4. \A j \in 1 .. n + 1 : d[j] = IF j = n + 1 THEN b ELSE vct_data[j]
  <2>1. n + 1 \in 1 .. n + 1
    OBVIOUS
  <2>2. QED BY <1>1, <1>3, <2>1, ExceptVector
<1>5. \A j \in 1 .. n : d[j] = vct_data[j]
  <2>1. \A j \in 1 .. n : j \in 1 .. n + 1 /\ j # n + 1
    OBVIOUS
  <2>2. QED BY <1>4, <2>1
<1>6. QED BY <1>1, <1>2, <1>3, <1>5 DEF ValuesInv, Values

LEMMA InsertValues ==
  ASSUME NEW data, NEW n, NEW b, Vector(data, n, b), Values(data, n),
         NEW at \in 1 .. n + 1, NEW e, e \in Seq(Nat)
  PROVE  Values(InsertAt(data, at, e), n + 1)
<1>1. PICK S : data \in Seq(S)
  BY DEF Vector
<1>2. PICK T : T = S \cup {e}
  OBVIOUS
<1>3. data \in Seq(T) /\ e \in T
  BY <1>1, <1>2, SeqMonotonic
<1>4. n \in Nat /\ Len(data) = n + 1
  BY DEF Vector
<1>5. at \in 1 .. Len(data) + 1
  BY <1>4
<1>6. \A i \in 1 .. Len(data) + 1 :
        InsertAt(data, at, e)[i] = IF i < at THEN data[i] ELSE IF i = at THEN e ELSE data[i - 1]
  BY <1>3, <1>5, InsertAtIs
<1>7. PICK d : d = InsertAt(data, at, e)
  OBVIOUS
<1>8. \A i \in 1 .. n : data[i] \in Seq(Nat)
  BY DEF Values
<1>9. ASSUME NEW j \in 1 .. n + 1 PROVE d[j] \in Seq(Nat)
  <2>1. j \in 1 .. Len(data) + 1
    BY <1>4
  <2>2. d[j] = IF j < at THEN data[j] ELSE IF j = at THEN e ELSE data[j - 1]
    BY <1>6, <1>7, <2>1
  <2>3. CASE j < at
    <3>1. j \in 1 .. n
      BY <1>4, <2>3
    <3>2. QED BY <1>8, <2>2, <2>3, <3>1
  <2>4. CASE j = at
    BY <1>4, <2>2, <2>4
  <2>5. CASE at < j
    <3>1. j - 1 \in 1 .. n /\ ~(j < at) /\ j # at
      BY <1>4, <2>5
    <3>2. d[j] = data[j - 1]
      BY <2>2, <3>1
    <3>3. QED BY <1>8, <3>1, <3>2
  <2>6. QED BY <1>4, <2>3, <2>4, <2>5
<1>10. QED BY <1>7, <1>9 DEF Values

LEMMA InsertFlushValues ==
  ASSUME MainInv, ValuesInv, NEW k \in Key, InsertFlush(k)
  PROVE  Values(vct_data', Len(vct_index'))
<1>1. PICK n \in Nat : n = Len(vct_index) /\ Len(vct_data) = n + 1 /\ Vector(vct_data, n, bck)
  BY MainIs DEF MainInv
<1>2. Rising(vct_index) /\ k \in Nat /\ k # -1
  BY KeysAre DEF MainInv
<1>3. PICK id, v : id = SearchNoBck(k).id /\ v = SearchNoBck(k).v
  OBVIOUS
<1>4. Belongs(vct_index, k, id) /\ v = IF id < n THEN vct_index[id + 1] ELSE -1
  BY <1>1, <1>2, <1>3, SearchNoBckIs
<1>5. PICK at \in 1 .. n + 1 : at = id + 1
  BY <1>1, <1>4 DEF Belongs
<1>6. PICK e : e = <<next>> /\ e \in Seq(Nat)
  BY NumberIsValue DEF ValuesInv
<1>7. \A j \in 1 .. n : vct_data[j] \in Seq(Nat)
  BY <1>1 DEF ValuesInv, Values
<1>8. CASE v = k
  <2>1. PICK d : d = [vct_data EXCEPT ![at] = e]
    OBVIOUS
  <2>2. vct_data' = d /\ vct_index' = vct_index
    BY <1>3, <1>5, <1>6, <1>8, <2>1 DEF InsertFlush
  <2>3. \A j \in 1 .. n + 1 : d[j] = IF j = at THEN e ELSE vct_data[j]
    BY <1>1, <2>1, ExceptVector
  <2>4. \A j \in 1 .. n : d[j] \in Seq(Nat)
    <3>1. \A j \in 1 .. n : j \in 1 .. n + 1
      OBVIOUS
    <3>2. QED BY <1>6, <1>7, <2>3, <3>1
  <2>5. QED BY <1>1, <2>2, <2>4 DEF Values
<1>9. CASE v # k
  <2>1. PICK d, idx : d = InsertAt(vct_data, at, e) /\ idx = InsertAt(vct_index, at, k)
    OBVIOUS
  <2>2. vct_data' = d /\ vct_index' = idx
    BY <1>3, <1>5, <1>6, <1>9, <2>1 DEF InsertFlush
  <2>3. Len(idx) = n + 1
    <3>1. id < n => vct_index[id + 1] # k
      BY <1>4, <1>9
    <3>2. QED BY <1>1, <1>2, <1>4, <1>5, <2>1, <3>1, InsertRises
  <2>4. Values(d, n + 1)
    BY <1>1, <1>6, <2>1, InsertValues DEF ValuesInv
  <2>5. QED BY <2>2, <2>3, <2>4
<1>10. QED BY <1>8, <1>9

LEMMA NothingValues ==
  ASSUME MainInv, ValuesInv, FlushOnDeviceNothing
  PROVE  Values(vct_data', Len(vct_index'))
<1>1. PICK n \in Nat : n = Len(vct_index) /\ Vector(vct_data, n, bck)
  BY MainIs DEF MainInv
<1>2. PICK f, d : f = Front(vct_data) /\ d = Append(f, bck)
  OBVIOUS
<1>3. vct_data' = d /\ vct_index' = vct_index
  BY <1>2 DEF FlushOnDeviceNothing
<1>4. (\E S : f \in Seq(S)) /\ Len(f) = n /\ \A i \in 1 .. n : f[i] = vct_data[i]
  BY <1>1, <1>2, FrontIs
<1>5. \A i \in 1 .. n : d[i] = f[i]
  BY <1>2, <1>4, AppendVector
<1>6. QED BY <1>1, <1>3, <1>4, <1>5 DEF ValuesInv, Values

LEMMA RemoveValues ==
  ASSUME MainInv, RemInv, ValuesInv, FlushRemove
  PROVE  Values(vct_data', Len(vct_index'))
<1>1. PICK keys \in Seq(Nat) :
        LET m == Merge(vct_index, Increasing(ToSet(keys)))
            stays == StaysIn(m, Len(vct_index))
            came == RealignRemove(stays, [p \in DOMAIN m |-> m[p].from])
        IN  /\ vct_index' = RealignRemove(stays, [p \in DOMAIN m |-> m[p].key])
            /\ vct_data' = Append(Permuted(vct_data, came), bck)
            /\ bck' = bck
  BY RemovedKeysAre
<1>2. PICK a, b : a = vct_index /\ b = Increasing(ToSet(keys)) /\ Rising(a) /\ Rising(b)
  BY <1>1, ToSetFinite, IncreasingRises DEF MainInv
<1>3. PICK la \in Nat, lb \in Nat : la = Len(a) /\ lb = Len(b)
  BY <1>2 DEF Rising
<1>4. PICK n \in Nat : n = la + lb
  OBVIOUS
<1>5. PICK m, stays : m = Merge(a, b) /\ stays = StaysIn(m, la)
  OBVIOUS
<1>6. Merged(a, b, m, n)
  BY <1>2, <1>3, <1>4, <1>5, MergeOfRising
<1>7. DOMAIN m = 1 .. n /\ \A p \in 1 .. n : m[p].from \in 1 .. n
  BY <1>3, <1>4, <1>6 DEF Merged, IsEntry
<1>8. /\ Predicate(stays, n)
      /\ \A p \in Kept(stays) : p \in 1 .. n /\ m[p].from <= la
  BY <1>5, <1>6, StaysInIs
<1>9. PICK k \in Nat : k = Cardinality(Kept(stays))
  BY <1>8, KeptCounts
<1>10. PICK from, keyed : from = [p \in 1 .. n |-> m[p].from] /\ keyed = [p \in 1 .. n |-> m[p].key]
  OBVIOUS
<1>11. PICK came, idx : came = RealignRemove(stays, from) /\ idx = RealignRemove(stays, keyed)
  OBVIOUS
<1>12. came = [i \in 1 .. k |-> from[Nth(stays, i)]] /\ idx = [i \in 1 .. k |-> keyed[Nth(stays, i)]]
  BY <1>8, <1>9, <1>11, RealignRemoveIs
<1>13. vct_index' = idx /\ vct_data' = Append(Permuted(vct_data, came), bck)
  BY <1>1, <1>2, <1>3, <1>5, <1>7, <1>10, <1>11
<1>14. PICK d : d = Permuted(vct_data, came)
  OBVIOUS
<1>15. d = [i \in 1 .. k |-> vct_data[came[i]]]
  BY <1>12, <1>14 DEF Permuted
<1>16. ASSUME NEW i \in 1 .. k PROVE d[i] \in Seq(Nat)
  <2>1. PICK p : p = Nth(stays, i) /\ p \in 1 .. n /\ m[p].from <= la
    BY <1>8, <1>9, KeptPlaces
  <2>2. came[i] = m[p].from /\ m[p].from \in 1 .. n
    BY <1>7, <1>10, <1>12, <2>1
  <2>3. came[i] \in 1 .. la
    BY <1>4, <2>1, <2>2
  <2>4. QED BY <1>2, <1>3, <1>15, <2>3 DEF ValuesInv, Values
<1>17. (\E S : d \in Seq(S)) /\ Len(d) = k
  <2>1. d = [i \in 1 .. k |-> d[i]]
    BY <1>15
  <2>2. QED BY <2>1, FunctionIsSeq
<1>18. PICK e : e = Append(d, bck)
  OBVIOUS
<1>19. \A i \in 1 .. k : e[i] = d[i]
  BY <1>17, <1>18, AppendVector
<1>20. Len(idx) = k
  BY <1>12
<1>21. QED BY <1>13, <1>14, <1>16, <1>18, <1>19, <1>20 DEF Values

LEMMA ValuesInit == Init => ValuesInv /\ WaitInv
<1> SUFFICES ASSUME Init PROVE ValuesInv /\ WaitInv
  OBVIOUS
<1>1. /\ vct_index = <<>> /\ vct_add_index = <<>> /\ vct_add_data = <<>> /\ next = 1
      /\ other.index = <<>> /\ other.add_index = <<>> /\ other.add_data = <<>>
  BY DEF Init
<1>2. QED BY <1>1, EmptyValues DEF ValuesInv, WaitInv

LEMMA ValuesStep == SvInv /\ ValuesInv /\ WaitInv /\ [Next]_vars => ValuesInv'
<1> SUFFICES ASSUME SvInv, ValuesInv, WaitInv, [Next]_vars PROVE ValuesInv'
  OBVIOUS
<1>0. MainInv /\ AddInv /\ RemInv
  BY DEF SvInv
<1>a. Values(vct_data, Len(vct_index)) /\ Values(other.data, Len(other.index)) /\ next \in Nat
  BY DEF ValuesInv
<1>1. next' \in Nat
  <2>1. UNCHANGED next \/ next' = next + 1 \/ next' = next + 2
    BY DEF Next, vars, Insert, InsertFlush, PreFlush, InsertKernel, RemoveKernel, SetBackground,
           SetGPUInsertBuffer, SetGPURemoveBuffer, FlushOnHost, FlushOnDeviceNothing,
           FlushOnDevice, FlushRemove, Clear, Swap, RemoveUnusedBuffers
  <2>2. QED BY <1>a, <2>1
<1>2. CASE Swap
  <2>1. /\ vct_index' = other.index /\ vct_data' = other.data
        /\ other' = [index |-> vct_index, data |-> vct_data,
                     add_index |-> vct_add_index, add_data |-> vct_add_data]
    BY <1>2 DEF Swap
  <2>2. other'.index = vct_index /\ other'.data = vct_data
    BY <2>1
  <2>3. QED BY <1>a, <1>1, <2>1, <2>2 DEF ValuesInv
<1>3. CASE ~Swap
  <2>1. UNCHANGED other
    BY <1>3 DEF Next, vars, Insert, InsertFlush, PreFlush, InsertKernel, RemoveKernel, SetBackground,
       SetGPUInsertBuffer, SetGPURemoveBuffer, FlushOnHost, FlushOnDeviceNothing,
       FlushOnDevice, FlushRemove, Clear, RemoveUnusedBuffers
  <2>2. Values(vct_data', Len(vct_index'))
    <3>1. CASE UNCHANGED main
      BY <1>a, <3>1 DEF main
    <3>2. ASSUME NEW k \in Key, InsertFlush(k) PROVE Values(vct_data', Len(vct_index'))
      BY <1>0, <3>2, InsertFlushValues
    <3>3. CASE SetBackground
      BY <1>0, <3>3, BackgroundValues
    <3>4. CASE FlushOnHost
      BY <1>0, <3>4, HostFlushOrder
    <3>5. CASE FlushOnDeviceNothing
      BY <1>0, <3>5, NothingValues
    <3>6. CASE FlushOnDevice
      BY <1>0, <3>6, DeviceFlushOrder
    <3>7. CASE FlushRemove
      BY <1>0, <3>7, RemoveValues
    <3>8. CASE Clear
      BY <3>8, EmptyValues DEF Clear
    <3>9. UNCHANGED main \/ (\E k \in Key : InsertFlush(k)) \/ SetBackground \/ FlushOnHost
          \/ FlushOnDeviceNothing \/ FlushOnDevice \/ FlushRemove \/ Clear
      BY <1>3 DEF Next, vars, Insert, PreFlush, InsertKernel, RemoveKernel,
         SetGPUInsertBuffer, SetGPURemoveBuffer, RemoveUnusedBuffers
    <3>10. QED BY <3>1, <3>2, <3>3, <3>4, <3>5, <3>6, <3>7, <3>8, <3>9
  <2>3. QED BY <1>a, <1>1, <2>1, <2>2 DEF ValuesInv
<1>4. QED BY <1>2, <1>3

\* A pool of values is as long as it was, and holds values.
LEMMA StoredValues ==
  ASSUME NEW pool \in Seq(Seq(Nat)), NEW nslot, NEW at, NEW e \in Seq(Nat), NEW inc \in BOOLEAN
  PROVE  /\ Stored(pool, nslot, at, e, inc, Junk) \in Seq(Seq(Nat))
         /\ Len(Stored(pool, nslot, at, e, inc, Junk)) = Len(pool)
<1>1. PICK n \in Nat : n = Len(pool) /\ DOMAIN pool = 1 .. n
  OBVIOUS
<1>2. PICK V : V = Seq(Nat)
  OBVIOUS
<1>3. Junk \in V /\ e \in V /\ \A i \in 1 .. n : pool[i] \in V
  BY <1>1, <1>2 DEF Junk
<1>4. PICK f : f = Stored(pool, nslot, at, e, inc, Junk)
  OBVIOUS
<1>5. PICK last : f = [i \in 1 .. n |-> IF i = at THEN e ELSE IF inc \/ i > last THEN pool[i] ELSE Junk]
  BY <1>1, <1>4 DEF Stored
<1>6. f \in [1 .. n -> V]
  BY <1>3, <1>5
<1>7. f \in Seq(V) /\ Len(f) = n
  BY <1>6
<1>8. QED BY <1>1, <1>2, <1>4, <1>7

LEMMA JunkStored ==
  ASSUME NEW n \in Nat
  PROVE  [i \in 1 .. n |-> Junk] \in Seq(Seq(Nat)) /\ Len([i \in 1 .. n |-> Junk]) = n
<1>1. PICK f, V : f = [i \in 1 .. n |-> Junk] /\ V = Seq(Nat)
  OBVIOUS
<1>2. Junk \in V
  BY <1>1 DEF Junk
<1>3. f \in [1 .. n -> V]
  BY <1>1, <1>2
<1>4. f \in Seq(V) /\ Len(f) = n
  BY <1>3
<1>5. QED BY <1>1, <1>4

LEMMA WaitStep == SvInv /\ ValuesInv /\ WaitInv /\ [Next]_vars => WaitInv'
<1> SUFFICES ASSUME SvInv, ValuesInv, WaitInv, [Next]_vars PROVE WaitInv'
  OBVIOUS
<1>0. vct_add_index \in Seq(Nat) /\ next \in Nat /\ n_add_slot \in Nat
  BY DEF SvInv, AddInv, ValuesInv
<1>a. /\ vct_add_data \in Seq(Seq(Nat)) /\ other.add_data \in Seq(Seq(Nat))
      /\ ~device \/ n_add_slot > 0 => Len(vct_add_data) = Len(vct_add_index)
      /\ ~device => Len(other.add_data) = Len(other.add_index)
  BY DEF WaitInv
<1>b. device' <=> device
  BY DEF device, Next, vars, Insert, InsertFlush, PreFlush, InsertKernel, RemoveKernel, SetBackground,
         SetGPUInsertBuffer, SetGPURemoveBuffer, FlushOnHost, FlushOnDeviceNothing,
         FlushOnDevice, FlushRemove, Clear, Swap, RemoveUnusedBuffers
<1>c. PICK L \in Nat : L = Len(vct_add_index) /\ DOMAIN vct_add_index = 1 .. L
  BY <1>0
<1>1. CASE Swap
  <2>1. /\ vct_add_index' = other.add_index /\ vct_add_data' = other.add_data
        /\ n_add_slot = 0 /\ n_add_slot' = n_add_slot
        /\ other' = [index |-> vct_index, data |-> vct_data,
                     add_index |-> vct_add_index, add_data |-> vct_add_data]
    BY <1>1 DEF Swap
  <2>2. other'.add_index = vct_add_index /\ other'.add_data = vct_add_data
    BY <2>1
  <2>3. ~(n_add_slot' > 0)
    BY <2>1
  <2>4. QED BY <1>a, <1>b, <2>1, <2>2, <2>3 DEF WaitInv
<1>2. ASSUME other' = other, vct_add_data' \in Seq(Seq(Nat)),
             \/ Len(vct_add_data') = Len(vct_add_index')
             \/ device /\ ~(n_add_slot' > 0)
      PROVE  WaitInv'
  BY <1>a, <1>b, <1>2 DEF WaitInv
<1>3. CASE UNCHANGED <<vct_add_index, vct_add_data, n_add_slot, other>>
  BY <1>a, <1>b, <1>3 DEF WaitInv
<1>4. ASSUME NEW k \in Key, Insert(k) PROVE WaitInv'
  <2>1. /\ vct_add_index' = Append(vct_add_index, k) /\ vct_add_data' = Append(vct_add_data, <<next>>)
        /\ n_add_slot' = n_add_slot /\ other' = other
    BY <1>4 DEF Insert
  <2>2. PICK e : e = <<next>> /\ e \in Seq(Nat)
    BY <1>0, NumberIsValue
  <2>3. vct_add_data' \in Seq(Seq(Nat)) /\ Len(vct_add_data') = Len(vct_add_data) + 1
    BY <1>a, <2>1, <2>2
  <2>4. Len(vct_add_index') = L + 1
    <3>1. k \in Nat
      BY KeysAre
    <3>2. QED BY <1>0, <1>c, <2>1, <3>1
  <2>5. QED BY <1>2, <1>a, <1>c, <2>1, <2>3, <2>4
<1>5. ASSUME NEW j \in Key, NEW k \in Key, PreFlush(j, k) PROVE WaitInv'
  <2>1. /\ vct_add_index' = <<j, k>> /\ vct_add_data' = <<<<next>>, <<next + 1>>>> /\ other' = other
    BY <1>5 DEF PreFlush
  <2>2. PICK d, e : d = <<next>> /\ d \in Seq(Nat) /\ e = <<next + 1>> /\ e \in Seq(Nat)
    <3>1. next + 1 \in Nat
      BY <1>0
    <3>2. QED BY <1>0, <3>1, NumberIsValue
  <2>3. <<d, e>> \in Seq(Seq(Nat)) /\ Len(<<d, e>>) = 2 /\ Len(<<j, k>>) = 2
    BY <2>2
  <2>4. vct_add_data' = <<d, e>>
    BY <2>1, <2>2
  <2>5. QED BY <1>2, <2>1, <2>3, <2>4
<1>6. ASSUME NEW b \in 1 .. NBlock, NEW k \in Key, NEW inc \in BOOLEAN, InsertKernel(b, k, inc)
      PROVE  WaitInv'
  <2>1. PICK at, e :
          /\ vct_add_index' = Stored(vct_add_index, n_add_slot, at, k, inc, NoKey)
          /\ vct_add_data' = Stored(vct_add_data, n_add_slot, at, e, inc, Junk)
          /\ e = <<next>> /\ n_add_slot > 0 /\ n_add_slot' = n_add_slot /\ other' = other
    BY <1>6 DEF InsertKernel
  <2>2. e \in Seq(Nat)
    BY <1>0, <2>1, NumberIsValue
  <2>3. vct_add_data' \in Seq(Seq(Nat)) /\ Len(vct_add_data') = L
    <3>1. PICK f, d, s : f = vct_add_data' /\ d = vct_add_data /\ s = n_add_slot
      OBVIOUS
    <3>2. f = Stored(d, s, at, e, inc, Junk)
      BY <2>1, <3>1
    <3>3. d \in Seq(Seq(Nat)) /\ Len(d) = L
      BY <1>a, <1>c, <2>1, <3>1
    <3>4. f \in Seq(Seq(Nat)) /\ Len(f) = Len(d)
      BY <2>2, <3>2, <3>3, StoredValues
    <3>5. QED BY <3>1, <3>3, <3>4
  <2>4. Len(vct_add_index') = L
    <3>1. PICK f : f = Stored(vct_add_index, n_add_slot, at, k, inc, NoKey)
      OBVIOUS
    <3>2. f \in Seq(Nat)
      BY <1>0, <3>1, KeysAre, StoredType
    <3>3. DOMAIN f = 1 .. L
      BY <1>c, <3>1 DEF Stored
    <3>4. QED BY <2>1, <3>1, <3>2, <3>3
  <2>5. QED BY <1>2, <2>1, <2>3, <2>4
<1>7. CASE SetGPUInsertBuffer
  <2>1. PICK n \in Nat : n = NBlock * NSlot
    <3>1. NBlock \in Nat /\ NSlot \in Nat
      BY SparseVectorAssumption
    <3>2. QED BY <3>1
  <2>2. /\ vct_add_index' = [i \in 1 .. n |-> NoKey] /\ vct_add_data' = [i \in 1 .. n |-> Junk]
        /\ other' = other
    BY <1>7, <2>1 DEF SetGPUInsertBuffer
  <2>3. QED BY <1>2, <2>2, JunkStored, NothingStored
<1>8. CASE FlushOnHost \/ Clear
  <2>1. vct_add_index' = <<>> /\ vct_add_data' = <<>> /\ other' = other
    BY <1>8 DEF FlushOnHost, Clear
  <2>2. QED BY <1>2, <2>1, EmptyValues
<1>9. CASE FlushOnDevice
  <2>1. /\ device /\ n_add_slot' = 0 /\ other' = other
        /\ vct_add_data' = [i \in DOMAIN vct_add_data |-> Junk]
    BY <1>9 DEF FlushOnDevice
  <2>2. PICK n \in Nat : DOMAIN vct_add_data = 1 .. n
    BY <1>a
  <2>3. vct_add_data' \in Seq(Seq(Nat))
    BY <2>1, <2>2, JunkStored
  <2>4. QED BY <1>2, <2>1, <2>3
<1>10. CASE RemoveUnusedBuffers
  <2>1. /\ n_add_slot = 0 /\ n_add_slot' = n_add_slot /\ (device \/ vct_add_index = <<>>)
        /\ vct_add_data' = <<>> /\ vct_add_index' = vct_add_index /\ other' = other
    BY <1>10 DEF RemoveUnusedBuffers
  <2>2. QED BY <1>2, <2>1, EmptyValues
<1>11. \/ UNCHANGED <<vct_add_index, vct_add_data, n_add_slot, other>>
       \/ (\E k \in Key : Insert(k)) \/ (\E j, k \in Key : PreFlush(j, k))
       \/ \E b \in 1 .. NBlock, k \in Key, inc \in BOOLEAN : InsertKernel(b, k, inc)
       \/ SetGPUInsertBuffer \/ FlushOnHost \/ Clear \/ FlushOnDevice \/ RemoveUnusedBuffers \/ Swap
  BY DEF Next, vars, adds, InsertFlush, RemoveKernel, SetBackground, SetGPURemoveBuffer,
         FlushOnDeviceNothing, FlushRemove
<1>12. QED BY <1>1, <1>3, <1>4, <1>5, <1>6, <1>7, <1>8, <1>9, <1>10, <1>11

-----------------------------------------------------------------------------
(* The theorems.                                                           *)

THEOREM VectorInvariant == Spec => []SvInv
<1>1. SvInv /\ [Next]_vars => SvInv'
  BY MainStep, OtherStep, AddStep, RemStep DEF SvInv
<1>2. QED BY <1>1, SvInit, PTL DEF Spec

\* After any sequence of insertions, flushes, removals, swaps and searches the
\* keys are strictly increasing with the background behind them
\* (map_vector_sparse.hpp, map_vector_sparse_cuda_kernels.cuh), for any block
\* size, pools and clients.
THEOREM IndexIsSorted == Spec => []IndexSorted
<1>1. ASSUME MainInv PROVE IndexSorted
  <2>1. \A i \in 1 .. Len(vct_index) - 1 : vct_index[i] < vct_index[i + 1]
    <3>1. PICK n \in Nat : n = Len(vct_index) /\ DOMAIN vct_index = 1 .. n
      BY <1>1 DEF MainInv, Rising
    <3>2. SUFFICES ASSUME NEW i \in 1 .. n - 1 PROVE vct_index[i] < vct_index[i + 1]
      BY <3>1
    <3>3. i \in 1 .. n /\ i + 1 \in 1 .. n /\ i < i + 1
      OBVIOUS
    <3>4. QED BY <1>1, <3>1, <3>3 DEF MainInv, Rising
  <2>2. Last(vct_data) = bck
    BY <1>1 DEF MainInv, Vector, Last
  <2>3. QED BY <2>1, <2>2 DEF IndexSorted
<1>2. SvInv => IndexSorted
  BY <1>1 DEF SvInv
<1>3. QED BY <1>2, VectorInvariant, PTL

\* The search without branches finds exactly the keys there are, and gives the
\* background for the others (_branchfree_search), for any number of keys.
THEOREM SearchIsExact == Spec => []SearchFinds
<1>1. ASSUME MainInv, NEW x \in Key
      PROVE  IF x \in ToSet(vct_index) THEN \E i \in DOMAIN vct_index : vct_index[i] = x /\ Search(x) = i - 1
             ELSE Search(x) = Len(vct_data) - 1
  <2>1. PICK n \in Nat :
          /\ n = Len(vct_index) /\ DOMAIN vct_index = 1 .. n /\ vct_index \in [1 .. n -> Nat]
          /\ Len(vct_data) = n + 1
    BY <1>1, MainIs
  <2>2. Rising(vct_index) /\ x \in Nat /\ x # -1
    BY <1>1, KeysAre DEF MainInv
  <2>3. PICK id, v : id = SearchNoBck(x).id /\ v = SearchNoBck(x).v
    OBVIOUS
  <2>4. Belongs(vct_index, x, id) /\ v = IF id < n THEN vct_index[id + 1] ELSE -1
    BY <2>1, <2>2, <2>3, SearchNoBckIs
  <2>5. id \in 0 .. n /\ \A i \in 1 .. n : i <= id <=> vct_index[i] < x
    BY <2>1, <2>4 DEF Belongs
  <2>6. Search(x) = IF v = x THEN id ELSE n
    BY <2>1, <2>3 DEF Search
  <2>7. ASSUME NEW i \in 1 .. n, vct_index[i] = x
        PROVE  v = x /\ Search(x) = i - 1
    <3>1. ~(i <= id)
      BY <2>1, <2>5, <2>7
    <3>2. PICK j \in 1 .. n : j = id + 1 /\ j <= i
      BY <2>5, <3>1
    <3>3. ~(vct_index[j] < x) /\ vct_index[j] \in Nat
      BY <2>1, <2>5, <3>2
    <3>4. j = i
      BY <2>1, <2>2, <2>7, <3>2, <3>3 DEF Rising
    <3>5. QED BY <2>4, <2>5, <2>6, <2>7, <3>2, <3>4
  <2>8. x \in ToSet(vct_index) <=> \E i \in 1 .. n : vct_index[i] = x
    BY <2>1 DEF ToSet
  <2>9. v = x => x \in ToSet(vct_index)
    BY <2>1, <2>2, <2>4, <2>5, <2>8
  <2>10. QED BY <2>1, <2>6, <2>7, <2>8, <2>9
<1>2. SvInv => SearchFinds
  BY <1>1 DEF SvInv, SearchFinds
<1>3. QED BY <1>2, VectorInvariant, PTL

\* A flush on the device reduces what a key had before what is new, and a flush
\* on the host the new before the old (data_merger against cpu_block_process):
\* what sLeft_ and sRight_ mean on either side, for any keys, pools and block size.
THEOREM OperandsInOrder == Spec => FlushOrder
<1>1. SvInv /\ ValuesInv /\ WaitInv /\ [Next]_vars => ValuesInv' /\ WaitInv'
  BY ValuesStep, WaitStep
<1>2. SvInv /\ ValuesInv /\ WaitInv /\ [Next]_vars =>
        [\A i \in DOMAIN vct_index, j \in DOMAIN vct_index' :
           (FlushOnHost \/ FlushOnDevice) /\ vct_index'[j] = vct_index[i] =>
             IF device THEN IsPrefix(vct_data[i], vct_data'[j]) ELSE IsSuffix(vct_data[i], vct_data'[j])
        ]_vars
  <2> SUFFICES ASSUME SvInv, ValuesInv, WaitInv, [Next]_vars,
                      NEW i \in DOMAIN vct_index, NEW j \in DOMAIN vct_index',
                      FlushOnHost \/ FlushOnDevice, vct_index'[j] = vct_index[i]
               PROVE  IF device THEN IsPrefix(vct_data[i], vct_data'[j])
                      ELSE IsSuffix(vct_data[i], vct_data'[j])
    OBVIOUS
  <2>1. MainInv /\ AddInv /\ MainInv'
    BY MainStep DEF SvInv
  <2>2. i \in 1 .. Len(vct_index) /\ j \in 1 .. Len(vct_index')
    BY <2>1 DEF MainInv, Rising
  <2>3. CASE FlushOnHost
    <3>1. ~device
      BY <2>3 DEF FlushOnHost
    <3>2. Behind(vct_index, vct_data, vct_index', vct_data')
      BY <2>1, <2>3, HostFlushOrder
    <3>3. IsSuffix(vct_data[i], vct_data'[j])
      BY <2>2, <3>2 DEF Behind
    <3>4. QED BY <3>1, <3>3
  <2>4. CASE FlushOnDevice
    <3>1. device
      BY <2>4 DEF FlushOnDevice
    <3>2. Onto(vct_index, vct_data, vct_index', vct_data')
      BY <2>1, <2>4, DeviceFlushOrder
    <3>3. IsPrefix(vct_data[i], vct_data'[j])
      BY <2>2, <3>2 DEF Onto
    <3>4. QED BY <3>1, <3>3
  <2>5. QED BY <2>3, <2>4
<1>3. QED BY <1>1, <1>2, ValuesInit, VectorInvariant, PTL DEF Spec, FlushOrder

=============================================================================
