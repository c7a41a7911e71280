------------------------ MODULE SparseVectorMap_proof ------------------------
(***************************************************************************)
(* That SparseVector implements ReducedMap, for any keys, size of a thread *)
(* block, pools, backgrounds and clients.  A value is the sequence of the  *)
(* numbers of the insertions reduced into it.  Every number that was given *)
(* out is in one value, or waits in one slot of one insert buffer, or is   *)
(* gone: then a reduction never joins values that share a number, and the  *)
(* bag of a key is the set of its numbers.  With that, what a flush makes  *)
(* of the runs of equal keys, of the merge and of the compaction is the    *)
(* old bag and what waited; and the other calls change the map as their    *)
(* names say.                                                              *)
(***************************************************************************)
EXTENDS SparseVector_proof

-----------------------------------------------------------------------------
(* Values as the sets of numbers they hold.                                *)

\* v holds the numbers of S, each once.
Plain(v) == v \in Seq(Nat) /\ \A i, j \in DOMAIN v : v[i] = v[j] => i = j
Holds(v, S) == Plain(v) /\ ToSet(v) = S

LEMMA OneHolds ==
  ASSUME NEW n \in Nat
  PROVE  Holds(<<n>>, {n})
<1>1. PICK v : v = <<n>>
  OBVIOUS
<1>2. v \in Seq(Nat) /\ DOMAIN v = {1} /\ v[1] = n
  BY <1>1
<1>3. ToSet(v) = {n}
  BY <1>2 DEF ToSet
<1>4. QED BY <1>1, <1>2, <1>3 DEF Holds, Plain

LEMMA JoinHolds ==
  ASSUME NEW a, NEW b, NEW A, NEW B, Holds(a, A), Holds(b, B), A \cap B = {}
  PROVE  Holds(a \o b, A \cup B)
<1>1. a \in Seq(Nat) /\ b \in Seq(Nat)
  BY DEF Holds, Plain
<1>2. PICK m \in Nat, n \in Nat : m = Len(a) /\ DOMAIN a = 1 .. m /\ n = Len(b) /\ DOMAIN b = 1 .. n
  BY <1>1
<1>3. PICK c : c = a \o b
  OBVIOUS
<1>4. /\ c \in Seq(Nat) /\ DOMAIN c = 1 .. m + n
      /\ \A i \in 1 .. m + n : c[i] = IF i <= m THEN a[i] ELSE b[i - m]
  BY <1>1, <1>2, <1>3
<1>5. A = {a[i] : i \in 1 .. m} /\ B = {b[i] : i \in 1 .. n}
  BY <1>2 DEF Holds, ToSet
<1>6. \A i \in 1 .. m : a[i] \in A
  BY <1>5
<1>7. \A i \in 1 .. n : b[i] \in B
  BY <1>5
<1>8. ASSUME NEW i \in 1 .. m + n
      PROVE  \/ i \in 1 .. m /\ c[i] = a[i] /\ c[i] \in A
             \/ i - m \in 1 .. n /\ c[i] = b[i - m] /\ c[i] \in B
  <2>1. CASE i <= m
    <3>1. i \in 1 .. m
      BY <2>1
    <3>2. QED BY <1>4, <1>6, <2>1, <3>1
  <2>2. CASE ~(i <= m)
    <3>1. i - m \in 1 .. n
      BY <2>2
    <3>2. QED BY <1>4, <1>7, <2>2, <3>1
  <2>3. QED BY <2>1, <2>2
<1>9. ASSUME NEW i \in 1 .. m + n, NEW j \in 1 .. m + n, c[i] = c[j]
      PROVE  i = j
  <2>1. CASE i \in 1 .. m /\ j \in 1 .. m /\ c[i] = a[i] /\ c[j] = a[j]
    BY <1>2, <1>9, <2>1 DEF Holds, Plain
  <2>2. CASE i - m \in 1 .. n /\ j - m \in 1 .. n /\ c[i] = b[i - m] /\ c[j] = b[j - m]
    <3>1. i - m = j - m
      BY <1>2, <1>9, <2>2 DEF Holds, Plain
    <3>2. QED BY <3>1
  <2>3. c[i] \in A => c[j] \notin B
    BY <1>9
  <2>4. c[i] \in B => c[j] \notin A
    BY <1>9
  <2>5. QED BY <1>8, <2>1, <2>2, <2>3, <2>4
<1>10. ToSet(c) = A \cup B
  <2>1. ToSet(c) = {c[i] : i \in 1 .. m + n}
    BY <1>4 DEF ToSet
  <2>2. ASSUME NEW x \in A PROVE x \in ToSet(c)
    <3>1. PICK i \in 1 .. m : x = a[i]
      BY <1>5
    <3>2. i \in 1 .. m + n /\ c[i] = x
      BY <1>4, <3>1
    <3>3. QED BY <2>1, <3>2
  <2>3. ASSUME NEW x \in B PROVE x \in ToSet(c)
    <3>1. PICK i \in 1 .. n : x = b[i]
      BY <1>5
    <3>2. PICK j \in 1 .. m + n : j = i + m /\ ~(j <= m) /\ j - m = i
      OBVIOUS
    <3>3. c[j] = x
      BY <1>4, <3>1, <3>2
    <3>4. QED BY <2>1, <3>3
  <2>4. \A x \in ToSet(c) : x \in A \cup B
    BY <1>8, <2>1
  <2>5. QED BY <2>2, <2>3, <2>4
<1>11. QED BY <1>3, <1>4, <1>9, <1>10 DEF Holds, Plain

\* A fold over values of one number each, all different.
Single(x, w, n) ==
  /\ x \in Nat /\ \A i \in 1 .. n : w[i] \in Nat /\ w[i] # x
  /\ \A i, j \in 1 .. n : w[i] = w[j] => i = j

LEMMA FoldHolds ==
  ASSUME NEW x, NEW w, NEW n \in Nat, Single(x, w, n),
         NEW s, \A i \in 1 .. n : s[i] = <<w[i]>>,
         NEW f, IsFold(f, <<x>>, s, n)
  PROVE  Holds(f[1 .. n], {x} \cup {w[i] : i \in 1 .. n})
<1> DEFINE Of(t) == {x} \cup {w[i] : i \in t}
           Bad == {k \in Nat : \E t \in SUBSET (1 .. n) : Cardinality(t) = k /\ ~Holds(f[t], Of(t))}
<1>1. SUFFICES ASSUME ~Holds(f[1 .. n], Of(1 .. n)) PROVE FALSE
  OBVIOUS
<1>2. Bad # {}
  <2>1. PICK t : t = 1 .. n /\ t \in SUBSET (1 .. n)
    OBVIOUS
  <2>2. PICK k \in Nat : k = Cardinality(t)
    BY <2>1, SubsetsCount
  <2>3. k \in Bad
    BY <1>1, <2>1, <2>2
  <2>4. QED BY <2>3
<1>3. PICK k \in Bad : \A m \in Bad : k <= m
  <2>1. Bad \subseteq Nat
    OBVIOUS
  <2> HIDE DEF Bad
  <2>2. QED BY <1>2, <2>1, LeastNat
<1>4. PICK t \in SUBSET (1 .. n) : Cardinality(t) = k /\ ~Holds(f[t], Of(t))
  OBVIOUS
<1>5. f[t] = FoldTo(f, <<x>>, s, t)
  <2>1. PICK h : h = [u \in SUBSET (1 .. n) |-> FoldTo(f, <<x>>, s, u)]
    OBVIOUS
  <2>2. f = h
    BY <2>1 DEF IsFold
  <2>3. h[t] = FoldTo(f, <<x>>, s, t)
    BY <2>1
  <2>4. QED BY <2>2, <2>3
<1>6. t # {}
  <2>1. SUFFICES ASSUME t = {} PROVE FALSE
    OBVIOUS
  <2>2. f[t] = <<x>>
    BY <1>5, <2>1 DEF FoldTo
  <2>3. Of(t) = {x}
    BY <2>1
  <2>4. Holds(<<x>>, {x})
    BY OneHolds DEF Single
  <2>5. QED BY <1>4, <2>2, <2>3, <2>4
<1>7. PICK u : u = t \ {Max(t)} /\ u \in SUBSET (1 .. n) /\ Max(t) \in 1 .. n /\ Cardinality(u) = k - 1
  BY <1>4, <1>6, SubsetsCount
<1>8. Holds(f[u], Of(u))
  <2>1. k \in Nat /\ k - 1 \in Nat /\ ~(k <= k - 1)
    <3>1. PICK c \in Nat : c = Cardinality(u)
      BY <1>7, SubsetsCount
    <3>2. k \in Nat
      OBVIOUS
    <3>3. QED BY <1>7, <3>1, <3>2
  <2>2. k - 1 \notin Bad
    <3> HIDE DEF Bad
    <3>1. QED BY <1>3, <2>1
  <2>3. QED BY <1>7, <2>1, <2>2
<1>9. PICK l \in 1 .. n : l = Max(t) /\ l \in t
  <2>1. Max(t) \in t
    BY <1>4, <1>6, MaxIs
  <2>2. QED BY <1>7, <2>1
<1>10. f[t] = f[u] \o <<w[l]>>
  BY <1>5, <1>6, <1>7, <1>9 DEF FoldTo, Red
<1>11. w[l] \in Nat /\ w[l] # x
  BY <1>9 DEF Single
<1>12. Holds(<<w[l]>>, {w[l]})
  BY <1>11, OneHolds
<1>13. Of(u) \cap {w[l]} = {}
  <2>1. \A i \in u : i \in 1 .. n /\ i # l
    BY <1>7, <1>9
  <2>2. \A i \in u : w[i] # w[l]
    BY <1>9, <2>1 DEF Single
  <2>3. QED BY <1>11, <2>2
<1>14. Of(u) \cup {w[l]} = Of(t)
  BY <1>7, <1>9
<1> HIDE DEF Of
<1>15. Holds(f[u] \o <<w[l]>>, Of(u) \cup {w[l]})
  BY <1>8, <1>12, <1>13, JoinHolds
<1>16. QED BY <1>4, <1>10, <1>14, <1>15

LEMMA FoldLeftHolds ==
  ASSUME NEW x, NEW w, NEW n \in Nat, Single(x, w, n),
         NEW s, DOMAIN s = 1 .. n, \A i \in 1 .. n : s[i] = <<w[i]>>
  PROVE  Holds(FoldLeft(Red, <<x>>, s), {x} \cup {w[i] : i \in 1 .. n})
<1>1. PICK b : b = <<x>>
  OBVIOUS
<1> DEFINE F == CHOOSE f : IsFold(f, b, s, n)
<1>2. IsFold(F, b, s, n)
  BY FoldExists
<1>3. FoldLeft(Red, b, s) =
        (CHOOSE f : f = [t \in SUBSET DOMAIN s |->
                           IF t = {} THEN b ELSE Red(f[t \ {Max(t)}], s[Max(t)])])[DOMAIN s]
  BY DEF FoldLeft, MapThenFoldSet
<1>4. FoldLeft(Red, b, s) = F[1 .. n]
  BY <1>3 DEF IsFold, FoldTo
<1> HIDE DEF F
<1>5. Holds(F[1 .. n], {x} \cup {w[i] : i \in 1 .. n})
  BY <1>1, <1>2, FoldHolds
<1>6. QED BY <1>1, <1>4, <1>5

\* Where the runs of equal keys start and end: runs are all of sorted.
StartsOf(s, n, t, l) ==
  /\ n \in Nat /\ l \in Nat /\ s \in [1 .. n -> Nat] /\ t \in [1 .. l -> 1 .. n]
  /\ \A i, j \in 1 .. n : i <= j => s[i] <= s[j]
  /\ \A i, j \in 1 .. l : i < j => t[i] < t[j]
  /\ \A p \in 1 .. n : (\E i \in 1 .. l : t[i] = p) <=> (p = 1 \/ s[p - 1] # s[p])
RunEnd(t, n, l, i) == IF i = l THEN n ELSE t[i + 1] - 1

LEMMA SegmentsAre ==
  ASSUME NEW s, NotFalling(s)
  PROVE  /\ StartsOf(s, Len(s), Segments(s), Len(Segments(s)))
         /\ Segments(s) \in Seq(1 .. Len(s)) /\ Rising(Segments(s))
<1>1. PICK n \in Nat : n = Len(s) /\ DOMAIN s = 1 .. n /\ s \in [1 .. n -> Nat]
  BY DEF NotFalling
<1>2. PICK S : S = {p \in 1 .. n : p = 1 \/ s[p - 1] # s[p]}
  OBVIOUS
<1>3. PICK t : t = Segments(s) /\ t = Increasing(S)
  BY <1>1, <1>2 DEF Segments
<1>4. S \subseteq Nat /\ IsFiniteSet(S)
  <2>1. S \subseteq 1 .. n
    BY <1>2
  <2>2. S \subseteq Nat
    BY <2>1
  <2>3. IsFiniteSet(1 .. n)
    BY FS_Interval
  <2>4. IsFiniteSet(S)
    BY <2>1, <2>3, FS_Subset
  <2>5. QED BY <2>2, <2>4
<1>5. ToSet(t) = S
  BY <1>3, <1>4, IncreasingRises
<1>6. Rising(t) /\ t \in Seq(1 .. n)
  BY <1>1, <1>3, SegmentsIncrease
<1>7. PICK l \in Nat : l = Len(t) /\ DOMAIN t = 1 .. l /\ t \in [1 .. l -> 1 .. n]
  BY <1>6
<1>8. \A i, j \in 1 .. l : i < j => t[i] < t[j]
  BY <1>6, <1>7 DEF Rising
<1>9. \A p \in 1 .. n : (\E i \in 1 .. l : t[i] = p) <=> p \in S
  BY <1>5, <1>7 DEF ToSet
<1>10. \A i, j \in 1 .. n : i <= j => s[i] <= s[j]
  BY <1>1, NotFallingIs
<1>11. StartsOf(s, n, t, l)
  BY <1>1, <1>2, <1>7, <1>8, <1>9, <1>10 DEF StartsOf
<1>12. QED BY <1>1, <1>3, <1>6, <1>7, <1>11

OneRun(s, n, t, l, i) ==
  \A p \in 1 .. n : s[p] = s[t[i]] <=> t[i] <= p /\ p <= RunEnd(t, n, l, i)

LEMMA RunsEnd ==
  ASSUME NEW s, NEW n, NEW t, NEW l, StartsOf(s, n, t, l), NEW i \in 1 .. l
  PROVE  t[i] \in 1 .. n /\ RunEnd(t, n, l, i) \in 1 .. n /\ t[i] <= RunEnd(t, n, l, i)
<1>1. n \in Nat /\ l \in Nat /\ t[i] \in 1 .. n
  BY DEF StartsOf
<1>2. CASE i = l
  BY <1>1, <1>2 DEF RunEnd
<1>3. CASE i # l
  <2>1. i + 1 \in 1 .. l /\ i < i + 1
    BY <1>1, <1>3
  <2>2. PICK a \in 1 .. n, b \in 1 .. n : a = t[i] /\ b = t[i + 1] /\ a < b
    BY <2>1 DEF StartsOf
  <2>3. RunEnd(t, n, l, i) = b - 1
    BY <1>3, <2>2 DEF RunEnd
  <2>4. QED BY <1>1, <2>2, <2>3
<1>4. QED BY <1>2, <1>3

LEMMA RunsAre ==
  ASSUME NEW s, NEW n, NEW t, NEW l, StartsOf(s, n, t, l), NEW i \in 1 .. l
  PROVE  OneRun(s, n, t, l, i)
<1> SUFFICES ASSUME NEW p \in 1 .. n
             PROVE  s[p] = s[t[i]] <=> t[i] <= p /\ p <= RunEnd(t, n, l, i)
  BY DEF OneRun
<1>1. PICK a \in 1 .. n, e \in 1 .. n : a = t[i] /\ e = RunEnd(t, n, l, i) /\ a <= e
  BY RunsEnd
<1>2. /\ n \in Nat /\ l \in Nat /\ s \in [1 .. n -> Nat] /\ t \in [1 .. l -> 1 .. n]
      /\ \A g, h \in 1 .. n : g <= h => s[g] <= s[h]
      /\ \A g, h \in 1 .. l : g < h => t[g] < t[h]
      /\ \A q \in 1 .. n : (\E g \in 1 .. l : t[g] = q) <=> (q = 1 \/ s[q - 1] # s[q])
  BY DEF StartsOf
<1>3. ASSUME a <= p, p <= e, s[p] # s[a] PROVE FALSE
  <2> DEFINE Bad == {q \in 1 .. n : a <= q /\ q <= e /\ s[q] # s[a]}
  <2>1. p \in Bad
    BY <1>3
  <2>2. PICK q \in Bad : \A r \in Bad : q <= r
    <3>1. Bad \subseteq Nat
      OBVIOUS
    <3> HIDE DEF Bad
    <3>2. QED BY <2>1, <3>1, LeastNat
  <2>3. q \in 1 .. n /\ a <= q /\ q <= e /\ s[q] # s[a] /\ q # a
    OBVIOUS
  <2>4. PICK r \in 1 .. n : r = q - 1 /\ a <= r /\ r <= e /\ ~(q <= r)
    BY <1>2, <2>3
  <2>5. r \notin Bad
    <3> HIDE DEF Bad
    <3>1. QED BY <2>2, <2>4
  <2>6. s[r] = s[a]
    BY <2>4, <2>5
  <2>7. PICK j \in 1 .. l : t[j] = q
    <3>1. s[q - 1] # s[q]
      BY <2>3, <2>4, <2>6
    <3>2. QED BY <1>2, <2>3, <3>1
  <2>8. i < j
    <3>1. ~(j < i)
      BY <1>1, <1>2, <2>3, <2>7
    <3>2. i # j
      BY <1>1, <2>3, <2>7
    <3>3. QED BY <3>1, <3>2
  <2>9. i + 1 \in 1 .. l /\ (i + 1 < j \/ i + 1 = j) /\ i # l
    BY <1>2, <2>8
  <2>10. PICK b \in 1 .. n : b = t[i + 1] /\ b <= q
    <3>1. t[i + 1] \in 1 .. n /\ (i + 1 < j => t[i + 1] < t[j])
      BY <1>2, <2>9
    <3>2. QED BY <2>3, <2>7, <2>9, <3>1
  <2>11. e = b - 1
    BY <1>1, <2>9, <2>10 DEF RunEnd
  <2>12. QED BY <2>3, <2>10, <2>11
<1>4. ASSUME p < a, s[p] = s[a] PROVE FALSE
  <2>1. a = 1 \/ s[a - 1] # s[a]
    BY <1>1, <1>2
  <2>2. PICK r \in 1 .. n : r = a - 1 /\ p <= r /\ r <= a
    BY <1>2, <1>4
  <2>3. s[p] <= s[r] /\ s[r] <= s[a] /\ s[r] # s[a] /\ s[p] \in Nat /\ s[r] \in Nat /\ s[a] \in Nat
    BY <1>2, <1>4, <2>1, <2>2
  <2>4. QED BY <1>4, <2>3
<1>5. ASSUME p > e, s[p] = s[a] PROVE FALSE
  <2>1. i # l
    BY <1>1, <1>5 DEF RunEnd
  <2>2. i + 1 \in 1 .. l /\ i < i + 1
    BY <1>2, <2>1
  <2>3. PICK b \in 1 .. n : b = t[i + 1] /\ a < b
    BY <1>1, <1>2, <2>2, SMTT(20)
  <2>4. e = b - 1
    BY <1>1, <2>1, <2>3 DEF RunEnd
  <2>5. b = 1 \/ s[b - 1] # s[b]
    BY <1>2, <2>2, <2>3
  <2>6. PICK r \in 1 .. n : r = b - 1 /\ a <= r /\ r <= b /\ b <= p
    BY <1>5, <2>3, <2>4
  <2>7. s[a] <= s[r] /\ s[r] <= s[b] /\ s[b] <= s[p] /\ s[r] # s[b]
        /\ s[a] \in Nat /\ s[r] \in Nat /\ s[b] \in Nat
    BY <1>2, <2>3, <2>5, <2>6, SMTT(20)
  <2>8. QED BY <1>5, <2>7
<1>6. QED BY <1>1, <1>3, <1>4, <1>5

KeyStarts(s, n, t, l) == \A p \in 1 .. n : \E i \in 1 .. l : s[t[i]] = s[p]

LEMMA EveryKeyStarts ==
  ASSUME NEW s, NEW n, NEW t, NEW l, StartsOf(s, n, t, l)
  PROVE  KeyStarts(s, n, t, l)
<1> SUFFICES ASSUME NEW p \in 1 .. n PROVE \E i \in 1 .. l : s[t[i]] = s[p]
  BY DEF KeyStarts
<1>0. n \in Nat
  BY DEF StartsOf
<1> DEFINE Same == {q \in 1 .. n : s[q] = s[p]}
<1>1. p \in Same
  OBVIOUS
<1>2. PICK q \in Same : \A r \in Same : q <= r
  <2>1. Same \subseteq Nat
    OBVIOUS
  <2> HIDE DEF Same
  <2>2. QED BY <1>1, <2>1, LeastNat
<1>3. q \in 1 .. n /\ s[q] = s[p]
  OBVIOUS
<1>4. q = 1 \/ s[q - 1] # s[q]
  <2>1. SUFFICES ASSUME q # 1, s[q - 1] = s[q] PROVE FALSE
    OBVIOUS
  <2>2. PICK r \in 1 .. n : r = q - 1 /\ ~(q <= r)
    BY <1>0, <1>3, <2>1
  <2>3. r \in Same
    BY <1>3, <2>1, <2>2
  <2> HIDE DEF Same
  <2>4. QED BY <1>2, <2>2, <2>3
<1>5. PICK i \in 1 .. l : t[i] = q
  BY <1>3, <1>4 DEF StartsOf
<1>6. QED BY <1>3, <1>5

\* A reduction holds the numbers of its run, each once.
Numbers(data, n) ==
  /\ \A p \in 1 .. n : data[p][1] \in Nat /\ data[p] = <<data[p][1]>>
  /\ \A p, q \in 1 .. n : data[p][1] = data[q][1] => p = q

HoldsRun(data, n, s, t, i) ==
  Holds(Segreduce(data, t)[i], {data[p][1] : p \in {q \in 1 .. n : s[q] = s[t[i]]}})

LEMMA SegreduceHolds ==
  ASSUME NEW data \in Seq(Seq(Nat)), NEW n, Len(data) = n, Numbers(data, n),
         NEW s, NEW t, NEW l, StartsOf(s, n, t, l), t \in Seq(1 .. n), Len(t) = l, NEW i \in 1 .. l
  PROVE  HoldsRun(data, n, s, t, i)
<1>b. OneRun(s, n, t, l, i)
  BY RunsAre
<1>1. n \in Nat /\ l \in Nat /\ DOMAIN data = 1 .. n /\ DOMAIN t = 1 .. l
  BY DEF StartsOf
<1>2. PICK a \in 1 .. n, e \in 1 .. n : a = t[i] /\ e = RunEnd(t, n, l, i) /\ a <= e
  BY RunsEnd
<1> DEFINE End(j) == IF j = l THEN n ELSE t[j + 1] - 1
           Run(j) == SubSeq(data, t[j], End(j))
           One(j) == FoldLeft(Red, Head(Run(j)), Tail(Run(j)))
<1>3. Segreduce(data, t) = [j \in 1 .. l |-> One(j)]
  BY <1>1, Zenon DEF Segreduce
<1>4. Segreduce(data, t)[i] = One(i)
  <2> HIDE DEF One
  <2>1. QED BY <1>3
<1>5. PICK r : r = SubSeq(data, a, e)
  OBVIOUS
<1>6. Run(i) = r
  BY <1>2, <1>5 DEF RunEnd
<1>7. PICK m \in Nat : m = e - a
  BY <1>2
<1>8. r \in Seq(Seq(Nat)) /\ Len(r) = m + 1 /\ \A j \in 1 .. m + 1 : r[j] = data[a + j - 1]
  <2>1. PICK A : A = Seq(Nat)
    OBVIOUS
  <2>2. \A j \in a .. e : data[j] \in A
    BY <1>1, <1>2, <2>1
  <2>3. a \in Int /\ e \in Int /\ a <= e /\ e - a + 1 = m + 1
    BY <1>2, <1>7
  <2>4. /\ SubSeq(data, a, e) \in Seq(A) /\ Len(SubSeq(data, a, e)) = IF a <= e THEN e - a + 1 ELSE 0
        /\ \A j \in 1 .. e - a + 1 : SubSeq(data, a, e)[j] = data[a + j - 1]
    BY <2>2, <2>3, SubSeqProperties
  <2>5. QED BY <1>5, <2>1, <2>3, <2>4
<1>9. PICK w : w = [j \in 1 .. m |-> data[a + j][1]]
  OBVIOUS
<1>0. \A j \in 1 .. m : a + j \in 1 .. n /\ a + j # a /\ a <= a + j /\ a + j <= e
  <2>1. a \in Nat /\ e \in Nat /\ e <= n /\ 1 <= a /\ n \in Nat /\ e = a + m
    BY <1>1, <1>2, <1>7, SMTT(20)
  <2>2. QED BY <2>1
<1>10. \A j \in 1 .. m : a + j \in 1 .. n /\ w[j] = data[a + j][1]
  BY <1>0, <1>9
<1>11. Head(r) = <<data[a][1]>>
  <2>1. r # <<>> /\ Head(r) = r[1]
    BY <1>8
  <2>2. r[1] = data[a]
    <3>1. 1 \in 1 .. m + 1 /\ a + 1 - 1 = a
      BY <1>2
    <3>2. QED BY <1>8, <3>1
  <2>3. QED BY <1>2, <2>1, <2>2 DEF Numbers
<1>12. DOMAIN Tail(r) = 1 .. m /\ \A j \in 1 .. m : Tail(r)[j] = <<w[j]>>
  <2>1. PICK A : r \in Seq(A)
    BY <1>8
  <2>2. Tail(r) \in Seq(A) /\ Len(Tail(r)) = m /\ \A j \in 1 .. m : Tail(r)[j] = r[j + 1]
    BY <1>8, <2>1
  <2>3. ASSUME NEW j \in 1 .. m PROVE Tail(r)[j] = <<w[j]>>
    <3>1. j + 1 \in 1 .. m + 1 /\ a + (j + 1) - 1 = a + j
      BY <1>2
    <3>2. Tail(r)[j] = data[a + j]
      BY <1>8, <2>2, <3>1
    <3>3. PICK p \in 1 .. n : p = a + j
      BY <1>10
    <3>4. data[p] = <<data[p][1]>> /\ w[j] = data[p][1]
      BY <1>10, <3>3 DEF Numbers
    <3>5. QED BY <3>2, <3>3, <3>4
  <2>4. DOMAIN Tail(r) = 1 .. m
    <3>1. PICK u : u = Tail(r) /\ u \in Seq(A) /\ Len(u) = m
      BY <2>2
    <3>2. DOMAIN u = 1 .. m
      BY <3>1
    <3>3. QED BY <3>1, <3>2
  <2>5. QED BY <2>3, <2>4
<1>13. Single(data[a][1], w, m)
  <2>1. PICK x : x = data[a][1] /\ x \in Nat
    BY <1>2 DEF Numbers
  <2>2. ASSUME NEW j \in 1 .. m PROVE w[j] \in Nat /\ w[j] # x
    <3>1. PICK p \in 1 .. n : p = a + j /\ p # a
      BY <1>0
    <3>2. w[j] = data[p][1]
      BY <1>10, <3>1
    <3>3. QED BY <1>2, <2>1, <3>1, <3>2 DEF Numbers
  <2>3. ASSUME NEW g \in 1 .. m, NEW h \in 1 .. m, w[g] = w[h] PROVE g = h
    <3>1. PICK p \in 1 .. n : p = a + g /\ w[g] = data[p][1]
      BY <1>10
    <3>2. PICK q \in 1 .. n : q = a + h /\ w[h] = data[q][1]
      BY <1>10
    <3>3. p = q
      BY <2>3, <3>1, <3>2 DEF Numbers
    <3>4. QED BY <1>2, <3>1, <3>2, <3>3
  <2>4. Single(x, w, m)
    BY <2>1, <2>2, <2>3 DEF Single
  <2>5. QED BY <2>1, <2>4
<1>14. Holds(FoldLeft(Red, <<data[a][1]>>, Tail(r)), {data[a][1]} \cup {w[j] : j \in 1 .. m})
  <2>1. PICK x, u : x = data[a][1] /\ u = Tail(r)
    OBVIOUS
  <2>2. Single(x, w, m) /\ DOMAIN u = 1 .. m /\ \A j \in 1 .. m : u[j] = <<w[j]>>
    BY <1>12, <1>13, <2>1
  <2>3. Holds(FoldLeft(Red, <<x>>, u), {x} \cup {w[j] : j \in 1 .. m})
    BY <2>2, FoldLeftHolds
  <2>4. QED BY <2>1, <2>3
<1>15. {data[a][1]} \cup {w[j] : j \in 1 .. m} = {data[p][1] : p \in {q \in 1 .. n : s[q] = s[t[i]]}}
  <2> DEFINE All == {data[p][1] : p \in {q \in 1 .. n : s[q] = s[t[i]]}}
  <2>1. \A p \in 1 .. n : s[p] = s[t[i]] <=> a <= p /\ p <= e
    <3>1. t[i] = a /\ RunEnd(t, n, l, i) = e
      BY <1>2
    <3>2. QED BY <1>b, <3>1 DEF OneRun
  <2>2. data[a][1] \in All
    BY <1>2, <2>1
  <2>3. ASSUME NEW j \in 1 .. m PROVE w[j] \in All
    <3>1. a + j \in 1 .. n /\ a <= a + j /\ a + j <= e
      BY <1>0
    <3>2. QED BY <1>10, <2>1, <3>1
  <2>4. ASSUME NEW p \in 1 .. n, s[p] = s[t[i]], p # a
        PROVE  \E j \in 1 .. m : data[p][1] = w[j]
    <3>1. PICK j \in 1 .. m : j = p - a /\ a + j = p
      <4>1. a <= p /\ p <= e /\ p # a
        BY <2>1, <2>4
      <4>2. a \in Nat /\ p \in Nat /\ e = a + m
        BY <1>1, <1>2, <1>7, SMTT(20)
      <4>3. QED BY <4>1, <4>2
    <3>2. w[j] = data[a + j][1]
      BY <1>10
    <3>3. QED BY <3>1, <3>2
  <2>5. ASSUME NEW x \in All PROVE x = data[a][1] \/ \E j \in 1 .. m : x = w[j]
    <3>1. PICK p \in 1 .. n : s[p] = s[t[i]] /\ x = data[p][1]
      OBVIOUS
    <3>2. CASE p = a
      BY <3>1, <3>2
    <3>3. CASE p # a
      BY <2>4, <3>1, <3>3
    <3>4. QED BY <3>2, <3>3
  <2>6. {data[a][1]} \cup {w[j] : j \in 1 .. m} = All
    <3> HIDE DEF All
    <3>1. QED BY <2>2, <2>3, <2>5
  <2>7. QED BY <2>6
<1>16. One(i) = FoldLeft(Red, <<data[a][1]>>, Tail(r))
  BY <1>6, <1>11
<1> HIDE DEF One
<1>17. QED BY <1>4, <1>14, <1>15, <1>16 DEF HoldsRun

\* What waits in slots S: one number in each, all different.
OneEach(data, S) ==
  /\ \A s \in S : data[s][1] \in Nat /\ data[s] = <<data[s][1]>>
  /\ \A s, t \in S : data[s][1] = data[t][1] => s = t
\* The numbers that wait for key k.
For(index, data, S, k) == {data[s][1] : s \in {t \in S : index[t] = k}}
Reduces(index, data, S, keys, unique) ==
  /\ Rising(keys) /\ Len(unique) = Len(keys) /\ DOMAIN unique = 1 .. Len(keys)
  /\ ToSet(keys) = {index[s] : s \in S}
  /\ \A i \in 1 .. Len(keys) : Holds(unique[i], For(index, data, S, keys[i]))

\* The reductions of what waits hold, for each key, its numbers.
LEMMA ReducedHolds ==
  ASSUME NEW index, index \in Seq(Nat), NEW data, data \in Seq(Seq(Nat)),
         NEW L \in Nat, Len(index) = L, Len(data) = L,
         NEW slots, slots \in Seq(1 .. L), Once(slots), NEW S, S = ToSet(slots), OneEach(data, S),
         NEW sorted, sorted = Permuted(index, slots), NotFalling(sorted),
         NEW st, st = Segments(sorted)
  PROVE  Reduces(index, data, S, Permuted(sorted, st), Segreduce(Permuted(data, slots), st))
<1>1. PICK n \in Nat :
        /\ n = Len(slots) /\ DOMAIN slots = 1 .. n /\ slots \in [1 .. n -> 1 .. L] /\ L \in Nat
  <2>1. PICK T : T = 1 .. L
    OBVIOUS
  <2>2. slots \in Seq(T)
    BY <2>1
  <2>3. Len(slots) \in Nat /\ DOMAIN slots = 1 .. Len(slots) /\ slots \in [1 .. Len(slots) -> T]
    BY <2>2
  <2>4. QED BY <2>1, <2>3
<1>2. PICK A : A = Seq(Nat)
  OBVIOUS
<1>3. DOMAIN index = 1 .. L /\ DOMAIN data = 1 .. L /\ Into(index, L, Nat) /\ Into(data, L, A)
  <2>1. Into(index, L, Nat)
    BY DEF Into
  <2>2. data \in Seq(A)
    BY <1>2
  <2>3. Into(data, L, A)
    BY <2>2 DEF Into
  <2>4. QED BY <2>1, <2>3 DEF Into
<1>4. /\ Len(sorted) = n /\ DOMAIN sorted = 1 .. n
      /\ \A p \in 1 .. n : sorted[p] = index[slots[p]]
  <2>1. PICK B, o : B = Nat /\ o = slots
    OBVIOUS
  <2>2. Into(index, L, B) /\ o \in Seq(1 .. L) /\ L \in Nat
    BY <1>1, <1>3, <2>1
  <2>3. /\ Len(Permuted(index, o)) = Len(o) /\ DOMAIN Permuted(index, o) = 1 .. Len(o)
        /\ \A i \in 1 .. Len(o) : Permuted(index, o)[i] = index[o[i]]
    BY <2>2, PermutedIn
  <2>4. QED BY <1>1, <2>1, <2>3
<1>5. PICK d : d = Permuted(data, slots)
  OBVIOUS
<1>6. d \in Seq(A) /\ Len(d) = n /\ \A p \in 1 .. n : d[p] = data[slots[p]]
  <2>1. PICK o : o = slots
    OBVIOUS
  <2>2. Into(data, L, A) /\ o \in Seq(1 .. L) /\ L \in Nat
    BY <1>1, <1>3, <2>1
  <2>3. /\ Permuted(data, o) \in Seq(A) /\ Len(Permuted(data, o)) = Len(o)
        /\ \A i \in 1 .. Len(o) : Permuted(data, o)[i] = data[o[i]]
    BY <2>2, PermutedIn
  <2>4. QED BY <1>1, <1>5, <2>1, <2>3
<1>7. S = {slots[p] : p \in 1 .. n} /\ \A p \in 1 .. n : slots[p] \in S
  BY <1>1 DEF ToSet
<1>8. Numbers(d, n)
  <2>1. ASSUME NEW p \in 1 .. n PROVE d[p][1] \in Nat /\ d[p] = <<d[p][1]>>
    <3>1. PICK x : x = slots[p]
      OBVIOUS
    <3>2. x \in S /\ d[p] = data[x]
      BY <1>6, <1>7, <3>1
    <3>3. data[x][1] \in Nat /\ data[x] = <<data[x][1]>>
      BY <3>2 DEF OneEach
    <3>4. QED BY <3>2, <3>3
  <2>2. ASSUME NEW p \in 1 .. n, NEW q \in 1 .. n, d[p][1] = d[q][1] PROVE p = q
    <3>1. slots[p] = slots[q]
      <4>1. PICK x, y : x = slots[p] /\ y = slots[q]
        OBVIOUS
      <4>2. x \in S /\ y \in S /\ data[x][1] = data[y][1]
        BY <1>6, <1>7, <2>2, <4>1
      <4>3. QED BY <4>1, <4>2 DEF OneEach
    <3>2. QED BY <1>1, <3>1 DEF Once
  <2>3. QED BY <2>1, <2>2 DEF Numbers
<1>a. StartsOf(sorted, Len(sorted), st, Len(st)) /\ st \in Seq(1 .. Len(sorted)) /\ Rising(st)
  BY SegmentsAre
<1>b. StartsOf(sorted, n, st, Len(st)) /\ st \in Seq(1 .. n) /\ Rising(st)
  BY <1>4, <1>a
<1>9. PICK l \in Nat : l = Len(st) /\ DOMAIN st = 1 .. l /\ st \in [1 .. l -> 1 .. n]
  <2>1. PICK T : T = 1 .. n
    OBVIOUS
  <2>2. st \in Seq(T)
    BY <1>b, <2>1
  <2>3. Len(st) \in Nat /\ DOMAIN st = 1 .. Len(st) /\ st \in [1 .. Len(st) -> T]
    BY <2>2
  <2>4. QED BY <2>1, <2>3
<1>10. StartsOf(sorted, n, st, l) /\ st \in Seq(1 .. n) /\ Rising(st)
  BY <1>b, <1>9
<1>11. PICK keys : keys = Permuted(sorted, st)
  OBVIOUS
<1>12. Rising(keys) /\ Len(keys) = l /\ DOMAIN keys = 1 .. l
  <2>1. Rising(keys)
    BY <1>11, SegmentsRise
  <2>2. Len(keys) = l
    BY <1>9, <1>11, SegmentsIncrease
  <2>3. QED BY <2>1, <2>2 DEF Rising
<1>13. \A i \in 1 .. l : keys[i] = sorted[st[i]]
  BY <1>9, <1>11 DEF Permuted
<1>14. PICK u : u = Segreduce(d, st)
  OBVIOUS
<1>15. Len(u) = l /\ DOMAIN u = 1 .. l
  BY <1>2, <1>6, <1>9, <1>10, <1>14, SegreduceIn
<1>16. ToSet(keys) = {index[s] : s \in S}
  <2>1. ToSet(keys) = {keys[i] : i \in 1 .. l}
    BY <1>12 DEF ToSet
  <2>2. ASSUME NEW i \in 1 .. l PROVE keys[i] \in {index[s] : s \in S}
    <3>1. PICK p \in 1 .. n : p = st[i]
      BY <1>9
    <3>2. keys[i] = index[slots[p]] /\ slots[p] \in S
      <4>1. keys[i] = sorted[p]
        BY <1>13, <3>1
      <4>2. QED BY <1>4, <1>7, <4>1
    <3>3. QED BY <3>2
  <2>3. ASSUME NEW s \in S PROVE index[s] \in ToSet(keys)
    <3>1. PICK p \in 1 .. n : s = slots[p]
      BY <1>7
    <3>2. PICK i \in 1 .. l : sorted[st[i]] = sorted[p]
      <4>1. KeyStarts(sorted, n, st, l)
        BY <1>10, EveryKeyStarts
      <4>2. QED BY <4>1 DEF KeyStarts
    <3>3. keys[i] = index[s]
      BY <1>4, <1>13, <3>1, <3>2
    <3>4. QED BY <2>1, <3>3
  <2>4. QED BY <2>1, <2>2, <2>3
<1>17. ASSUME NEW i \in 1 .. l PROVE Holds(u[i], For(index, data, S, keys[i]))
  <2>1. PICK k : k = keys[i] /\ k = sorted[st[i]]
    BY <1>13
  <2>2. d \in Seq(Seq(Nat)) /\ Len(d) = n /\ Len(st) = l
    BY <1>2, <1>6, <1>9
  <2>3. HoldsRun(d, n, sorted, st, i)
    BY <1>8, <1>10, <2>2, SegreduceHolds
  <2>4. {d[p][1] : p \in {q \in 1 .. n : sorted[q] = sorted[st[i]]}} = For(index, data, S, k)
    <3> DEFINE Mine == {d[p][1] : p \in {q \in 1 .. n : sorted[q] = sorted[st[i]]}}
    <3>1. ASSUME NEW p \in 1 .. n, sorted[p] = k
          PROVE  d[p][1] \in For(index, data, S, k)
      <4>1. slots[p] \in S /\ index[slots[p]] = k /\ d[p] = data[slots[p]]
        BY <1>4, <1>6, <1>7, <3>1
      <4>2. QED BY <4>1 DEF For
    <3>2. ASSUME NEW s \in S, index[s] = k PROVE data[s][1] \in Mine
      <4>1. PICK p \in 1 .. n : s = slots[p]
        BY <1>7
      <4>2. sorted[p] = sorted[st[i]] /\ d[p] = data[s]
        BY <1>4, <1>6, <2>1, <3>2, <4>1
      <4>3. QED BY <4>2
    <3>3. \A x \in Mine : x \in For(index, data, S, k)
      BY <2>1, <3>1
    <3>4. \A x \in For(index, data, S, k) : x \in Mine
      <4> HIDE DEF Mine
      <4>1. QED BY <3>2 DEF For
    <3>5. Mine = For(index, data, S, k)
      <4> HIDE DEF Mine
      <4>1. QED BY <3>3, <3>4
    <3>6. QED BY <3>5
  <2>5. QED BY <1>14, <2>1, <2>3, <2>4 DEF HoldsRun
<1>18. Reduces(index, data, S, keys, u)
  BY <1>12, <1>15, <1>16, <1>17 DEF Reduces
<1>19. QED BY <1>5, <1>11, <1>14, <1>18

-----------------------------------------------------------------------------
(* What merging two maps gives, on either side.                            *)

\* Key k of a, b or both has value v.
MergedValue(a, old, b, new, k, v) ==
  \/ k \in ToSet(a) /\ k \notin ToSet(b) /\ v = old[PlaceOf(a, k)]
  \/ k \notin ToSet(a) /\ k \in ToSet(b) /\ v = new[PlaceOf(b, k)]
  \/ /\ k \in ToSet(a) /\ k \in ToSet(b)
     /\ \/ v = old[PlaceOf(a, k)] \o new[PlaceOf(b, k)]
        \/ v = new[PlaceOf(b, k)] \o old[PlaceOf(a, k)]
MergesTo(a, old, b, new, index, data) ==
  /\ Rising(index) /\ ToSet(index) = ToSet(a) \cup ToSet(b)
  /\ \A j \in 1 .. Len(index) : MergedValue(a, old, b, new, index[j], data[j])

LEMMA LastEntryHas ==
  ASSUME NEW a, NEW b, Rising(a), Rising(b), NEW old, Len(old) = Len(a), NEW new,
         NEW m, NEW n, Merged(a, b, m, n), \A x \in Entries(a, b) : \E q \in 1 .. n : m[q] = x,
         NEW pred, pred = IsLast(m), NEW p \in 1 .. n, pred[p]
  PROVE  MergedValue(a, old, b, new, m[p].key, StandsFor(pred, m, old, new)[p])
<1>0. n \in Nat /\ DOMAIN m = 1 .. n /\ n = Len(a) + Len(b)
  BY DEF Merged
<1>2. \A q \in 1 .. n : pred[q] <=> q = n \/ m[q].key # m[q + 1].key
  BY IsLastIs
<1>3. PICK v : v = StandsFor(pred, m, old, new)[p]
  OBVIOUS
<1>4. v = IF p > 1 /\ ~pred[p - 1] THEN Both(m, old, new, p - 1) ELSE Came(m, old, new, m[p].from)
  BY <1>0, <1>3 DEF StandsFor
<1>5. PICK la \in Nat, lb \in Nat :
        la = Len(a) /\ lb = Len(b) /\ n = la + lb /\ DOMAIN a = 1 .. la /\ DOMAIN b = 1 .. lb
  <2>1. a \in Seq(Nat) /\ b \in Seq(Nat)
    BY DEF Rising
  <2>2. Len(a) \in Nat /\ DOMAIN a = 1 .. Len(a) /\ Len(b) \in Nat /\ DOMAIN b = 1 .. Len(b)
    BY <2>1
  <2>3. QED BY <1>0, <2>2
<1>6. \A q \in 1 .. n : /\ m[q].from \in 1 .. n
                        /\ m[q].from <= la => m[q].key = a[m[q].from]
                        /\ m[q].from > la => m[q].from - la \in 1 .. lb /\ m[q].key = b[m[q].from - la]
  BY <1>5 DEF Merged, IsEntry
<1>7. \A i, j \in 1 .. n : i < j /\ m[i].key = m[j].key => m[i].from <= la /\ m[j].from > la /\ j = i + 1
  BY <1>5 DEF Merged
<1>a. /\ \A i \in 1 .. la : a[i] \in ToSet(a) /\ PlaceOf(a, a[i]) = i
      /\ \A i \in 1 .. lb : b[i] \in ToSet(b) /\ PlaceOf(b, b[i]) = i
  BY <1>5, PlaceOfIs
<1>8. PICK k : k = m[p].key
  OBVIOUS
<1>b. PICK f \in 1 .. n : k = m[p].key /\ f = m[p].from
  BY <1>6, <1>8
<1>c. \A i \in 1 .. la : a[i] = k => \E q \in 1 .. n : m[q].key = k /\ m[q].from = i
  <2>1. SUFFICES ASSUME NEW i \in 1 .. la, a[i] = k PROVE \E q \in 1 .. n : m[q].key = k /\ m[q].from = i
    OBVIOUS
  <2>2. PICK x : x = [key |-> a[i], from |-> i]
    OBVIOUS
  <2>3. x \in Entries(a, b) /\ x.key = k /\ x.from = i
    BY <1>5, <2>1, <2>2 DEF Entries
  <2>4. QED BY <2>3
<1>d. \A i \in 1 .. lb : b[i] = k => \E q \in 1 .. n : m[q].key = k /\ m[q].from = la + i
  <2>1. SUFFICES ASSUME NEW i \in 1 .. lb, b[i] = k PROVE \E q \in 1 .. n : m[q].key = k /\ m[q].from = la + i
    OBVIOUS
  <2>2. PICK x : x = [key |-> b[i], from |-> la + i]
    OBVIOUS
  <2>3. x \in Entries(a, b) /\ x.key = k /\ x.from = la + i
    BY <1>5, <2>1, <2>2 DEF Entries
  <2>4. QED BY <2>3
<1>9. CASE p > 1 /\ ~pred[p - 1]
  <2>1. PICK o \in 1 .. n : o = p - 1 /\ p = o + 1
    BY <1>0, <1>9
  <2>2. m[o].key = k
    BY <1>2, <1>9, <1>b, <2>1
  <2>3. m[o].from <= la /\ f > la
    BY <1>7, <1>b, <2>1, <2>2
  <2>4. PICK i \in 1 .. la, j \in 1 .. lb : i = m[o].from /\ j = f - la
    BY <1>5, <1>6, <1>b, <2>3
  <2>5. a[i] = k /\ b[j] = k
    BY <1>6, <1>b, <2>2, <2>3, <2>4
  <2>6. k \in ToSet(a) /\ k \in ToSet(b) /\ PlaceOf(a, k) = i /\ PlaceOf(b, k) = j
    BY <1>a, <2>5
  <2>7. v = old[i] \o new[j]
    BY <1>4, <1>5, <1>9, <1>b, <2>1, <2>4 DEF Both, Red
  <2>8. QED BY <1>3, <1>b, <2>6, <2>7 DEF MergedValue
<1>10. CASE ~(p > 1 /\ ~pred[p - 1])
  <2>1. v = IF f <= la THEN old[f] ELSE new[f - la]
    BY <1>4, <1>5, <1>10, <1>b DEF Came
  <2>2. CASE f <= la
    <3>1. f \in 1 .. la /\ a[f] = k
      BY <1>5, <1>6, <1>b, <2>2
    <3>2. k \in ToSet(a) /\ PlaceOf(a, k) = f
      BY <1>a, <3>1
    <3>3. ASSUME k \in ToSet(b) PROVE FALSE
      <4>1. PICK i \in 1 .. lb : b[i] = k
        BY <1>5, <3>3 DEF ToSet
      <4>2. PICK q \in 1 .. n : m[q].key = k /\ m[q].from = la + i
        BY <1>d, <4>1
      <4>3. q # p /\ la + i > la
        BY <1>b, <2>2, <4>1, <4>2
      <4>4. ~(q < p)
        BY <1>7, <1>b, <4>2, <4>3
      <4>5. q = p + 1 /\ p # n
        BY <1>0, <1>7, <1>b, <4>2, <4>3, <4>4
      <4>6. QED BY <1>2, <1>b, <4>2, <4>5
    <3>4. QED BY <1>3, <1>b, <2>1, <2>2, <3>2, <3>3 DEF MergedValue
  <2>3. CASE ~(f <= la)
    <3>1. f - la \in 1 .. lb /\ b[f - la] = k
      BY <1>5, <1>6, <1>b, <2>3
    <3>2. k \in ToSet(b) /\ PlaceOf(b, k) = f - la
      BY <1>a, <3>1
    <3>3. ASSUME k \in ToSet(a) PROVE FALSE
      <4>1. PICK i \in 1 .. la : a[i] = k
        BY <1>5, <3>3 DEF ToSet
      <4>2. PICK q \in 1 .. n : m[q].key = k /\ m[q].from = i
        BY <1>c, <4>1
      <4>3. q # p
        BY <1>b, <2>3, <4>1, <4>2
      <4>4. ~(p < q)
        BY <1>7, <1>b, <4>1, <4>2, <4>3
      <4>5. p = q + 1 /\ p > 1 /\ p - 1 = q /\ q # n
        BY <1>0, <1>7, <1>b, <4>2, <4>3, <4>4
      <4>6. ~pred[q]
        BY <1>2, <1>b, <4>2, <4>5
      <4>7. QED BY <1>10, <4>5, <4>6
    <3>4. QED BY <1>3, <1>b, <2>1, <2>3, <3>2, <3>3 DEF MergedValue
  <2>4. QED BY <2>2, <2>3
<1>11. QED BY <1>9, <1>10

LEMMA DeviceMergesTo ==
  ASSUME NEW a, NEW b, Rising(a), Rising(b), NEW m, m = Merge(a, b),
         NEW old, Len(old) = Len(a), NEW new,
         NEW index, index = Realign(IsLast(m), ConflictKeys(m), NoKey),
         NEW data, data = Realign(IsLast(m), ConflictData(m, old, new), Junk)
  PROVE  MergesTo(a, old, b, new, index, data)
<1>1. PICK la \in Nat, lb \in Nat :
        la = Len(a) /\ lb = Len(b) /\ DOMAIN a = 1 .. la /\ DOMAIN b = 1 .. lb
  BY DEF Rising
<1>2. PICK n \in Nat : n = la + lb
  OBVIOUS
<1>3. Merged(a, b, m, n) /\ \A x \in Entries(a, b) : \E q \in 1 .. n : m[q] = x
  BY <1>1, <1>2, MergeOfRising
<1>4. DOMAIN m = 1 .. n
  BY <1>3 DEF Merged
<1>5. PICK pred : pred = IsLast(m)
  OBVIOUS
<1>6. /\ Predicate(pred, n) /\ NoTwo(pred, n)
      /\ \A q \in 1 .. n : pred[q] <=> q = n \/ m[q].key # m[q + 1].key
  BY <1>3, <1>5, IsLastIs
<1>7. PICK k \in Nat : k = Cardinality(Kept(pred))
  BY <1>6, KeptCounts
<1>8. PICK keys, vals : keys = [p \in 1 .. n |-> m[p].key] /\ vals = StandsFor(pred, m, old, new)
  OBVIOUS
<1>9. index = [i \in 1 .. k |-> keys[Nth(pred, i)]]
  <2>1. PICK out : out = ConflictKeys(m)
    OBVIOUS
  <2>2. Fills(pred, n, out, keys)
    BY <1>3, <1>5, <1>8, <2>1, ConflictKeysFill
  <2>3. index = Realign(pred, out, NoKey)
    BY <1>5, <2>1
  <2>4. QED BY <1>6, <1>7, <2>2, <2>3, RealignIs
<1>10. data = [i \in 1 .. k |-> vals[Nth(pred, i)]]
  <2>1. PICK out : out = ConflictData(m, old, new)
    OBVIOUS
  <2>2. Fills(pred, n, out, vals)
    BY <1>3, <1>5, <1>8, <2>1, ConflictDataFill
  <2>3. data = Realign(pred, out, Junk)
    BY <1>5, <2>1
  <2>4. QED BY <1>6, <1>7, <2>2, <2>3, RealignIs
<1>11. ASSUME NEW j \in 1 .. k
       PROVE  Nth(pred, j) \in 1 .. n /\ pred[Nth(pred, j)]
  <2>1. Nth(pred, j) \in Kept(pred)
    BY <1>6, <1>7, KeptPlaces
  <2>2. Kept(pred) \subseteq 1 .. n
    BY <1>6, KeptCounts
  <2>3. QED BY <2>1, <2>2 DEF Kept
<1>12. Len(index) = k /\ DOMAIN index = 1 .. k /\ \A j \in 1 .. k : index[j] = m[Nth(pred, j)].key
  BY <1>8, <1>9, <1>11
<1>13. Len(data) = k /\ \A j \in 1 .. k : data[j] = vals[Nth(pred, j)]
  BY <1>10
<1>14. \A p \in 1 .. n : pred[p] => \E j \in 1 .. k : Nth(pred, j) = p
  <2>1. SUFFICES ASSUME NEW p \in 1 .. n, pred[p] PROVE \E j \in 1 .. k : Nth(pred, j) = p
    OBVIOUS
  <2>2. Kept(pred) \subseteq Nat /\ IsFiniteSet(Kept(pred)) /\ p \in Kept(pred)
    <3>1. Kept(pred) \subseteq 1 .. n /\ IsFiniteSet(Kept(pred))
      BY <1>6, KeptCounts
    <3>2. DOMAIN pred = 1 .. n
      BY <1>6 DEF Predicate
    <3>3. QED BY <2>1, <3>1, <3>2 DEF Kept
  <2>3. PICK s : s = Increasing(Kept(pred))
    OBVIOUS
  <2>4. ToSet(s) = Kept(pred) /\ DOMAIN s = 1 .. k
    <3>1. ToSet(s) = Kept(pred)
      BY <2>2, <2>3, IncreasingRises
    <3>2. DOMAIN s = 1 .. k
      BY <1>7, <2>3 DEF Increasing
    <3>3. QED BY <3>1, <3>2
  <2>5. PICK j \in 1 .. k : s[j] = p
    BY <2>2, <2>4 DEF ToSet
  <2>6. QED BY <2>3, <2>5 DEF Nth
<1>15. Rising(index)
  BY FlushedKeysRise
<1>16. \A q \in 1 .. n : m[q].key \in ToSet(index)
  <2>1. SUFFICES ASSUME NEW q \in 1 .. n PROVE \E j \in 1 .. k : index[j] = m[q].key
    BY <1>12 DEF ToSet
  <2>2. PICK p \in 1 .. n : pred[p] /\ m[p].key = m[q].key
    <3>1. CASE pred[q]
      BY <3>1
    <3>2. CASE ~pred[q]
      <4>1. q < n /\ pred[q + 1] /\ q + 1 \in 1 .. n
        BY <1>6, <3>2 DEF NoTwo
      <4>2. m[q].key = m[q + 1].key
        BY <1>6, <3>2
      <4>3. QED BY <4>1, <4>2
    <3>3. QED BY <3>1, <3>2
  <2>3. QED BY <1>12, <1>14, <2>2
<1>17. ToSet(index) = ToSet(a) \cup ToSet(b)
  <2>1. ASSUME NEW j \in 1 .. k PROVE index[j] \in ToSet(a) \cup ToSet(b)
    <3>1. PICK p \in 1 .. n : p = Nth(pred, j) /\ index[j] = m[p].key
      BY <1>11, <1>12
    <3>2. \/ m[p].from \in 1 .. la /\ m[p].key = a[m[p].from]
          \/ m[p].from - la \in 1 .. lb /\ m[p].key = b[m[p].from - la]
      BY <1>1, <1>2, <1>3 DEF Merged, IsEntry
    <3>3. QED BY <1>1, <3>1, <3>2 DEF ToSet
  <2>2. ASSUME NEW i \in 1 .. la PROVE a[i] \in ToSet(index)
    <3>1. PICK x : x = [key |-> a[i], from |-> i]
      OBVIOUS
    <3>2. x \in Entries(a, b) /\ x.key = a[i]
      BY <1>1, <3>1 DEF Entries
    <3>3. QED BY <1>3, <1>16, <3>2
  <2>3. ASSUME NEW i \in 1 .. lb PROVE b[i] \in ToSet(index)
    <3>1. PICK x : x = [key |-> b[i], from |-> la + i]
      OBVIOUS
    <3>2. x \in Entries(a, b) /\ x.key = b[i]
      BY <1>1, <3>1 DEF Entries
    <3>3. QED BY <1>3, <1>16, <3>2
  <2>4. \A x \in ToSet(index) : x \in ToSet(a) \cup ToSet(b)
    BY <1>12, <2>1 DEF ToSet
  <2>5. \A x \in ToSet(a) \cup ToSet(b) : x \in ToSet(index)
    BY <1>1, <2>2, <2>3 DEF ToSet
  <2>6. QED BY <2>4, <2>5
<1>18. ASSUME NEW j \in 1 .. k PROVE MergedValue(a, old, b, new, index[j], data[j])
  <2>1. PICK p \in 1 .. n : p = Nth(pred, j) /\ pred[p]
    BY <1>11
  <2>2. MergedValue(a, old, b, new, m[p].key, StandsFor(pred, m, old, new)[p])
    BY <1>3, <1>5, <2>1, LastEntryHas, ZenonT(20)
  <2>3. QED BY <1>8, <1>12, <1>13, <2>1, <2>2
<1>19. QED BY <1>12, <1>15, <1>17, <1>18 DEF MergesTo

LEMMA HostMergesTo ==
  ASSUME NEW keys, Rising(keys), Rising(vct_index), NEW data,
         NEW index, index = HostMerge(keys, data).index, NEW d, d = HostMerge(keys, data).data
  PROVE  MergesTo(vct_index, vct_data, keys, data, index, d)
<1>1. PICK S : S = ToSet(keys) \cup ToSet(vct_index)
  OBVIOUS
<1>2. S \subseteq Nat /\ IsFiniteSet(S)
  <2>1. keys \in Seq(Nat) /\ vct_index \in Seq(Nat)
    BY DEF Rising
  <2>2. QED BY <1>1, <2>1, ToSetFinite, FS_Union
<1>3. PICK all : all = Increasing(S)
  OBVIOUS
<1>4. Rising(all) /\ ToSet(all) = S
  BY <1>2, <1>3, IncreasingRises
<1>5. PICK n \in Nat : n = Len(all) /\ DOMAIN all = 1 .. n
  BY <1>4 DEF Rising
<1>6. index = all /\ d = [i \in 1 .. n |-> HostValue(keys, data, all[i])]
  BY <1>1, <1>3, <1>5 DEF HostMerge, HostValue, PlaceOf
<1>7. \A i \in 1 .. n : d[i] = HostValue(keys, data, index[i]) /\ index[i] \in S
  BY <1>4, <1>5, <1>6 DEF ToSet
<1>8. ASSUME NEW k \in S
      PROVE  MergedValue(vct_index, vct_data, keys, data, k, HostValue(keys, data, k))
  BY <1>1 DEF MergedValue, HostValue, Red
<1>9. ToSet(index) = ToSet(vct_index) \cup ToSet(keys)
  BY <1>1, <1>4, <1>6
<1>10. QED BY <1>4, <1>5, <1>6, <1>7, <1>8, <1>9 DEF MergesTo

\* The numbers key k has.
NumbersAt(a, old, k) == IF k \in ToSet(a) THEN ToSet(old[PlaceOf(a, k)]) ELSE {}

\* Every key has what it had and what waited for it in slots S, each once.
FlushesTo(a, old, index, data, S, wi, wd) ==
  /\ Rising(index) /\ ToSet(index) = ToSet(a) \cup {wi[s] : s \in S}
  /\ \A j \in 1 .. Len(index) : Holds(data[j], NumbersAt(a, old, index[j]) \cup For(wi, wd, S, index[j]))

\* Nothing that waits is in a value already.
AllPlain(n, old) == \A i \in 1 .. n : Plain(old[i])
NotYetIn(n, old, S, wd) == \A s \in S, i \in 1 .. n : wd[s][1] \notin ToSet(old[i])

LEMMA MergedHolds ==
  ASSUME NEW a, Rising(a), NEW old, AllPlain(Len(a), old), NEW b, NEW new,
         NEW S, NEW wi, NEW wd, Reduces(wi, wd, S, b, new), NotYetIn(Len(a), old, S, wd),
         NEW index, NEW data, MergesTo(a, old, b, new, index, data)
  PROVE  FlushesTo(a, old, index, data, S, wi, wd)
<1>1. Rising(b) /\ ToSet(b) = {wi[s] : s \in S}
  BY DEF Reduces
<1>2. \A k \in ToSet(a) : Plain(old[PlaceOf(a, k)]) /\ \A s \in S : wd[s][1] \notin ToSet(old[PlaceOf(a, k)])
  BY PlaceOfIs DEF AllPlain, NotYetIn
<1>3. \A k \in ToSet(b) : Holds(new[PlaceOf(b, k)], For(wi, wd, S, k))
  <2>1. SUFFICES ASSUME NEW k \in ToSet(b) PROVE Holds(new[PlaceOf(b, k)], For(wi, wd, S, k))
    OBVIOUS
  <2>2. PICK i \in 1 .. Len(b) : i = PlaceOf(b, k)
    BY <1>1, PlaceOfIs
  <2>3. b[i] = k
    <3>1. PICK j \in 1 .. Len(b) : b[j] = k
      BY <1>1 DEF ToSet, Rising
    <3>2. PlaceOf(b, b[j]) = j
      BY <1>1, PlaceOfIs
    <3>3. QED BY <2>2, <3>1, <3>2
  <2>4. Holds(new[i], For(wi, wd, S, b[i]))
    BY DEF Reduces
  <2>5. QED BY <2>2, <2>3, <2>4
<1>4. ASSUME NEW k, k \notin ToSet(b) PROVE For(wi, wd, S, k) = {}
  BY <1>1, <1>4 DEF For
<1>5. ASSUME NEW k \in ToSet(a) PROVE NumbersAt(a, old, k) \cap For(wi, wd, S, k) = {}
  BY <1>2 DEF NumbersAt, For
<1>6. ASSUME NEW j \in 1 .. Len(index)
      PROVE  Holds(data[j], NumbersAt(a, old, index[j]) \cup For(wi, wd, S, index[j]))
  <2>1. PICK k, v : k = index[j] /\ v = data[j]
    OBVIOUS
  <2>2. MergedValue(a, old, b, new, k, v)
    BY <2>1 DEF MergesTo
  <2>3. PICK A, B : A = NumbersAt(a, old, k) /\ B = For(wi, wd, S, k)
    OBVIOUS
  <2>4. k \in ToSet(a) => Holds(old[PlaceOf(a, k)], A)
    BY <1>2, <2>3 DEF Holds, NumbersAt
  <2>5. k \in ToSet(b) => Holds(new[PlaceOf(b, k)], B)
    BY <1>3, <2>3
  <2>6. CASE k \in ToSet(a) /\ k \notin ToSet(b)
    <3>1. B = {}
      BY <1>4, <2>3, <2>6
    <3>2. v = old[PlaceOf(a, k)]
      BY <2>2, <2>6 DEF MergedValue
    <3>3. A \cup B = A
      BY <3>1
    <3>4. QED BY <2>1, <2>3, <2>4, <2>6, <3>2, <3>3
  <2>7. CASE k \notin ToSet(a) /\ k \in ToSet(b)
    <3>1. A \cup B = B
      BY <2>3, <2>7 DEF NumbersAt
    <3>2. v = new[PlaceOf(b, k)]
      BY <2>2, <2>7 DEF MergedValue
    <3>3. QED BY <2>1, <2>3, <2>5, <2>7, <3>1, <3>2
  <2>8. CASE k \in ToSet(a) /\ k \in ToSet(b)
    <3>1. PICK x, y : x = old[PlaceOf(a, k)] /\ y = new[PlaceOf(b, k)]
      OBVIOUS
    <3>2. Holds(x, A) /\ Holds(y, B) /\ A \cap B = {} /\ B \cap A = {}
      BY <1>5, <2>3, <2>4, <2>5, <2>8, <3>1
    <3>3. Holds(x \o y, A \cup B) /\ Holds(y \o x, B \cup A)
      BY <3>2, JoinHolds
    <3>4. B \cup A = A \cup B
      OBVIOUS
    <3>5. v = x \o y \/ v = y \o x
      BY <2>2, <2>8, <3>1 DEF MergedValue
    <3>6. Holds(v, A \cup B)
      BY <3>3, <3>4, <3>5
    <3>7. QED BY <2>1, <2>3, <3>6
  <2>9. k \in ToSet(a) \/ k \in ToSet(b)
    BY <2>2 DEF MergedValue
  <2>10. QED BY <2>6, <2>7, <2>8, <2>9
<1>7. QED BY <1>1, <1>6 DEF FlushesTo, MergesTo

-----------------------------------------------------------------------------
(* What waits in the insert buffer.                                        *)

\* The slots that wait, as AddSlots gives them, and as a set.
AddIn(dev, wi, count, nslot) ==
  IF ~dev THEN HostSlots(wi) ELSE IF nslot = 0 THEN <<>> ELSE UsedSlots(count, nslot)
WaitsIn(S, dev, wi, count, nslot) ==
  /\ S \subseteq DOMAIN wi
  /\ \A s : s \in S <=> IF ~dev THEN s \in DOMAIN wi ELSE nslot # 0 /\ Taken(count, nslot, s)

LEMMA AddInIs ==
  ASSUME NEW dev, NEW wi \in Seq(Nat), NEW count, NEW nslot \in Nat,
         dev /\ nslot > 0 => PoolsFit(wi, count, nslot)
  PROVE  WaitsIn(ToSet(AddIn(dev, wi, count, nslot)), dev, wi, count, nslot)
<1>1. PICK S : S = ToSet(AddIn(dev, wi, count, nslot))
  OBVIOUS
<1>2. CASE ~dev
  <2>1. S = ToSet(HostSlots(wi))
    BY <1>1, <1>2 DEF AddIn
  <2>2. ToSet(HostSlots(wi)) = DOMAIN wi
    BY DEF ToSet, HostSlots
  <2>3. QED BY <1>1, <1>2, <2>1, <2>2 DEF WaitsIn
<1>3. CASE dev /\ nslot = 0
  <2>1. AddIn(dev, wi, count, nslot) = <<>>
    BY <1>3 DEF AddIn
  <2>2. ToSet(<<>>) = {}
    BY DEF ToSet
  <2>3. QED BY <1>1, <1>3, <2>1, <2>2 DEF WaitsIn
<1>4. CASE dev /\ nslot # 0
  <2>1. PICK u : u = UsedSlots(count, nslot) /\ S = ToSet(u)
    BY <1>1, <1>4 DEF AddIn
  <2>2. PICK l \in Nat : l = Len(wi) /\ DOMAIN wi = 1 .. l
    OBVIOUS
  <2>3. u \in Seq(1 .. l) /\ AreTaken(u, count, nslot)
    BY <1>4, <2>1, <2>2, UsedSlotsAre
  <2>4. S \subseteq 1 .. l
    <3>1. PICK T : T = 1 .. l
      OBVIOUS
    <3>2. u \in Seq(T)
      BY <2>3, <3>1
    <3>3. \A i \in DOMAIN u : u[i] \in T
      BY <3>2
    <3>4. QED BY <2>1, <3>1, <3>3 DEF ToSet
  <2>5. QED BY <1>1, <1>4, <2>1, <2>2, <2>3, <2>4 DEF WaitsIn, AreTaken
<1>5. QED BY <1>2, <1>3, <1>4

\* A slot that a kernel leaves taken is the new one, or was taken before and
\* is not in a pool that the kernel started again.
LEMMA TakenNext ==
  ASSUME NEW count \in Seq(Nat), NEW nslot \in Nat, NEW b \in 1 .. NBlock, NEW inc \in BOOLEAN,
         NEW s, Taken(Counted(count, b, inc), nslot, s)
  PROVE  \/ s = TakenSlot(count, nslot, b, inc)
         \/ Taken(count, nslot, s) /\ (inc \/ s > nslot * NBlock)
<1>1. PICK m \in Nat : m = Len(count) /\ DOMAIN count = 1 .. m /\ \A c \in 1 .. m : count[c] \in Nat
  OBVIOUS
<1>a. PICK c \in 1 .. m : \E i \in 1 .. Counted(count, b, inc)[c] : s = nslot * (c - 1) + i
  BY <1>1 DEF Taken, Counted
<1>2. PICK i \in 1 .. Counted(count, b, inc)[c] : s = nslot * (c - 1) + i
  BY <1>a
<1>3. Counted(count, b, inc)[c] = (IF inc \/ c > NBlock THEN count[c] ELSE 0) + IF c = b THEN 1 ELSE 0
  BY <1>1 DEF Counted
<1>4. NBlock \in Nat \ {0} /\ b \in Nat \ {0} /\ b <= NBlock
  BY SparseVectorAssumption
<1>5. PICK n \in Nat : n = count[c]
  BY <1>1
<1>6. CASE i <= n /\ (inc \/ c > NBlock)
  <2>1. i \in 1 .. n
    BY <1>1, <1>3, <1>5, <1>6
  <2>2. Taken(count, nslot, s)
    BY <1>1, <1>2, <1>5, <2>1 DEF Taken
  <2>3. ASSUME c > NBlock PROVE s > nslot * NBlock
    <3>1. PICK d \in Nat : c = NBlock + 1 + d
      <4>1. c - NBlock - 1 \in Nat /\ c = NBlock + 1 + (c - NBlock - 1)
        BY <1>4, <2>3
      <4>2. QED BY <4>1
    <3>2. c - 1 = NBlock + d
      BY <1>4, <3>1
    <3>3. nslot * (NBlock + d) = nslot * NBlock + nslot * d /\ nslot * d \in Nat /\ nslot * NBlock \in Nat
      BY <1>4, SMT
    <3>4. PICK p \in Nat, q \in Nat : p = nslot * NBlock /\ q = nslot * d
      BY <3>3
    <3>5. s = p + q + i
      BY <1>2, <3>2, <3>3, <3>4
    <3>6. QED BY <2>1, <3>4, <3>5
  <2>4. QED BY <1>6, <2>2, <2>3
<1>7. CASE ~(i <= n /\ (inc \/ c > NBlock))
  <2>1. c = b /\ i = (IF inc THEN n ELSE 0) + 1
    BY <1>2, <1>3, <1>4, <1>5, <1>7
  <2>2. nslot * (b - 1) \in Nat
    <3>1. b - 1 \in Nat
      BY <1>4
    <3>2. \A x \in Nat : nslot * x \in Nat
      BY SMT
    <3>3. QED BY <3>1, <3>2
  <2>3. PICK k \in Nat : k = nslot * (b - 1)
    BY <2>2
  <2>4. s = k + i /\ TakenSlot(count, nslot, b, inc) = k + (IF inc THEN n ELSE 0) + 1
    BY <1>2, <1>5, <2>1, <2>3 DEF TakenSlot
  <2>5. QED BY <2>1, <2>3, <2>4
<1>8. QED BY <1>6, <1>7

-----------------------------------------------------------------------------
(* The numbers of the insertions: what a vector holds and what waits.      *)

\* Each value of a key holds numbers given out before n, each once.
Filled(index, data, n) ==
  \A i \in 1 .. Len(index) :
    index[i] \in Key /\ Plain(data[i]) /\ data[i] # <<>> /\ ToSet(data[i]) \subseteq 1 .. n - 1

\* In the slots S of the buffer numbers given out before n wait for keys, each
\* once, and none is in the vector.
Number(wi, wd, s, m, n) == wi[s] \in Key /\ wd[s] = <<wd[s][1]>> /\ wd[s][1] \in m .. n - 1
Differ(wd, S) == \A s, t \in S : wd[s][1] = wd[t][1] => s = t
Pair(index, data, wi, wd, S, n) ==
  /\ Filled(index, data, n)
  /\ \A s \in S : Number(wi, wd, s, 1, n)
  /\ Differ(wd, S)
  /\ NotYetIn(Len(index), data, S, wd)

\* S2 is S with new numbers, or part of it.
Grows(wi, wd, S, m, wi2, wd2, S2, n) ==
  /\ \A s \in S2 : \/ s \in S /\ wi2[s] = wi[s] /\ wd2[s] = wd[s]
                   \/ Number(wi2, wd2, s, m, n)
  /\ \A s, t \in S2 : Number(wi2, wd2, s, m, n) /\ wd2[s][1] = wd2[t][1] => s = t

LEMMA WaitersGrow ==
  ASSUME NEW index, NEW data, NEW wi, NEW wd, NEW S, NEW m \in Nat \ {0}, Pair(index, data, wi, wd, S, m),
         NEW wi2, NEW wd2, NEW S2, NEW n \in Nat, m <= n, Grows(wi, wd, S, m, wi2, wd2, S2, n)
  PROVE  Pair(index, data, wi2, wd2, S2, n)
<1>1. Filled(index, data, n)
  <2>1. 1 .. m - 1 \subseteq 1 .. n - 1
    OBVIOUS
  <2>2. Filled(index, data, m)
    BY DEF Pair
  <2>3. QED BY <2>1, <2>2 DEF Filled
<1>2. ASSUME NEW s \in S2 PROVE Number(wi2, wd2, s, 1, n)
  <2>1. CASE s \in S /\ wi2[s] = wi[s] /\ wd2[s] = wd[s]
    <3>1. Number(wi, wd, s, 1, m)
      BY <2>1 DEF Pair
    <3>2. QED BY <2>1, <3>1 DEF Number
  <2>2. CASE Number(wi2, wd2, s, m, n)
    BY <2>2 DEF Number
  <2>3. QED BY <2>1, <2>2 DEF Grows
<1>3. Differ(wd2, S2)
  <2>1. SUFFICES ASSUME NEW s \in S2, NEW t \in S2, wd2[s][1] = wd2[t][1] PROVE s = t
    BY DEF Differ
  <2>2. CASE Number(wi2, wd2, s, m, n)
    BY <2>1, <2>2 DEF Grows
  <2>3. CASE Number(wi2, wd2, t, m, n)
    BY <2>1, <2>3 DEF Grows
  <2>4. CASE ~Number(wi2, wd2, s, m, n) /\ ~Number(wi2, wd2, t, m, n)
    <3>1. s \in S /\ t \in S /\ wd2[s] = wd[s] /\ wd2[t] = wd[t]
      BY <2>4 DEF Grows
    <3>2. QED BY <2>1, <3>1 DEF Pair, Differ
  <2>5. QED BY <2>2, <2>3, <2>4
<1>4. NotYetIn(Len(index), data, S2, wd2)
  <2>1. SUFFICES ASSUME NEW s \in S2, NEW i \in 1 .. Len(index) PROVE wd2[s][1] \notin ToSet(data[i])
    BY DEF NotYetIn
  <2>2. CASE s \in S /\ wd2[s] = wd[s]
    BY <2>2 DEF Pair, NotYetIn
  <2>3. CASE Number(wi2, wd2, s, m, n)
    <3>1. ToSet(data[i]) \subseteq 1 .. m - 1
      BY DEF Pair, Filled
    <3>2. wd2[s][1] \notin 1 .. m - 1
      BY <2>3 DEF Number
    <3>3. QED BY <3>1, <3>2
  <2>4. QED BY <2>2, <2>3 DEF Grows
<1>5. QED BY <1>1, <1>2, <1>3, <1>4 DEF Pair

\* Values that were there before, and new numbers.
Keeps(index, data, m, index2, data2, n) ==
  \A j \in 1 .. Len(index2) :
    /\ index2[j] \in Key
    /\ \/ \E i \in 1 .. Len(index) : data2[j] = data[i]
       \/ \E x \in m .. n - 1 : data2[j] = <<x>>

LEMMA ValuesKept ==
  ASSUME NEW index, NEW data, NEW wi, NEW wd, NEW S, NEW m \in Nat \ {0}, Pair(index, data, wi, wd, S, m),
         NEW index2, NEW data2, NEW n \in Nat, m <= n, Keeps(index, data, m, index2, data2, n)
  PROVE  Pair(index2, data2, wi, wd, S, n)
<1>1. \A x \in Nat : Plain(<<x>>) /\ ToSet(<<x>>) = {x} /\ <<x>> # <<>>
  BY OneHolds DEF Holds
<1>2. ASSUME NEW j \in 1 .. Len(index2)
      PROVE  /\ index2[j] \in Key /\ Plain(data2[j]) /\ data2[j] # <<>> /\ ToSet(data2[j]) \subseteq 1 .. n - 1
             /\ \A s \in S : wd[s][1] \notin ToSet(data2[j])
  <2>1. index2[j] \in Key
    BY DEF Keeps
  <2>2. CASE \E i \in 1 .. Len(index) : data2[j] = data[i]
    <3>1. PICK i \in 1 .. Len(index) : data2[j] = data[i]
      BY <2>2
    <3>2. Plain(data[i]) /\ data[i] # <<>> /\ ToSet(data[i]) \subseteq 1 .. m - 1
      BY DEF Pair, Filled
    <3>3. \A s \in S : wd[s][1] \notin ToSet(data[i])
      BY DEF Pair, NotYetIn
    <3>4. 1 .. m - 1 \subseteq 1 .. n - 1
      OBVIOUS
    <3>5. QED BY <2>1, <3>1, <3>2, <3>3, <3>4
  <2>3. CASE \E x \in m .. n - 1 : data2[j] = <<x>>
    <3>1. PICK x \in m .. n - 1 : data2[j] = <<x>>
      BY <2>3
    <3>2. x \in Nat /\ x \in 1 .. n - 1 /\ x \notin 1 .. m - 1
      OBVIOUS
    <3>3. PICK v : v = data2[j]
      OBVIOUS
    <3>4. Plain(v) /\ ToSet(v) = {x} /\ v # <<>>
      BY <1>1, <3>1, <3>2, <3>3
    <3>5. \A s \in S : wd[s][1] \in 1 .. m - 1
      BY DEF Pair, Number
    <3>6. QED BY <2>1, <3>2, <3>3, <3>4, <3>5
  <2>4. QED BY <2>2, <2>3 DEF Keeps
<1>3. Filled(index2, data2, n)
  BY <1>2 DEF Filled
<1>4. \A s \in S : Number(wi, wd, s, 1, n)
  BY DEF Pair, Number
<1>5. Differ(wd, S)
  BY DEF Pair
<1>6. NotYetIn(Len(index2), data2, S, wd)
  BY <1>2 DEF NotYetIn
<1>7. QED BY <1>3, <1>4, <1>5, <1>6 DEF Pair

\* After a flush nothing waits, and the values have what waited.
LEMMA FlushFills ==
  ASSUME NEW index, Rising(index), NEW data, NEW wi, NEW wd, NEW S, NEW n \in Nat \ {0},
         Pair(index, data, wi, wd, S, n),
         NEW index2, NEW data2, FlushesTo(index, data, index2, data2, S, wi, wd),
         NEW wi2, NEW wd2
  PROVE  Pair(index2, data2, wi2, wd2, {}, n)
<1>1. ASSUME NEW j \in 1 .. Len(index2)
      PROVE  index2[j] \in Key /\ Plain(data2[j]) /\ data2[j] # <<>> /\ ToSet(data2[j]) \subseteq 1 .. n - 1
  <2>1. PICK k, A, B, v : /\ k = index2[j] /\ A = NumbersAt(index, data, k) /\ B = For(wi, wd, S, k)
                          /\ v = data2[j]
    OBVIOUS
  <2>2. Holds(v, A \cup B)
    BY <2>1 DEF FlushesTo
  <2>3. k \in ToSet(index) \/ \E s \in S : wi[s] = k
    <3>1. Rising(index2) /\ ToSet(index2) = ToSet(index) \cup {wi[s] : s \in S}
      BY DEF FlushesTo
    <3>2. k \in ToSet(index2)
      BY <2>1, <3>1, PlaceOfIs
    <3>3. k \in ToSet(index) \cup {wi[s] : s \in S}
      BY <3>1, <3>2
    <3>4. QED BY <3>3
  <2>4. ASSUME k \in ToSet(index) PROVE k \in Key /\ A # {} /\ A \subseteq 1 .. n - 1
    <3>1. PICK i \in 1 .. Len(index) : index[i] = k /\ PlaceOf(index, k) = i
      <4>1. PICK i \in 1 .. Len(index) : index[i] = k
        BY <2>4 DEF ToSet, Rising
      <4>2. PlaceOf(index, index[i]) = i
        BY PlaceOfIs
      <4>3. QED BY <4>1, <4>2
    <3>2. A = ToSet(data[i])
      BY <2>1, <2>4, <3>1 DEF NumbersAt
    <3>3. index[i] \in Key /\ Plain(data[i]) /\ data[i] # <<>> /\ ToSet(data[i]) \subseteq 1 .. n - 1
      BY DEF Pair, Filled
    <3>4. ToSet(data[i]) # {}
      <4>1. PICK w : w = data[i]
        OBVIOUS
      <4>2. w \in Seq(Nat) /\ w # <<>>
        BY <3>3, <4>1 DEF Plain
      <4>3. 1 \in DOMAIN w
        BY <4>2
      <4>4. w[1] \in ToSet(w)
        BY <4>3 DEF ToSet
      <4>5. QED BY <4>1, <4>4
    <3>5. QED BY <3>1, <3>2, <3>3, <3>4
  <2>5. ASSUME NEW s \in S, wi[s] = k PROVE k \in Key /\ wd[s][1] \in B
    BY <2>1, <2>5 DEF Pair, Number, For
  <2>6. B \subseteq 1 .. n - 1
    BY <2>1 DEF Pair, Number, For
  <2>7. NumbersAt(index, data, k) = {} \/ k \in ToSet(index)
    BY DEF NumbersAt
  <2>8. k \in Key /\ A \cup B # {} /\ A \cup B \subseteq 1 .. n - 1
    BY <2>1, <2>3, <2>4, <2>5, <2>6, <2>7
  <2>9. v # <<>>
    <3>1. SUFFICES ASSUME v = <<>> PROVE FALSE
      OBVIOUS
    <3>2. ToSet(<<>>) = {}
      BY DEF ToSet
    <3>3. QED BY <2>2, <2>8, <3>1, <3>2 DEF Holds
  <2>10. QED BY <2>1, <2>2, <2>8, <2>9 DEF Holds
<1>2. Filled(index2, data2, n)
  BY <1>1 DEF Filled
<1>3. QED BY <1>2 DEF Pair, Differ, NotYetIn

-----------------------------------------------------------------------------
(* The numbers of a vector and of its insert buffer, in every step.        *)

LEMMA TakenAppend ==
  ASSUME NEW count \in Seq(Nat), NEW nslot, NEW s
  PROVE  Taken(Append(count, 0), nslot, s) <=> Taken(count, nslot, s)
<1>1. PICK m \in Nat : m = Len(count) /\ DOMAIN count = 1 .. m
  OBVIOUS
<1>2. PICK c : c = Append(count, 0)
  OBVIOUS
<1>3. DOMAIN c = 1 .. m + 1 /\ c[m + 1] = 0 /\ \A b \in 1 .. m : c[b] = count[b]
  BY <1>1, <1>2
<1>4. ASSUME Taken(c, nslot, s) PROVE Taken(count, nslot, s)
  <2>1. PICK b \in 1 .. m + 1 : \E i \in 1 .. c[b] : s = nslot * (b - 1) + i
    BY <1>3, <1>4 DEF Taken
  <2>2. b # m + 1
    BY <1>3, <2>1
  <2>3. b \in 1 .. m
    BY <2>2
  <2>4. QED BY <1>1, <1>3, <2>1, <2>3 DEF Taken
<1>5. ASSUME Taken(count, nslot, s) PROVE Taken(c, nslot, s)
  <2>1. PICK b \in 1 .. m : \E i \in 1 .. count[b] : s = nslot * (b - 1) + i
    BY <1>1, <1>5 DEF Taken
  <2>2. b \in 1 .. m + 1 /\ c[b] = count[b]
    BY <1>3
  <2>3. QED BY <1>3, <2>1, <2>2 DEF Taken
<1>6. QED BY <1>2, <1>4, <1>5

LEMMA FlushesSame ==
  ASSUME NEW a, Rising(a), NEW old, NEW index, NEW data, NEW S, NEW wi, NEW wd,
         FlushesTo(a, old, index, data, S, wi, wd),
         NEW old2, \A i \in 1 .. Len(a) : old2[i] = old[i],
         NEW data2, \A j \in 1 .. Len(index) : data2[j] = data[j]
  PROVE  FlushesTo(a, old2, index, data2, S, wi, wd)
<1>1. ASSUME NEW k PROVE NumbersAt(a, old2, k) = NumbersAt(a, old, k)
  BY PlaceOfIs DEF NumbersAt
<1>2. QED BY <1>1 DEF FlushesTo

\* The keys and the reductions of the slots S that wait.
LEMMA WaitersReduce ==
  ASSUME NEW index, NEW data, NEW wi \in Seq(Nat), NEW wd \in Seq(Seq(Nat)), NEW S, NEW n \in Nat,
         Pair(index, data, wi, wd, S, n), Len(wd) = Len(wi),
         NEW slots, slots \in Seq(1 .. Len(wi)), Once(slots), S = ToSet(slots),
         NEW sorted, sorted = Permuted(wi, slots), NotFalling(sorted)
  PROVE  Reduces(wi, wd, S, Permuted(sorted, Segments(sorted)), Segreduce(Permuted(wd, slots), Segments(sorted)))
<1>1. PICK L \in Nat : L = Len(wi)
  OBVIOUS
<1>2. slots \in Seq(1 .. L) /\ Len(wd) = L
  BY <1>1
<1>3. OneEach(wd, S)
  <2>1. \A s \in S : wd[s] = <<wd[s][1]>> /\ wd[s][1] \in 1 .. n - 1
    BY DEF Pair, Number
  <2>2. \A s \in S : wd[s][1] \in Nat
    BY <2>1
  <2>3. \A s, t \in S : wd[s][1] = wd[t][1] => s = t
    BY DEF Pair, Differ
  <2>4. QED BY <2>1, <2>2, <2>3 DEF OneEach
<1>4. PICK st : st = Segments(sorted)
  OBVIOUS
<1>5. QED BY <1>1, <1>2, <1>3, <1>4, ReducedHolds

MainPair == Pair(vct_index, vct_data, vct_add_index, vct_add_data, ToSet(AddSlots), next)
OtherSlots == IF device THEN <<>> ELSE HostSlots(other.add_index)
OtherPair == Pair(other.index, other.data, other.add_index, other.add_data, ToSet(OtherSlots), next)

LEMMA PairPlain ==
  ASSUME NEW index, NEW data, NEW wi, NEW wd, NEW S, NEW n, Pair(index, data, wi, wd, S, n)
  PROVE  AllPlain(Len(index), data) /\ NotYetIn(Len(index), data, S, wd)
BY DEF Pair, Filled, AllPlain

LEMMA SlotsWait ==
  ASSUME AddInv
  PROVE  WaitsIn(ToSet(AddSlots), device, vct_add_index, vct_nadd_index, n_add_slot)
<1>1. AddSlots = AddIn(device, vct_add_index, vct_nadd_index, n_add_slot)
  BY Zenon DEF AddSlots, AddIn
<1>2. PICK dev : dev = device
  OBVIOUS
<1>3. WaitsIn(ToSet(AddIn(dev, vct_add_index, vct_nadd_index, n_add_slot)), dev, vct_add_index, vct_nadd_index, n_add_slot)
  BY <1>2, AddInIs DEF AddInv
<1>4. QED BY <1>1, <1>2, <1>3

LEMMA SlotsWaitNext ==
  ASSUME AddInv'
  PROVE  WaitsIn(ToSet(AddSlots'), device', vct_add_index', vct_nadd_index', n_add_slot')
<1>1. PICK wi, count, nslot : wi = vct_add_index' /\ count = vct_nadd_index' /\ nslot = n_add_slot'
  OBVIOUS
<1>b. PICK dev : dev = device'
  OBVIOUS
<1>2. AddSlots' = AddIn(dev, wi, count, nslot)
  BY <1>1, <1>b, Zenon DEF AddSlots, AddIn
<1>3. wi \in Seq(Nat) /\ nslot \in Nat /\ (dev /\ nslot > 0 => PoolsFit(wi, count, nslot))
  BY <1>1, <1>b DEF AddInv
<1>4. WaitsIn(ToSet(AddIn(dev, wi, count, nslot)), dev, wi, count, nslot)
  BY <1>3, AddInIs
<1>5. QED BY <1>1, <1>2, <1>4, <1>b

LEMMA DeviceFlushesTo ==
  ASSUME MainInv, AddInv, WaitInv, ValuesInv, MainPair, FlushOnDevice
  PROVE  FlushesTo(vct_index, vct_data, vct_index', vct_data', ToSet(AddSlots), vct_add_index, vct_add_data)
<1>1. PICK slots, sorted, unique, m : DeviceFlush(slots, sorted, unique, m)
  BY DeviceFlushIs
<1>2. PICK a, b, la : a = vct_index /\ b = Permuted(sorted, Segments(sorted)) /\ la = Len(a) /\ la \in Nat
  BY MainIs
<1>3. Rising(a) /\ Rising(b) /\ m = Merge(a, b)
  BY <1>1, <1>2, SegmentsRise DEF DeviceFlush, MainInv
<1>4. PICK old : old = Front(vct_data)
  OBVIOUS
<1>5. Len(old) = la /\ \A i \in 1 .. la : old[i] = vct_data[i]
  <2>1. Vector(vct_data, la, bck)
    BY <1>2 DEF MainInv
  <2>2. QED BY <1>4, <2>1, FrontIs
<1>6. PICK S, wi, wd : S = ToSet(AddSlots) /\ wi = vct_add_index /\ wd = vct_add_data
  OBVIOUS
<1>7. Pair(a, vct_data, wi, wd, S, next) /\ next \in Nat
  BY <1>2, <1>6 DEF MainPair, ValuesInv
<1>8. S = ToSet(slots)
  <2>1. device /\ n_add_slot # 0 /\ n_add_slot \in Nat
    BY DEF FlushOnDevice, AddInv
  <2>0. PICK count : count = vct_nadd_index
    OBVIOUS
  <2>2. PICK nslot \in Nat : count = vct_nadd_index /\ nslot = n_add_slot
    BY <2>0, <2>1
  <2>3. PoolsFit(wi, count, nslot) /\ count \in Seq(Nat)
    BY <1>6, <2>1, <2>2 DEF AddInv
  <2>4. AreTaken(UsedSlots(Append(count, 0), nslot), Append(count, 0), nslot)
    <3>1. PICK c : c = Append(count, 0)
      OBVIOUS
    <3>2. PoolsFit(wi, c, nslot)
      BY <2>3, <3>1, AppendFits
    <3>3. AreTaken(UsedSlots(c, nslot), c, nslot)
      BY <3>2, UsedSlotsAre
    <3>4. QED BY <3>1, <3>3
  <2>5. \A s : s \in ToSet(slots) <=> Taken(count, nslot, s)
    <3>1. ToSet(slots) = ToSet(UsedSlots(Append(count, 0), nslot))
      BY <1>1, <2>2 DEF DeviceFlush
    <3>2. \A s : s \in ToSet(slots) <=> Taken(Append(count, 0), nslot, s)
      BY <2>4, <3>1 DEF AreTaken
    <3>3. QED BY <2>3, <3>2, TakenAppend
  <2>6. \A s : s \in S <=> Taken(count, nslot, s)
    <3>1. WaitsIn(S, device, wi, count, nslot)
      BY <1>6, <2>2, SlotsWait
    <3>2. QED BY <2>1, <2>2, <3>1 DEF WaitsIn
  <2>7. QED BY <2>5, <2>6
<1>9. Reduces(wi, wd, S, b, unique)
  <2>1. wi \in Seq(Nat) /\ wd \in Seq(Seq(Nat)) /\ Len(wd) = Len(wi)
    BY <1>6 DEF AddInv, WaitInv, FlushOnDevice
  <2>2. /\ slots \in Seq(1 .. Len(wi)) /\ Once(slots) /\ sorted = Permuted(wi, slots) /\ NotFalling(sorted)
        /\ unique = Segreduce(Permuted(wd, slots), Segments(sorted))
    BY <1>1, <1>6 DEF DeviceFlush
  <2>3. Reduces(wi, wd, S, Permuted(sorted, Segments(sorted)), Segreduce(Permuted(wd, slots), Segments(sorted)))
    BY <1>7, <1>8, <2>1, <2>2, WaitersReduce
  <2>4. QED BY <1>2, <2>2, <2>3
<1>10. PICK index, data :
        /\ index = Realign(IsLast(m), ConflictKeys(m), NoKey)
        /\ data = Realign(IsLast(m), ConflictData(m, old, unique), Junk)
  OBVIOUS
<1>11. vct_index' = index /\ vct_data' = Append(data, bck)
  BY <1>1, <1>4, <1>10 DEF DeviceFlush
<1>12. MergesTo(a, old, b, unique, index, data)
  BY <1>2, <1>3, <1>5, <1>10, DeviceMergesTo
<1>13. AllPlain(Len(a), old) /\ NotYetIn(Len(a), old, S, wd)
  <2>1. AllPlain(la, vct_data) /\ NotYetIn(la, vct_data, S, wd)
    BY <1>2, <1>7, PairPlain
  <2>2. QED BY <1>2, <1>5, <2>1 DEF AllPlain, NotYetIn
<1>14. FlushesTo(a, old, index, data, S, wi, wd)
  BY <1>3, <1>9, <1>12, <1>13, MergedHolds
<1>15. PICK e : e = Append(data, bck)
  OBVIOUS
<1>16. \A j \in 1 .. Len(index) : e[j] = data[j]
  <2>1. (\E T : data \in Seq(T)) /\ Len(data) = Len(index)
    <3>1. Len(old) = Len(a) /\ Values(old, Len(a)) /\ Values(unique, Len(b))
      <4>1. Values(old, Len(a))
        BY <1>2, <1>5 DEF ValuesInv, Values
      <4>2. Values(unique, Len(b))
        BY <1>9 DEF Reduces, Holds, Plain, Values
      <4>3. QED BY <1>2, <1>5, <4>1, <4>2
    <3>2. QED BY <1>3, <1>10, <3>1, DeviceMerges
  <2>2. QED BY <1>15, <2>1, AppendVector
<1>17. FlushesTo(a, vct_data, index, e, S, wi, wd)
  BY <1>2, <1>3, <1>5, <1>14, <1>16, FlushesSame
<1>18. QED BY <1>2, <1>6, <1>11, <1>15, <1>17

LEMMA HostFlushesTo ==
  ASSUME MainInv, AddInv, WaitInv, ValuesInv, MainPair, FlushOnHost
  PROVE  FlushesTo(vct_index, vct_data, vct_index', vct_data', ToSet(AddSlots), vct_add_index, vct_add_data)
<1>1. PICK S, wi, wd : S = ToSet(AddSlots) /\ wi = vct_add_index /\ wd = vct_add_data
  OBVIOUS
<1>2. PICK L \in Nat : L = Len(wi) /\ wi \in Seq(Nat) /\ DOMAIN wi = 1 .. L
  BY <1>1 DEF AddInv
<1>3. wd \in Seq(Seq(Nat)) /\ Len(wd) = L /\ ~device
  <2>1. ~device
    BY DEF FlushOnHost
  <2>2. QED BY <1>1, <1>2, <2>1 DEF WaitInv
<1>4. PICK order, sorted, keys, data :
        /\ order \in Sortings(wi) /\ sorted = Permuted(wi, order)
        /\ keys = Permuted(sorted, Segments(sorted))
        /\ data = Segreduce(Permuted(wd, order), Segments(sorted))
        /\ vct_index' = HostMerge(keys, data).index
        /\ vct_data' = Append(HostMerge(keys, data).data, bck)
  BY <1>1 DEF FlushOnHost
<1>5. order \in Seq(1 .. L) /\ NotFalling(sorted) /\ Len(order) = L
  BY <1>2, <1>4, SortedIs
<1>6. Once(order) /\ ToSet(order) = S
  <2>1. /\ order \in [1 .. L -> 1 .. L] /\ \A i, j \in 1 .. L : order[i] = order[j] => i = j
        /\ \A k \in 1 .. L : \E i \in 1 .. L : order[i] = k
    BY <1>2, <1>4, SortingOnto
  <2>2. Once(order)
    BY <2>1 DEF Once
  <2>3. ToSet(order) = 1 .. L
    <3>1. \A x \in ToSet(order) : x \in 1 .. L
      BY <2>1 DEF ToSet
    <3>2. \A x \in 1 .. L : x \in ToSet(order)
      BY <2>1 DEF ToSet
    <3>3. QED BY <3>1, <3>2
  <2>4. \A s : s \in S <=> s \in 1 .. L
    <3>1. WaitsIn(S, device, wi, vct_nadd_index, n_add_slot)
      BY <1>1, SlotsWait
    <3>2. QED BY <1>2, <1>3, <3>1 DEF WaitsIn
  <2>5. QED BY <2>2, <2>3, <2>4
<1>7. Pair(vct_index, vct_data, wi, wd, S, next) /\ next \in Nat
  BY <1>1 DEF MainPair, ValuesInv
<1>8. Reduces(wi, wd, S, keys, data)
  <2>1. Len(wd) = Len(wi) /\ order \in Seq(1 .. Len(wi))
    BY <1>2, <1>3, <1>5
  <2>2. Reduces(wi, wd, S, Permuted(sorted, Segments(sorted)), Segreduce(Permuted(wd, order), Segments(sorted)))
    BY <1>2, <1>3, <1>4, <1>5, <1>6, <1>7, <2>1, WaitersReduce
  <2>3. QED BY <1>4, <2>2
<1>9. Rising(keys) /\ Rising(vct_index)
  BY <1>8 DEF MainInv, Reduces
<1>10. PICK index, d : index = HostMerge(keys, data).index /\ d = HostMerge(keys, data).data
  OBVIOUS
<1>11. MergesTo(vct_index, vct_data, keys, data, index, d)
  BY <1>9, <1>10, HostMergesTo
<1>12. AllPlain(Len(vct_index), vct_data) /\ NotYetIn(Len(vct_index), vct_data, S, wd)
  BY <1>7, PairPlain
<1>13. FlushesTo(vct_index, vct_data, index, d, S, wi, wd)
  BY <1>8, <1>9, <1>11, <1>12, MergedHolds
<1>14. PICK e : e = Append(d, bck)
  OBVIOUS
<1>15. \A j \in 1 .. Len(index) : e[j] = d[j]
  <2>1. (\E T : d \in Seq(T)) /\ Len(d) = Len(index)
    <3>1. Values(data, Len(keys)) /\ Values(vct_data, Len(vct_index))
      BY <1>8 DEF ValuesInv, Reduces, Holds, Plain, Values
    <3>2. QED BY <1>9, <1>10, <3>1, HostMerges
  <2>2. QED BY <1>14, <2>1, AppendVector
<1>16. FlushesTo(vct_index, vct_data, index, e, S, wi, wd)
  BY <1>9, <1>13, <1>15, FlushesSame
<1>17. QED BY <1>1, <1>4, <1>10, <1>14, <1>16

\* Key k has value e, and the others have what they had.
Assigns(index, data, k, e, index2, data2) ==
  /\ Rising(index2) /\ ToSet(index2) = ToSet(index) \cup {k}
  /\ \A j \in 1 .. Len(index2) :
       data2[j] = IF index2[j] = k THEN e ELSE data[PlaceOf(index, index2[j])]

LEMMA InsertKeyIs ==
  ASSUME NEW s, s \in Seq(Nat), NEW at \in 1 .. Len(s) + 1, NEW k \in Nat
  PROVE  \A i \in 1 .. Len(s) + 1 :
           InsertAt(s, at, k)[i] = IF i < at THEN s[i] ELSE IF i = at THEN k ELSE s[i - 1]
<1>1. PICK A : A = Nat
  OBVIOUS
<1>2. s \in Seq(A) /\ k \in A /\ at \in 1 .. Len(s) + 1
  BY <1>1
<1>3. /\ InsertAt(s, at, k) \in Seq(A) /\ Len(InsertAt(s, at, k)) = Len(s) + 1
      /\ \A i \in 1 .. Len(s) + 1 :
           InsertAt(s, at, k)[i] = IF i < at THEN s[i] ELSE IF i = at THEN k ELSE s[i - 1]
  BY <1>2, InsertAtIs
<1>4. QED BY <1>3

LEMMA InsertAssigns ==
  ASSUME NEW index, Rising(index), NEW n, n = Len(index), NEW data, NEW b, Vector(data, n, b),
         NEW k \in Nat, NEW at \in 1 .. n + 1, NEW e,
         Rising(InsertAt(index, at, k)), Len(InsertAt(index, at, k)) = n + 1
  PROVE  Assigns(index, data, k, e, InsertAt(index, at, k), InsertAt(data, at, e))
<1>1. n \in Nat /\ index \in Seq(Nat) /\ DOMAIN index = 1 .. n
  BY DEF Rising
<1>2. PICK idx, d : idx = InsertAt(index, at, k) /\ d = InsertAt(data, at, e)
  OBVIOUS
<1>3. \A i \in 1 .. n + 1 : idx[i] = IF i < at THEN index[i] ELSE IF i = at THEN k ELSE index[i - 1]
  BY <1>1, <1>2, InsertKeyIs, SMTT(20)
<1>4. \A i \in 1 .. n + 1 : d[i] = IF i < at THEN data[i] ELSE IF i = at THEN e ELSE data[i - 1]
  <2>1. PICK S : data \in Seq(S)
    BY DEF Vector
  <2>2. PICK T : T = S \cup {e}
    OBVIOUS
  <2>3. data \in Seq(T) /\ e \in T
    BY <2>1, <2>2, SeqMonotonic
  <2>4. Len(data) = n + 1
    BY DEF Vector
  <2>5. at \in 1 .. Len(data) + 1
    BY <1>1, <2>4
  <2>6. \A i \in 1 .. Len(data) + 1 : d[i] = IF i < at THEN data[i] ELSE IF i = at THEN e ELSE data[i - 1]
    BY <1>2, <2>3, <2>5, InsertAtIs
  <2>7. \A i \in 1 .. n + 1 : i \in 1 .. Len(data) + 1
    BY <1>1, <2>4
  <2>8. QED BY <2>6, <2>7
<1>5. Rising(idx) /\ Len(idx) = n + 1 /\ DOMAIN idx = 1 .. n + 1
  BY <1>1, <1>2 DEF Rising
<1>6. \A i, j \in 1 .. n + 1 : idx[i] = idx[j] => i = j
  <2>1. SUFFICES ASSUME NEW i \in 1 .. n + 1, NEW j \in 1 .. n + 1, idx[i] = idx[j] PROVE i = j
    OBVIOUS
  <2>2. PlaceOf(idx, idx[i]) = i /\ PlaceOf(idx, idx[j]) = j
    BY <1>5, PlaceOfIs
  <2>3. QED BY <2>1, <2>2
<1>7. \A i \in 1 .. n : index[i] \in ToSet(index) /\ PlaceOf(index, index[i]) = i
  BY PlaceOfIs
<1>8. idx[at] = k /\ d[at] = e
  BY <1>1, <1>3, <1>4
<1>9. ASSUME NEW j \in 1 .. n + 1, j # at
      PROVE  /\ idx[j] # k /\ idx[j] \in ToSet(index) /\ d[j] = data[PlaceOf(index, idx[j])]
  <2>1. idx[j] # k
    BY <1>6, <1>8, <1>9
  <2>2. CASE j < at
    <3>1. j \in 1 .. n /\ idx[j] = index[j] /\ d[j] = data[j]
      BY <1>1, <1>3, <1>4, <2>2
    <3>2. QED BY <1>7, <2>1, <3>1
  <2>3. CASE at < j
    <3>1. PICK i \in 1 .. n : i = j - 1
      BY <1>1, <2>3
    <3>2. idx[j] = index[i] /\ d[j] = data[i]
      BY <1>1, <1>3, <1>4, <2>3, <3>1
    <3>3. QED BY <1>7, <2>1, <3>2
  <2>4. QED BY <1>1, <1>9, <2>2, <2>3
<1>10. ASSUME NEW i \in 1 .. n PROVE index[i] \in ToSet(idx)
  <2>1. CASE i < at
    <3>1. i \in 1 .. n + 1 /\ idx[i] = index[i]
      BY <1>1, <1>3, <2>1
    <3>2. QED BY <1>5, <3>1 DEF ToSet
  <2>2. CASE ~(i < at)
    <3>1. PICK j \in 1 .. n + 1 : j = i + 1
      BY <1>1
    <3>2. idx[j] = index[i]
      BY <1>1, <1>3, <2>2, <3>1
    <3>3. QED BY <1>5, <3>2 DEF ToSet
  <2>3. QED BY <2>1, <2>2
<1>11. ToSet(idx) = ToSet(index) \cup {k}
  <2>1. \A x \in ToSet(idx) : x \in ToSet(index) \cup {k}
    BY <1>5, <1>8, <1>9 DEF ToSet
  <2>2. k \in ToSet(idx)
    BY <1>5, <1>8 DEF ToSet
  <2>3. \A x \in ToSet(index) : x \in ToSet(idx)
    BY <1>1, <1>10 DEF ToSet
  <2>4. QED BY <2>1, <2>2, <2>3
<1>12. QED BY <1>2, <1>5, <1>8, <1>9, <1>11 DEF Assigns

LEMMA InsertFlushAssigns ==
  ASSUME MainInv, NEW k \in Key, InsertFlush(k)
  PROVE  Assigns(vct_index, vct_data, k, <<next>>, vct_index', vct_data')
<1>1. PICK n \in Nat : n = Len(vct_index) /\ Len(vct_data) = n + 1 /\ Vector(vct_data, n, bck)
  BY MainIs DEF MainInv
<1>2. Rising(vct_index) /\ k \in Nat /\ k # -1
  BY KeysAre DEF MainInv
<1>3. PICK id, v : id = SearchNoBck(k).id /\ v = SearchNoBck(k).v
  OBVIOUS
<1>4. Belongs(vct_index, k, id) /\ v = IF id < n THEN vct_index[id + 1] ELSE -1
  BY <1>1, <1>2, <1>3, SearchNoBckIs
<1>5. PICK at \in 1 .. n + 1 : at = id + 1
  BY <1>1, <1>4 DEF Belongs
<1>6. PICK e : e = <<next>>
  OBVIOUS
<1>7. CASE v = k
  <2>1. PICK d : d = [vct_data EXCEPT ![at] = e]
    OBVIOUS
  <2>2. vct_data' = d /\ vct_index' = vct_index
    BY <1>3, <1>5, <1>6, <1>7, <2>1 DEF InsertFlush
  <2>3. \A j \in 1 .. n + 1 : d[j] = IF j = at THEN e ELSE vct_data[j]
    BY <1>1, <2>1, ExceptVector
  <2>4. at \in 1 .. n /\ vct_index[at] = k
    <3>1. id < n
      BY <1>2, <1>4, <1>7
    <3>2. v = vct_index[id + 1]
      BY <1>4, <3>1
    <3>3. id \in 0 .. n
      BY <1>1, <1>4 DEF Belongs
    <3>4. QED BY <1>5, <1>7, <3>1, <3>2, <3>3
  <2>5. \A j \in 1 .. n : vct_index[j] \in ToSet(vct_index) /\ PlaceOf(vct_index, vct_index[j]) = j
    BY <1>1, <1>2, PlaceOfIs
  <2>6. ToSet(vct_index) = ToSet(vct_index) \cup {k}
    BY <2>4, <2>5
  <2>7. \A j \in 1 .. n : d[j] = IF vct_index[j] = k THEN e ELSE vct_data[PlaceOf(vct_index, vct_index[j])]
    <3>1. SUFFICES ASSUME NEW j \in 1 .. n
                   PROVE d[j] = IF vct_index[j] = k THEN e ELSE vct_data[PlaceOf(vct_index, vct_index[j])]
      OBVIOUS
    <3>2. j \in 1 .. n + 1 /\ PlaceOf(vct_index, vct_index[j]) = j /\ PlaceOf(vct_index, k) = at
      BY <2>4, <2>5
    <3>3. vct_index[j] = k <=> j = at
      BY <2>4, <2>5, <3>2
    <3>4. QED BY <2>3, <3>2, <3>3
  <2>8. QED BY <1>1, <1>2, <1>6, <2>2, <2>6, <2>7 DEF Assigns
<1>8. CASE v # k
  <2>1. PICK d, idx : d = InsertAt(vct_data, at, e) /\ idx = InsertAt(vct_index, at, k)
    OBVIOUS
  <2>2. vct_data' = d /\ vct_index' = idx
    BY <1>3, <1>5, <1>6, <1>8, <2>1 DEF InsertFlush
  <2>3. Rising(idx) /\ Len(idx) = n + 1
    <3>1. id < n => vct_index[id + 1] # k
      BY <1>4, <1>8
    <3>2. QED BY <1>1, <1>2, <1>4, <1>5, <2>1, <3>1, InsertRises
  <2>4. Assigns(vct_index, vct_data, k, e, idx, d)
    BY <1>1, <1>2, <2>1, <2>3, InsertAssigns
  <2>5. QED BY <1>6, <2>2, <2>4
<1>9. QED BY <1>7, <1>8

\* The keys of gone are gone, and the others have what they had.
RemovesTo(index, data, gone, index2, data2) ==
  /\ Rising(index2) /\ ToSet(index2) = ToSet(index) \ gone
  /\ \A j \in 1 .. Len(index2) : data2[j] = data[PlaceOf(index, index2[j])]

\* The entries that stay are those of a whose key is not in b.
StaysOf(a, gone, m, n, pred) ==
  /\ \A p \in Kept(pred) : /\ p \in 1 .. n /\ m[p].from \in 1 .. Len(a) /\ m[p].key = a[m[p].from]
                           /\ m[p].key \notin gone
  /\ \A i \in 1 .. Len(a) : a[i] \notin gone => \E p \in Kept(pred) : m[p].key = a[i]

LEMMA StaysInHas ==
  ASSUME NEW a, NEW b, Rising(a), Rising(b), NEW m, NEW n, Merged(a, b, m, n),
         \A x \in Entries(a, b) : \E q \in 1 .. n : m[q] = x,
         NEW pred, pred = StaysIn(m, Len(a))
  PROVE  StaysOf(a, ToSet(b), m, n, pred)
<1>1. PICK la \in Nat, lb \in Nat :
        la = Len(a) /\ lb = Len(b) /\ DOMAIN a = 1 .. la /\ DOMAIN b = 1 .. lb
  <2>1. a \in Seq(Nat) /\ b \in Seq(Nat)
    BY DEF Rising
  <2>2. Len(a) \in Nat /\ DOMAIN a = 1 .. Len(a) /\ Len(b) \in Nat /\ DOMAIN b = 1 .. Len(b)
    BY <2>1
  <2>3. QED BY <2>2
<1>2. n \in Nat /\ n = la + lb /\ Len(m) = n /\ DOMAIN m = 1 .. n
  BY <1>1 DEF Merged
<1>3. \A q \in 1 .. n : /\ m[q].from \in 1 .. n
                        /\ m[q].from <= la => m[q].key = a[m[q].from]
                        /\ m[q].from > la => m[q].from - la \in 1 .. lb /\ m[q].key = b[m[q].from - la]
  BY <1>1, <1>2 DEF Merged, IsEntry
<1>4. \A i, j \in 1 .. n : i < j /\ m[i].key = m[j].key => m[i].from <= la /\ m[j].from > la /\ j = i + 1
  BY <1>1 DEF Merged
<1>5. \A p \in Kept(pred) : /\ p \in 1 .. n
                            /\ p = 1 \/ m[p - 1].key # m[p].key
                            /\ p = n \/ m[p + 1].key # m[p].key
                            /\ m[p].from <= la
  BY <1>1, <1>2 DEF Kept, StaysIn
<1>6. \A p \in 1 .. n : /\ p = 1 \/ m[p - 1].key # m[p].key
                        /\ p = n \/ m[p + 1].key # m[p].key
                        /\ m[p].from <= la
                        => p \in Kept(pred)
  BY <1>1, <1>2 DEF Kept, StaysIn
<1>7. ASSUME NEW p \in Kept(pred), m[p].key \in ToSet(b) PROVE FALSE
  <2>1. PICK i \in 1 .. lb : b[i] = m[p].key
    BY <1>1, <1>7 DEF ToSet
  <2>2. PICK x : x = [key |-> b[i], from |-> la + i]
    OBVIOUS
  <2>3. x \in Entries(a, b) /\ x.key = b[i] /\ x.from = la + i
    BY <1>1, <2>2 DEF Entries
  <2>4. PICK q \in 1 .. n : m[q] = x
    BY <2>3
  <2>5. m[q].key = m[p].key /\ m[q].from = la + i /\ p \in 1 .. n /\ m[p].from <= la
    BY <1>5, <2>1, <2>3, <2>4
  <2>6. q # p
    BY <1>1, <2>5
  <2>7. ~(q < p)
    BY <1>4, <2>5, <1>1
  <2>8. q = p + 1 /\ p # n
    BY <1>2, <1>4, <2>5, <2>6, <2>7
  <2>9. QED BY <1>5, <2>5, <2>8
<1>8. ASSUME NEW p \in Kept(pred) PROVE p \in 1 .. n /\ m[p].from \in 1 .. la /\ m[p].key = a[m[p].from]
  BY <1>2, <1>3, <1>5
<1>9. ASSUME NEW i \in 1 .. la, a[i] \notin ToSet(b) PROVE \E p \in Kept(pred) : m[p].key = a[i]
  <2>1. PICK x : x = [key |-> a[i], from |-> i]
    OBVIOUS
  <2>2. x \in Entries(a, b) /\ x.key = a[i] /\ x.from = i
    BY <1>1, <2>1 DEF Entries
  <2>3. PICK p \in 1 .. n : m[p] = x
    BY <2>2
  <2>4. m[p].key = a[i] /\ m[p].from = i /\ m[p].from <= la
    BY <2>2, <2>3
  <2>5. ASSUME NEW q \in 1 .. n, m[q].key = a[i] PROVE m[q].from <= la
    <3>1. SUFFICES ASSUME m[q].from > la PROVE FALSE
      BY <1>2, <1>3
    <3>2. m[q].from - la \in 1 .. lb /\ a[i] = b[m[q].from - la]
      BY <1>3, <2>5, <3>1
    <3>3. a[i] \in ToSet(b)
      BY <1>1, <3>2 DEF ToSet
    <3>4. QED BY <1>9, <3>3
  <2>6. p = 1 \/ m[p - 1].key # m[p].key
    <3>1. SUFFICES ASSUME p # 1, m[p - 1].key = m[p].key PROVE FALSE
      OBVIOUS
    <3>2. PICK q \in 1 .. n : q = p - 1 /\ q < p
      BY <1>2, <3>1
    <3>3. m[p].from > la
      BY <1>4, <3>1, <3>2
    <3>4. QED BY <2>4, <3>3
  <2>7. p = n \/ m[p + 1].key # m[p].key
    <3>1. SUFFICES ASSUME p # n, m[p + 1].key = m[p].key PROVE FALSE
      OBVIOUS
    <3>2. PICK q \in 1 .. n : q = p + 1 /\ p < q
      BY <1>2, <3>1
    <3>3. m[q].from > la /\ m[q].from <= la /\ m[q].from \in 1 .. n
      BY <1>3, <1>4, <2>4, <2>5, <3>1, <3>2
    <3>4. QED BY <3>3
  <2>8. QED BY <1>6, <2>4, <2>6, <2>7
<1>10. QED BY <1>1, <1>7, <1>8, <1>9 DEF StaysOf

LEMMA FlushRemovesTo ==
  ASSUME MainInv, RemInv, FlushRemove, NEW gone,
         gone = ToSet(Permuted(vct_rem_index, UsedSlots(Append(vct_nrem_index, 0), n_rem_slot)))
  PROVE  RemovesTo(vct_index, vct_data, gone, vct_index', vct_data')
<1>1. PICK keys \in Seq(Nat) :
        LET m == Merge(vct_index, Increasing(ToSet(keys)))
            stays == StaysIn(m, Len(vct_index))
            came == RealignRemove(stays, [p \in DOMAIN m |-> m[p].from])
        IN  /\ keys = Permuted(vct_rem_index, UsedSlots(Append(vct_nrem_index, 0), n_rem_slot))
            /\ vct_index' = RealignRemove(stays, [p \in DOMAIN m |-> m[p].key])
            /\ vct_data' = Append(Permuted(vct_data, came), bck)
            /\ bck' = bck
  BY RemovedKeysAre
<1>2. PICK a, b : /\ a = vct_index /\ b = Increasing(ToSet(keys)) /\ Rising(a) /\ Rising(b)
                  /\ ToSet(b) = gone
  BY <1>1, ToSetFinite, IncreasingRises DEF MainInv
<1>3. PICK la \in Nat, lb \in Nat : la = Len(a) /\ lb = Len(b) /\ DOMAIN a = 1 .. la
  BY <1>2 DEF Rising
<1>4. PICK n \in Nat : n = la + lb
  OBVIOUS
<1>5. PICK m, stays : m = Merge(a, b) /\ stays = StaysIn(m, la)
  OBVIOUS
<1>6. Merged(a, b, m, n) /\ \A x \in Entries(a, b) : \E q \in 1 .. n : m[q] = x
  BY <1>2, <1>3, <1>4, <1>5, MergeOfRising
<1>7. DOMAIN m = 1 .. n
  BY <1>6 DEF Merged
<1>8. Predicate(stays, n)
  BY <1>5, <1>6, StaysInIs
<1>9. PICK k \in Nat : k = Cardinality(Kept(stays))
  BY <1>8, KeptCounts
<1>10. PICK from, keyed : from = [p \in 1 .. n |-> m[p].from] /\ keyed = [p \in 1 .. n |-> m[p].key]
  OBVIOUS
<1>11. PICK came, idx : came = RealignRemove(stays, from) /\ idx = RealignRemove(stays, keyed)
  OBVIOUS
<1>12. came = [i \in 1 .. k |-> from[Nth(stays, i)]] /\ idx = [i \in 1 .. k |-> keyed[Nth(stays, i)]]
  BY <1>8, <1>9, <1>11, RealignRemoveIs
<1>13. vct_index' = idx /\ vct_data' = Append(Permuted(vct_data, came), bck)
  BY <1>1, <1>2, <1>3, <1>5, <1>7, <1>10, <1>11
<1>14. PICK d : d = Permuted(vct_data, came)
  OBVIOUS
<1>15. d = [i \in 1 .. k |-> vct_data[came[i]]]
  BY <1>12, <1>14 DEF Permuted
<1>16. /\ \A p \in Kept(stays) : /\ p \in 1 .. n /\ m[p].from \in 1 .. la /\ m[p].key = a[m[p].from]
                                 /\ m[p].key \notin gone
       /\ \A i \in 1 .. la : a[i] \notin gone => \E p \in Kept(stays) : m[p].key = a[i]
  <2>1. stays = StaysIn(m, Len(a))
    BY <1>3, <1>5
  <2>2. StaysOf(a, ToSet(b), m, n, stays)
    BY <1>2, <1>6, <2>1, StaysInHas
  <2>3. QED BY <1>2, <1>3, <2>2 DEF StaysOf
<1>17. ASSUME NEW j \in 1 .. k
       PROVE  idx[j] \in ToSet(a) /\ idx[j] \notin gone /\ d[j] = vct_data[PlaceOf(a, idx[j])]
  <2>1. PICK p \in Kept(stays) : p = Nth(stays, j)
    BY <1>8, <1>9, KeptPlaces
  <2>2. /\ p \in 1 .. n /\ m[p].from \in 1 .. la /\ m[p].key = a[m[p].from] /\ m[p].key \notin gone
        /\ idx[j] = m[p].key /\ d[j] = vct_data[m[p].from]
    BY <1>10, <1>12, <1>15, <1>16, <2>1
  <2>3. \A i \in 1 .. la : a[i] \in ToSet(a) /\ PlaceOf(a, a[i]) = i
    BY <1>2, <1>3, PlaceOfIs
  <2>4. QED BY <2>2, <2>3
<1>18. \A p \in Kept(stays) : \E j \in 1 .. k : Nth(stays, j) = p
  <2>1. Kept(stays) \subseteq Nat /\ IsFiniteSet(Kept(stays))
    <3>1. Kept(stays) \subseteq 1 .. n /\ IsFiniteSet(Kept(stays))
      BY <1>8, KeptCounts
    <3>2. QED BY <3>1
  <2>2. PICK s : s = Increasing(Kept(stays))
    OBVIOUS
  <2>3. ToSet(s) = Kept(stays)
    BY <2>1, <2>2, IncreasingRises
  <2>4. DOMAIN s = 1 .. k
    BY <1>9, <2>2 DEF Increasing
  <2>5. QED BY <2>2, <2>3, <2>4 DEF ToSet, Nth
<1>19. Rising(idx) /\ Len(idx) = k /\ DOMAIN idx = 1 .. k
  <2>1. Rising(idx)
    <3>1. Rising(RealignRemove(StaysIn(Merge(a, b), la), [p \in DOMAIN Merge(a, b) |-> Merge(a, b)[p].key]))
      BY <1>2, RemovedKeysRise
    <3>2. QED BY <1>5, <1>7, <1>10, <1>11, <3>1
  <2>2. QED BY <1>12, <2>1
<1>20. ToSet(idx) = ToSet(a) \ gone
  <2>1. \A x \in ToSet(idx) : x \in ToSet(a) \ gone
    BY <1>17, <1>19 DEF ToSet
  <2>2. ASSUME NEW i \in 1 .. la, a[i] \notin gone PROVE a[i] \in ToSet(idx)
    <3>1. PICK p \in Kept(stays) : m[p].key = a[i]
      BY <1>16, <2>2
    <3>2. PICK j \in 1 .. k : Nth(stays, j) = p
      BY <1>18
    <3>3. idx[j] = a[i]
      BY <1>10, <1>12, <1>16, <3>1, <3>2
    <3>4. QED BY <1>19, <3>3 DEF ToSet
  <2>3. \A x \in ToSet(a) \ gone : x \in ToSet(idx)
    BY <1>3, <2>2 DEF ToSet
  <2>4. QED BY <2>1, <2>3
<1>21. PICK e : e = Append(d, bck)
  OBVIOUS
<1>22. \A j \in 1 .. k : e[j] = d[j]
  <2>1. d = [i \in 1 .. k |-> d[i]]
    BY <1>15
  <2>2. (\E S : d \in Seq(S)) /\ Len(d) = k
    BY <2>1, FunctionIsSeq
  <2>3. QED BY <1>21, <2>2, AppendVector
<1>23. QED BY <1>2, <1>13, <1>14, <1>17, <1>19, <1>20, <1>21, <1>22 DEF RemovesTo

LEMMA FirstIs ==
  ASSUME NEW n \in Nat
  PROVE  <<n>> \in Seq(Nat) /\ <<n>>[1] = n
OBVIOUS

LEMMA NoneWait ==
  ASSUME NEW index, NEW data, NEW n, Filled(index, data, n), NEW wi, NEW wd
  PROVE  Pair(index, data, wi, wd, {}, n)
BY DEF Pair, Differ, NotYetIn

LEMMA PairLater ==
  ASSUME NEW index, NEW data, NEW wi, NEW wd, NEW S, NEW m \in Nat \ {0}, Pair(index, data, wi, wd, S, m),
         NEW n \in Nat, m <= n
  PROVE  Pair(index, data, wi, wd, S, n)
<1>1. Differ(wd, S)
  BY DEF Pair
<1>2. Grows(wi, wd, S, m, wi, wd, S, n)
  BY <1>1 DEF Grows, Differ
<1>3. QED BY <1>2, WaitersGrow

LEMMA AppendGrows ==
  ASSUME NEW L \in Nat, NEW wi \in Seq(Nat), NEW wd \in Seq(Seq(Nat)), Len(wi) = L, Len(wd) = L,
         NEW m \in Nat, NEW S, S \subseteq 1 .. L, \A s \in S : Number(wi, wd, s, 1, m),
         NEW k \in Key, NEW T, \A s \in T : s \in S \/ s = L + 1
  PROVE  Grows(wi, wd, S, m, Append(wi, k), Append(wd, <<m>>), T, m + 1)
<1>1. PICK e : e = <<m>> /\ e \in Seq(Nat) /\ e[1] = m
  BY FirstIs
<1>2. k \in Nat
  BY KeysAre
<1>3. PICK wi2, wd2 : wi2 = Append(wi, k) /\ wd2 = Append(wd, e)
  OBVIOUS
<1>4. /\ \A i \in 1 .. L : wi2[i] = wi[i]
      /\ wi2[L + 1] = k
  BY <1>2, <1>3
<1>5. /\ \A i \in 1 .. L : wd2[i] = wd[i]
      /\ wd2[L + 1] = e
  <2>1. PICK V : V = Seq(Nat)
    OBVIOUS
  <2>2. wd \in Seq(V) /\ e \in V
    BY <1>1, <2>1
  <2>3. QED BY <1>3, <2>2
<1>6. m \in m .. m + 1 - 1
  OBVIOUS
<1>7. Number(wi2, wd2, L + 1, m, m + 1)
  BY <1>1, <1>4, <1>5, <1>6 DEF Number
<1>8. ASSUME NEW s \in S PROVE wi2[s] = wi[s] /\ wd2[s] = wd[s] /\ ~Number(wi2, wd2, s, m, m + 1)
  <2>1. s \in 1 .. L /\ wd[s][1] \in 1 .. m - 1
    BY DEF Number
  <2>2. wi2[s] = wi[s] /\ wd2[s] = wd[s]
    BY <1>4, <1>5, <2>1
  <2>3. wd2[s][1] \notin m .. m + 1 - 1
    BY <2>1, <2>2
  <2>4. QED BY <2>2, <2>3 DEF Number
<1>9. ASSUME NEW s \in T, NEW t \in T, Number(wi2, wd2, s, m, m + 1), wd2[s][1] = wd2[t][1]
      PROVE  s = t
  <2>1. s = L + 1 /\ wd2[t][1] = m
    BY <1>1, <1>5, <1>8, <1>9
  <2>2. t \notin S
    <3>1. SUFFICES ASSUME t \in S PROVE FALSE
      OBVIOUS
    <3>2. wd2[t] = wd[t] /\ wd[t][1] \in 1 .. m - 1
      BY <1>8, <3>1 DEF Number
    <3>3. QED BY <2>1, <3>2
  <2>3. QED BY <2>1, <2>2
<1>10. Grows(wi, wd, S, m, wi2, wd2, T, m + 1)
  BY <1>7, <1>8, <1>9 DEF Grows
<1>11. QED BY <1>1, <1>3, <1>10

\* A thread of a kernel stores its insertion, and no slot that still counts is
\* another than before.
LEMMA StoredGrows ==
  ASSUME NEW L \in Nat, NEW wi \in Seq(Nat), NEW wd \in Seq(Seq(Nat)), Len(wi) = L, Len(wd) = L,
         NEW m \in Nat, NEW S, S \subseteq 1 .. L, \A s \in S : Number(wi, wd, s, 1, m),
         NEW k \in Key, NEW nslot, NEW at, NEW inc \in BOOLEAN,
         NEW T, T \subseteq 1 .. L, \A s \in T : s = at \/ (s \in S /\ (inc \/ s > nslot * NBlock))
  PROVE  Grows(wi, wd, S, m, Stored(wi, nslot, at, k, inc, NoKey), Stored(wd, nslot, at, <<m>>, inc, Junk), T, m + 1)
<1>1. PICK e : e = <<m>> /\ e[1] = m
  BY FirstIs
<1>2. PICK last : last = nslot * NBlock
  OBVIOUS
<1>3. PICK wi2, wd2 : wi2 = Stored(wi, nslot, at, k, inc, NoKey) /\ wd2 = Stored(wd, nslot, at, e, inc, Junk)
  OBVIOUS
<1>4. DOMAIN wi = 1 .. L /\ DOMAIN wd = 1 .. L
  OBVIOUS
<1>5. /\ wi2 = [i \in 1 .. L |-> IF i = at THEN k ELSE IF inc \/ i > last THEN wi[i] ELSE NoKey]
      /\ wd2 = [i \in 1 .. L |-> IF i = at THEN e ELSE IF inc \/ i > last THEN wd[i] ELSE Junk]
  BY <1>2, <1>3, <1>4 DEF Stored
<1>6. \A s \in T : IF s = at THEN wi2[s] = k /\ wd2[s] = e ELSE s \in S /\ wi2[s] = wi[s] /\ wd2[s] = wd[s]
  BY <1>2, <1>5
<1>7. ASSUME NEW s \in T, s = at PROVE Number(wi2, wd2, s, m, m + 1) /\ wd2[s][1] = m
  BY <1>1, <1>6, <1>7 DEF Number
<1>8. ASSUME NEW s \in T, s # at PROVE wd2[s][1] \in 1 .. m - 1 /\ ~Number(wi2, wd2, s, m, m + 1)
  <2>1. wd2[s][1] \in 1 .. m - 1
    BY <1>6, <1>8 DEF Number
  <2>2. QED BY <2>1 DEF Number
<1>9. ASSUME NEW s \in T, NEW t \in T, Number(wi2, wd2, s, m, m + 1), wd2[s][1] = wd2[t][1]
      PROVE  s = t
  <2>1. s = at /\ wd2[s][1] = m
    BY <1>7, <1>8, <1>9
  <2>2. wd2[t][1] \notin 1 .. m - 1
    BY <1>9, <2>1
  <2>3. QED BY <1>8, <2>1, <2>2
<1>10. Grows(wi, wd, S, m, wi2, wd2, T, m + 1)
  BY <1>6, <1>7, <1>9 DEF Grows
<1>11. QED BY <1>1, <1>3, <1>10

LEMMA TwoGrow ==
  ASSUME NEW m \in Nat, NEW j \in Key, NEW k \in Key, NEW T, T \subseteq 1 .. 2, NEW wi, NEW wd, NEW S
  PROVE  Grows(wi, wd, S, m, <<j, k>>, <<<<m>>, <<m + 1>>>>, T, m + 2)
<1>1. PICK d, e : d = <<m>> /\ e = <<m + 1>> /\ d[1] = m /\ e[1] = m + 1
  <2>1. m + 1 \in Nat
    OBVIOUS
  <2>2. QED BY <2>1, FirstIs
<1>2. PICK wi2, wd2 : wi2 = <<j, k>> /\ wd2 = <<d, e>>
  OBVIOUS
<1>3. wi2[1] = j /\ wi2[2] = k /\ wd2[1] = d /\ wd2[2] = e
  BY <1>2
<1>4. \A s \in T : s = 1 \/ s = 2
  OBVIOUS
<1>5. Number(wi2, wd2, 1, m, m + 2) /\ Number(wi2, wd2, 2, m, m + 2)
  BY <1>1, <1>3 DEF Number
<1>6. wd2[1][1] # wd2[2][1]
  BY <1>1, <1>3
<1>7. Grows(wi, wd, S, m, wi2, wd2, T, m + 2)
  BY <1>4, <1>5, <1>6 DEF Grows
<1>8. QED BY <1>1, <1>2, <1>7

LEMMA AssignsKeeps ==
  ASSUME NEW index, Rising(index), NEW data, NEW m \in Nat, \A i \in 1 .. Len(index) : index[i] \in Key,
         NEW k \in Key, NEW index2, NEW data2, Assigns(index, data, k, <<m>>, index2, data2)
  PROVE  Keeps(index, data, m, index2, data2, m + 1)
<1>1. PICK n \in Nat : n = Len(index2) /\ DOMAIN index2 = 1 .. n
  BY DEF Assigns, Rising
<1>2. m \in m .. m + 1 - 1
  OBVIOUS
<1>3. ASSUME NEW j \in 1 .. n
      PROVE  /\ index2[j] \in Key
             /\ \/ \E i \in 1 .. Len(index) : data2[j] = data[i]
                \/ \E x \in m .. m + 1 - 1 : data2[j] = <<x>>
  <2>1. CASE index2[j] = k
    BY <1>1, <1>2, <2>1 DEF Assigns
  <2>2. CASE index2[j] # k
    <3>1. index2[j] \in ToSet(index)
      BY <1>1, <2>2 DEF Assigns, ToSet
    <3>2. data2[j] = data[PlaceOf(index, index2[j])]
      BY <1>1, <2>2 DEF Assigns
    <3>3. PlaceOf(index, index2[j]) \in 1 .. Len(index)
      BY <3>1, PlaceOfIs
    <3>4. index2[j] \in Key
      BY <3>1 DEF ToSet, Rising
    <3>5. QED BY <3>2, <3>3, <3>4
  <2>3. QED BY <2>1, <2>2
<1>4. QED BY <1>1, <1>3 DEF Keeps

LEMMA RemovesKeeps ==
  ASSUME NEW index, Rising(index), NEW data, NEW m, \A i \in 1 .. Len(index) : index[i] \in Key,
         NEW gone, NEW index2, NEW data2, RemovesTo(index, data, gone, index2, data2)
  PROVE  Keeps(index, data, m, index2, data2, m)
<1>1. PICK n \in Nat : n = Len(index2) /\ DOMAIN index2 = 1 .. n
  BY DEF RemovesTo, Rising
<1>2. ASSUME NEW j \in 1 .. n
      PROVE  /\ index2[j] \in Key
             /\ \E i \in 1 .. Len(index) : data2[j] = data[i]
  <2>1. index2[j] \in ToSet(index)
    BY <1>1 DEF RemovesTo, ToSet
  <2>2. data2[j] = data[PlaceOf(index, index2[j])]
    BY <1>1 DEF RemovesTo
  <2>3. PlaceOf(index, index2[j]) \in 1 .. Len(index)
    BY <2>1, PlaceOfIs
  <2>4. index2[j] \in Key
    BY <2>1 DEF ToSet, Rising
  <2>5. QED BY <2>2, <2>3, <2>4
<1>3. QED BY <1>1, <1>2 DEF Keeps

LEMMA SameKeeps ==
  ASSUME NEW index, NEW data, NEW m, \A i \in 1 .. Len(index) : index[i] \in Key,
         NEW data2, \A j \in 1 .. Len(index) : data2[j] = data[j]
  PROVE  Keeps(index, data, m, index, data2, m)
BY DEF Keeps

-----------------------------------------------------------------------------
(* Every step keeps the numbers apart.                                     *)

PairInv == MainPair /\ OtherPair /\ next \in Nat \ {0} /\ client \in Clients

LEMMA FilledKeys ==
  ASSUME NEW index, NEW data, NEW wi, NEW wd, NEW S, NEW n, Pair(index, data, wi, wd, S, n)
  PROVE  /\ Filled(index, data, n)
         /\ \A i \in 1 .. Len(index) : index[i] \in Key
         /\ \A s \in S : Number(wi, wd, s, 1, n)
BY DEF Pair, Filled

LEMMA NothingFilled ==
  ASSUME NEW data, NEW n
  PROVE  Filled(<<>>, data, n)
<1>1. Len(<<>>) = 0
  OBVIOUS
<1>2. QED BY <1>1 DEF Filled

LEMMA NoSlots == ToSet(<<>>) = {} /\ HostSlots(<<>>) = <<>>
<1>1. DOMAIN <<>> = {}
  OBVIOUS
<1>2. QED BY <1>1 DEF ToSet, HostSlots

LEMMA PairInit == Init => PairInv
<1> SUFFICES ASSUME Init PROVE PairInv
  OBVIOUS
<1>1. /\ vct_index = <<>> /\ vct_add_index = <<>> /\ n_add_slot = 0 /\ next = 1 /\ client \in Clients
      /\ other.index = <<>> /\ other.add_index = <<>>
  BY DEF Init
<1>2. ToSet(AddSlots) = {}
  BY <1>1, NoSlots DEF AddSlots
<1>3. ToSet(OtherSlots) = {}
  BY <1>1, NoSlots DEF OtherSlots
<1>4. MainPair
  <2>1. Pair(<<>>, vct_data, vct_add_index, vct_add_data, {}, next)
    BY NothingFilled, NoneWait
  <2>2. QED BY <1>1, <1>2, <2>1 DEF MainPair
<1>5. OtherPair
  <2>1. Pair(<<>>, other.data, other.add_index, other.add_data, {}, next)
    BY NothingFilled, NoneWait
  <2>2. QED BY <1>1, <1>3, <2>1 DEF OtherPair
<1>6. QED BY <1>1, <1>4, <1>5 DEF PairInv

\* The insertions of a kernel are flushed on the device.
LEMMA KernelOnDevice ==
  ASSUME client \in Clients, "insert kernel" \in client
  PROVE  device
<1>1. {"insert kernel", "preFlush"} \cap client # {}
  OBVIOUS
<1>2. QED BY <1>1, SidesApart DEF device

LEMMA InsertPair ==
  ASSUME AddInv, AddInv', WaitInv, PairInv, NEW k \in Key, Insert(k)
  PROVE  MainPair'
<1>1. /\ vct_add_index' = Append(vct_add_index, k) /\ vct_add_data' = Append(vct_add_data, <<next>>)
      /\ next' = next + 1 /\ UNCHANGED <<main, vct_nadd_index, n_add_slot, client>>
  BY DEF Insert
<1>2. PICK S, T : S = ToSet(AddSlots) /\ T = ToSet(AddSlots')
  OBVIOUS
<1>3. PICK wi \in Seq(Nat), L \in Nat :
        wi = vct_add_index /\ L = Len(wi) /\ DOMAIN wi = 1 .. L
  BY DEF AddInv
<1>4. PICK wd \in Seq(Seq(Nat)) : wd = vct_add_data
  BY DEF WaitInv
<1>5. PICK m \in Nat \ {0} : m = next
  BY DEF PairInv
<1>6. Pair(vct_index, vct_data, wi, wd, S, m)
  BY <1>2, <1>3, <1>4, <1>5 DEF PairInv, MainPair
<1>7. WaitsIn(S, device, wi, vct_nadd_index, n_add_slot)
  BY <1>2, <1>3, SlotsWait
<1>8. WaitsIn(T, device', vct_add_index', vct_nadd_index', n_add_slot')
  BY <1>2, SlotsWaitNext
<1>9. device' <=> device
  BY <1>1 DEF device
<1>10. S \subseteq 1 .. L
  BY <1>3, <1>7 DEF WaitsIn
<1>11. \A s \in T : s \in S \/ s = L + 1
  <2>1. CASE device
    BY <1>1, <1>7, <1>8, <1>9, <2>1 DEF WaitsIn
  <2>2. CASE ~device
    <3>1. \A s \in T : s \in DOMAIN vct_add_index'
      BY <1>8 DEF WaitsIn
    <3>2. DOMAIN vct_add_index' = 1 .. L + 1
      <4>1. k \in Nat
        BY KeysAre
      <4>2. QED BY <1>1, <1>3, <4>1
    <3>3. \A s \in 1 .. L : s \in S
      BY <1>3, <1>7, <2>2 DEF WaitsIn
    <3>4. QED BY <3>1, <3>2, <3>3
  <2>3. QED BY <2>1, <2>2
<1>12. CASE ~device \/ n_add_slot > 0
  <2>1. Len(wd) = L
    BY <1>3, <1>4, <1>12 DEF WaitInv
  <2>2. Grows(wi, wd, S, m, Append(wi, k), Append(wd, <<m>>), T, m + 1)
    BY <1>3, <1>6, <1>10, <1>11, <2>1, FilledKeys, AppendGrows
  <2>3. Pair(vct_index, vct_data, Append(wi, k), Append(wd, <<m>>), T, m + 1)
    BY <1>6, <2>2, WaitersGrow
  <2>4. QED BY <1>1, <1>2, <1>3, <1>4, <1>5, <2>3 DEF MainPair, main
<1>13. CASE ~(~device \/ n_add_slot > 0)
  <2>1. n_add_slot' = 0
    BY <1>1, <1>13 DEF AddInv
  <2>2. T = {}
    BY <1>8, <1>9, <1>13, <2>1 DEF WaitsIn
  <2>3. Pair(vct_index, vct_data, vct_add_index', vct_add_data', {}, m + 1)
    BY <1>6, PairLater, FilledKeys, NoneWait
  <2>4. QED BY <1>1, <1>2, <1>5, <2>2, <2>3 DEF MainPair, main
<1>14. QED BY <1>12, <1>13

LEMMA InsertKernelPair ==
  ASSUME AddInv, AddInv', WaitInv, PairInv,
         NEW b \in 1 .. NBlock, NEW k \in Key, NEW inc \in BOOLEAN, InsertKernel(b, k, inc)
  PROVE  MainPair'
<1>1. PICK nslot \in Nat : nslot = n_add_slot /\ nslot > 0
  BY DEF AddInv, InsertKernel
<1>2. PICK at : at = TakenSlot(vct_nadd_index, nslot, b, inc)
  OBVIOUS
<1>3. /\ vct_add_index' = Stored(vct_add_index, nslot, at, k, inc, NoKey)
      /\ vct_add_data' = Stored(vct_add_data, nslot, at, <<next>>, inc, Junk)
      /\ vct_nadd_index' = Counted(vct_nadd_index, b, inc)
      /\ next' = next + 1 /\ n_add_slot' = nslot /\ UNCHANGED <<main, client>>
      /\ "insert kernel" \in client
  BY <1>1, <1>2 DEF InsertKernel
<1>4. PICK S, T : S = ToSet(AddSlots) /\ T = ToSet(AddSlots')
  OBVIOUS
<1>5. PICK wi \in Seq(Nat), L \in Nat :
        wi = vct_add_index /\ L = Len(wi) /\ DOMAIN wi = 1 .. L
  BY DEF AddInv
<1>6. PICK wd \in Seq(Seq(Nat)) : wd = vct_add_data /\ Len(wd) = L
  BY <1>1, <1>5 DEF WaitInv
<1>7. PICK m \in Nat \ {0} : m = next
  BY DEF PairInv
<1>8. Pair(vct_index, vct_data, wi, wd, S, m)
  BY <1>4, <1>5, <1>6, <1>7 DEF PairInv, MainPair
<1>9. device /\ device'
  BY <1>3, KernelOnDevice DEF PairInv, device
<1>10. PICK count \in Seq(Nat) : count = vct_nadd_index
  BY DEF AddInv
<1>11. WaitsIn(S, device, wi, count, nslot)
  BY <1>1, <1>4, <1>5, <1>10, SlotsWait
<1>12. WaitsIn(T, device', vct_add_index', Counted(count, b, inc), nslot)
  BY <1>3, <1>4, <1>10, SlotsWaitNext
<1>13. S \subseteq 1 .. L
  BY <1>5, <1>11 DEF WaitsIn
<1>14. T \subseteq 1 .. L
  <2>1. DOMAIN vct_add_index' = 1 .. L
    BY <1>3, <1>5 DEF Stored
  <2>2. QED BY <1>12, <2>1 DEF WaitsIn
<1>15. \A s \in T : s = at \/ (s \in S /\ (inc \/ s > nslot * NBlock))
  <2>1. SUFFICES ASSUME NEW s \in T PROVE s = at \/ (s \in S /\ (inc \/ s > nslot * NBlock))
    OBVIOUS
  <2>2. Taken(Counted(count, b, inc), nslot, s)
    BY <1>9, <1>12 DEF WaitsIn
  <2>3. \/ s = TakenSlot(count, nslot, b, inc)
        \/ Taken(count, nslot, s) /\ (inc \/ s > nslot * NBlock)
    BY <2>2, TakenNext
  <2>4. Taken(count, nslot, s) => s \in S
    BY <1>1, <1>9, <1>11 DEF WaitsIn
  <2>5. QED BY <1>2, <1>10, <2>3, <2>4
<1>16. PICK wi2, wd2 : wi2 = Stored(wi, nslot, at, k, inc, NoKey) /\ wd2 = Stored(wd, nslot, at, <<m>>, inc, Junk)
  OBVIOUS
<1>17. Grows(wi, wd, S, m, wi2, wd2, T, m + 1)
  BY <1>5, <1>6, <1>8, <1>13, <1>14, <1>15, <1>16, FilledKeys, StoredGrows
<1>18. Pair(vct_index, vct_data, wi2, wd2, T, m + 1)
  BY <1>8, <1>17, WaitersGrow
<1>19. QED BY <1>3, <1>4, <1>5, <1>6, <1>7, <1>16, <1>18 DEF MainPair, main

LEMMA PreFlushPair ==
  ASSUME AddInv', PairInv, NEW j \in Key, NEW k \in Key, PreFlush(j, k)
  PROVE  MainPair'
<1>1. /\ vct_add_index' = <<j, k>> /\ vct_add_data' = <<<<next>>, <<next + 1>>>>
      /\ next' = next + 2 /\ UNCHANGED main
  BY DEF PreFlush
<1>2. PICK S, T : S = ToSet(AddSlots) /\ T = ToSet(AddSlots')
  OBVIOUS
<1>3. PICK m \in Nat \ {0} : m = next
  BY DEF PairInv
<1>4. Pair(vct_index, vct_data, vct_add_index, vct_add_data, S, m)
  BY <1>2, <1>3 DEF PairInv, MainPair
<1>5. T \subseteq DOMAIN vct_add_index'
  BY <1>2, SlotsWaitNext DEF WaitsIn
<1>6. DOMAIN <<j, k>> = 1 .. 2
  OBVIOUS
<1>7. T \subseteq 1 .. 2
  BY <1>1, <1>5, <1>6
<1>8. Grows(vct_add_index, vct_add_data, S, m, <<j, k>>, <<<<m>>, <<m + 1>>>>, T, m + 2)
  BY <1>7, TwoGrow
<1>9. Pair(vct_index, vct_data, <<j, k>>, <<<<m>>, <<m + 1>>>>, T, m + 2)
  BY <1>4, <1>8, WaitersGrow
<1>10. QED BY <1>1, <1>2, <1>3, <1>9 DEF MainPair, main

\* Steps that leave nothing waiting, and the values as they are.
LEMMA NoneLeft ==
  ASSUME AddInv', PairInv, UNCHANGED main, UNCHANGED next,
         ToSet(AddSlots') = {}
  PROVE  MainPair'
<1>1. Filled(vct_index, vct_data, next)
  BY FilledKeys DEF PairInv, MainPair
<1>2. Pair(vct_index, vct_data, vct_add_index', vct_add_data', {}, next)
  BY <1>1, NoneWait
<1>3. QED BY <1>2 DEF MainPair, main

LEMMA NewBufferPair ==
  ASSUME AddInv', PairInv, SetGPUInsertBuffer
  PROVE  MainPair'
<1>1. UNCHANGED main /\ UNCHANGED next /\ UNCHANGED client /\ "insert kernel" \in client
  BY DEF SetGPUInsertBuffer
<1>2. device'
  BY <1>1, KernelOnDevice DEF PairInv, device
<1>3. PICK T : T = ToSet(AddSlots')
  OBVIOUS
<1>4. WaitsIn(T, device', vct_add_index', Zeros(NBlock), NSlot)
  BY <1>3, SlotsWaitNext DEF SetGPUInsertBuffer
<1>5. \A s : ~Taken(Zeros(NBlock), NSlot, s)
  BY DEF Taken, Zeros
<1>6. T = {}
  BY <1>2, <1>4, <1>5 DEF WaitsIn
<1>7. QED BY <1>1, <1>3, <1>6, NoneLeft

LEMMA InsertFlushPair ==
  ASSUME MainInv, PairInv, NEW k \in Key, InsertFlush(k)
  PROVE  MainPair'
<1>1. UNCHANGED <<adds, client>> /\ next' = next + 1
  BY DEF InsertFlush
<1>2. PICK m \in Nat \ {0} : m = next
  BY DEF PairInv
<1>3. PICK S : S = ToSet(AddSlots)
  OBVIOUS
<1>4. Pair(vct_index, vct_data, vct_add_index, vct_add_data, S, m)
  BY <1>2, <1>3 DEF PairInv, MainPair
<1>5. ToSet(AddSlots') = S
  BY <1>1, <1>3 DEF AddSlots, adds, device
<1>6. Keeps(vct_index, vct_data, m, vct_index', vct_data', m + 1)
  <2>1. Assigns(vct_index, vct_data, k, <<m>>, vct_index', vct_data')
    BY <1>2, InsertFlushAssigns
  <2>2. Rising(vct_index)
    BY DEF MainInv
  <2>3. QED BY <1>4, <2>1, <2>2, FilledKeys, AssignsKeeps
<1>7. Pair(vct_index', vct_data', vct_add_index, vct_add_data, S, m + 1)
  BY <1>4, <1>6, ValuesKept
<1>8. QED BY <1>1, <1>2, <1>5, <1>7 DEF MainPair, adds

\* The keys of the remove buffer.
Gone == ToSet(Permuted(vct_rem_index, UsedSlots(Append(vct_nrem_index, 0), n_rem_slot)))

LEMMA RemovePair ==
  ASSUME MainInv, RemInv, PairInv, FlushRemove
  PROVE  MainPair'
<1>1. UNCHANGED <<adds, client>> /\ next' = next
  BY DEF FlushRemove
<1>2. PICK m \in Nat \ {0} : m = next
  BY DEF PairInv
<1>3. PICK S : S = ToSet(AddSlots)
  OBVIOUS
<1>4. Pair(vct_index, vct_data, vct_add_index, vct_add_data, S, m)
  BY <1>2, <1>3 DEF PairInv, MainPair
<1>5. ToSet(AddSlots') = S
  BY <1>1, <1>3 DEF AddSlots, adds, device
<1>6. Keeps(vct_index, vct_data, m, vct_index', vct_data', m)
  <2>1. PICK gone : gone = Gone
    OBVIOUS
  <2>2. RemovesTo(vct_index, vct_data, gone, vct_index', vct_data')
    BY <2>1, FlushRemovesTo DEF Gone
  <2>3. Rising(vct_index)
    BY DEF MainInv
  <2>4. QED BY <1>4, <2>2, <2>3, FilledKeys, RemovesKeeps
<1>7. Pair(vct_index', vct_data', vct_add_index, vct_add_data, S, m)
  BY <1>4, <1>6, ValuesKept
<1>8. QED BY <1>1, <1>2, <1>5, <1>7 DEF MainPair, adds

\* Steps that change no more than the background.
LEMMA SamePair ==
  ASSUME MainInv, PairInv, UNCHANGED <<vct_index, vct_add_index, vct_add_data, next>>,
         \A j \in 1 .. Len(vct_index) : vct_data'[j] = vct_data[j],
         ToSet(AddSlots') = ToSet(AddSlots)
  PROVE  MainPair'
<1>1. PICK m \in Nat \ {0} : m = next
  BY DEF PairInv
<1>2. PICK S : S = ToSet(AddSlots)
  OBVIOUS
<1>3. Pair(vct_index, vct_data, vct_add_index, vct_add_data, S, m)
  BY <1>1, <1>2 DEF PairInv, MainPair
<1>4. PICK data2 : data2 = vct_data'
  OBVIOUS
<1>5. Keeps(vct_index, vct_data, m, vct_index, data2, m)
  BY <1>3, <1>4, FilledKeys, SameKeeps
<1>6. Pair(vct_index, data2, vct_add_index, vct_add_data, S, m)
  BY <1>3, <1>5, ValuesKept
<1>7. QED BY <1>1, <1>2, <1>4, <1>6 DEF MainPair

LEMMA BackgroundKeeps ==
  ASSUME MainInv, SetBackground
  PROVE  \A j \in 1 .. Len(vct_index) : vct_data'[j] = vct_data[j]
<1>1. PICK n \in Nat : n = Len(vct_index) /\ Len(vct_data) = n + 1 /\ Vector(vct_data, n, bck)
  BY MainIs DEF MainInv
<1>2. PICK b : vct_data' = [vct_data EXCEPT ![n + 1] = b]
  BY <1>1 DEF SetBackground
<1>3. PICK d : d = [vct_data EXCEPT ![n + 1] = b]
  OBVIOUS
<1>4. \A j \in 1 .. n + 1 : d[j] = IF j = n + 1 THEN b ELSE vct_data[j]
  <2>1. n + 1 \in 1 .. n + 1
    OBVIOUS
  <2>2. QED BY <1>1, <1>3, <2>1, ExceptVector
<1>5. \A j \in 1 .. n : d[j] = vct_data[j]
  BY <1>4
<1>6. QED BY <1>1, <1>2, <1>3, <1>5

LEMMA NothingKeeps ==
  ASSUME MainInv, FlushOnDeviceNothing
  PROVE  \A j \in 1 .. Len(vct_index) : vct_data'[j] = vct_data[j]
<1>1. vct_data' = Append(Front(vct_data), bck)
  BY DEF FlushOnDeviceNothing
<1>2. PICK n : n = Len(vct_index) /\ Vector(vct_data, n, bck)
  BY DEF MainInv
<1>3. /\ (\E S : Front(vct_data) \in Seq(S)) /\ Len(Front(vct_data)) = n
      /\ \A i \in 1 .. n : Front(vct_data)[i] = vct_data[i]
  BY <1>2, FrontIs
<1>4. PICK f : f = Front(vct_data)
  OBVIOUS
<1>5. \A i \in 1 .. n : Append(f, bck)[i] = f[i]
  BY <1>3, <1>4, AppendVector
<1>6. QED BY <1>1, <1>2, <1>3, <1>4, <1>5

LEMMA NothingSlots ==
  ASSUME AddInv, AddInv', FlushOnDeviceNothing
  PROVE  ToSet(AddSlots') = ToSet(AddSlots)
<1>1. /\ UNCHANGED <<vct_index, vct_add_index, vct_add_data, n_add_slot, next, client>> /\ device
      /\ vct_nadd_index' = vct_nadd_index \/ vct_nadd_index' = Append(vct_nadd_index, 0)
  BY DEF FlushOnDeviceNothing
<1>2. PICK S, T : S = ToSet(AddSlots) /\ T = ToSet(AddSlots')
  OBVIOUS
<1>3. WaitsIn(S, device, vct_add_index, vct_nadd_index, n_add_slot)
  BY <1>2, SlotsWait
<1>4. WaitsIn(T, device', vct_add_index', vct_nadd_index', n_add_slot')
  BY <1>2, SlotsWaitNext
<1>5. device'
  BY <1>1 DEF device
<1>6. \A s : Taken(vct_nadd_index', n_add_slot', s) <=> Taken(vct_nadd_index, n_add_slot, s)
  <2>1. CASE vct_nadd_index' = vct_nadd_index
    BY <1>1, <2>1
  <2>2. CASE vct_nadd_index' = Append(vct_nadd_index, 0)
    <3>1. PICK count \in Seq(Nat) : count = vct_nadd_index
      BY DEF AddInv
    <3>a. PICK nslot : nslot = n_add_slot
      OBVIOUS
    <3>2. \A s : Taken(Append(count, 0), nslot, s) <=> Taken(count, nslot, s)
      BY TakenAppend
    <3>3. QED BY <1>1, <2>2, <3>1, <3>a, <3>2
  <2>3. QED BY <1>1, <2>1, <2>2
<1>7. T = S
  <2>1. \A s : s \in T <=> n_add_slot' # 0 /\ Taken(vct_nadd_index', n_add_slot', s)
    BY <1>4, <1>5 DEF WaitsIn
  <2>2. \A s : s \in S <=> n_add_slot # 0 /\ Taken(vct_nadd_index, n_add_slot, s)
    BY <1>1, <1>3 DEF WaitsIn
  <2>3. QED BY <1>1, <1>6, <2>1, <2>2
<1>8. QED BY <1>2, <1>7

LEMMA NothingPair ==
  ASSUME MainInv, AddInv, AddInv', PairInv, FlushOnDeviceNothing
  PROVE  MainPair'
<1>1. UNCHANGED <<vct_index, vct_add_index, vct_add_data, next>>
  BY DEF FlushOnDeviceNothing
<1>2. QED BY <1>1, NothingSlots, NothingKeeps, SamePair

LEMMA HostFlushPair ==
  ASSUME MainInv, AddInv, WaitInv, ValuesInv, PairInv, FlushOnHost
  PROVE  MainPair'
<1>1. /\ ~device /\ vct_add_index' = <<>> /\ next' = next /\ client' = client
  BY DEF FlushOnHost
<1>2. ToSet(AddSlots') = {}
  BY <1>1, NoSlots DEF AddSlots, device
<1>3. FlushesTo(vct_index, vct_data, vct_index', vct_data', ToSet(AddSlots), vct_add_index, vct_add_data)
  BY HostFlushesTo DEF PairInv
<1>4. PICK S, m : S = ToSet(AddSlots) /\ m = next /\ m \in Nat \ {0}
  BY DEF PairInv
<1>5. Pair(vct_index, vct_data, vct_add_index, vct_add_data, S, m)
  BY <1>4 DEF PairInv, MainPair
<1>6. Rising(vct_index)
  BY DEF MainInv
<1>7. Pair(vct_index', vct_data', vct_add_index', vct_add_data', {}, m)
  BY <1>3, <1>4, <1>5, <1>6, FlushFills
<1>8. QED BY <1>1, <1>2, <1>4, <1>7 DEF MainPair

LEMMA DeviceFlushPair ==
  ASSUME MainInv, AddInv, WaitInv, ValuesInv, PairInv, FlushOnDevice
  PROVE  MainPair'
<1>1. device /\ n_add_slot' = 0 /\ next' = next /\ client' = client
  BY DEF FlushOnDevice
<1>2. ToSet(AddSlots') = {}
  BY <1>1, NoSlots DEF AddSlots, device
<1>3. FlushesTo(vct_index, vct_data, vct_index', vct_data', ToSet(AddSlots), vct_add_index, vct_add_data)
  BY DeviceFlushesTo DEF PairInv
<1>4. PICK S, m : S = ToSet(AddSlots) /\ m = next /\ m \in Nat \ {0}
  BY DEF PairInv
<1>5. Pair(vct_index, vct_data, vct_add_index, vct_add_data, S, m)
  BY <1>4 DEF PairInv, MainPair
<1>6. Rising(vct_index)
  BY DEF MainInv
<1>7. Pair(vct_index', vct_data', vct_add_index', vct_add_data', {}, m)
  BY <1>3, <1>4, <1>5, <1>6, FlushFills
<1>8. QED BY <1>1, <1>2, <1>4, <1>7 DEF MainPair

LEMMA ClearPair ==
  ASSUME Clear
  PROVE  MainPair'
<1>1. vct_index' = <<>> /\ vct_add_index' = <<>> /\ n_add_slot' = 0
  BY DEF Clear
<1>2. ToSet(AddSlots') = {}
  BY <1>1, NoSlots DEF AddSlots
<1>3. Pair(<<>>, vct_data', vct_add_index', vct_add_data', {}, next')
  BY NothingFilled, NoneWait
<1>4. QED BY <1>1, <1>2, <1>3 DEF MainPair

LEMMA UnusedPair ==
  ASSUME AddInv', PairInv, RemoveUnusedBuffers
  PROVE  MainPair'
<1>1. /\ UNCHANGED <<main, vct_add_index, n_add_slot, next, client>> /\ n_add_slot = 0
      /\ device \/ vct_add_index = <<>>
  BY DEF RemoveUnusedBuffers
<1>2. ToSet(AddSlots') = {}
  BY <1>1, NoSlots DEF AddSlots, device
<1>3. QED BY <1>1, <1>2, NoneLeft

LEMMA SwapSlots ==
  ASSUME Swap
  PROVE  AddSlots' = OtherSlots /\ OtherSlots' = AddSlots
<1>1. /\ n_add_slot = 0 /\ n_add_slot' = n_add_slot /\ client' = client
      /\ vct_add_index' = other.add_index /\ other'.add_index = vct_add_index
  BY DEF Swap
<1>2. QED BY <1>1 DEF AddSlots, OtherSlots, device

LEMMA SwapPair ==
  ASSUME PairInv, Swap
  PROVE  MainPair' /\ OtherPair'
<1>1. /\ vct_index' = other.index /\ vct_data' = other.data /\ next' = next
      /\ vct_add_index' = other.add_index /\ vct_add_data' = other.add_data
      /\ other'.index = vct_index /\ other'.data = vct_data
      /\ other'.add_index = vct_add_index /\ other'.add_data = vct_add_data
  BY DEF Swap
<1>2. QED BY <1>1, SwapSlots DEF PairInv, MainPair, OtherPair

\* The number of the next insertion never falls.
LEMMA NextGrows ==
  ASSUME PairInv, [Next]_vars
  PROVE  next' \in Nat \ {0} /\ next <= next' /\ client' = client
<1>1. client' = client /\ (UNCHANGED next \/ next' = next + 1 \/ next' = next + 2)
  BY DEF Next, vars, Insert, InsertFlush, PreFlush, InsertKernel, RemoveKernel, SetBackground,
         SetGPUInsertBuffer, SetGPURemoveBuffer, FlushOnHost, FlushOnDeviceNothing,
         FlushOnDevice, FlushRemove, Clear, Swap, RemoveUnusedBuffers
<1>2. QED BY <1>1 DEF PairInv

LEMMA OtherPairStep ==
  ASSUME PairInv, [Next]_vars, ~Swap
  PROVE  OtherPair'
<1>1. UNCHANGED other
  BY DEF Next, vars, Insert, InsertFlush, PreFlush, InsertKernel, RemoveKernel, SetBackground,
     SetGPUInsertBuffer, SetGPURemoveBuffer, FlushOnHost, FlushOnDeviceNothing,
     FlushOnDevice, FlushRemove, Clear, RemoveUnusedBuffers
<1>2. next \in Nat \ {0} /\ next' \in Nat \ {0} /\ next <= next' /\ client' = client
  BY NextGrows DEF PairInv
<1>3. PICK m \in Nat \ {0}, n \in Nat \ {0} : m = next /\ n = next' /\ m <= n
  BY <1>2
<1>4. PICK S : S = ToSet(OtherSlots)
  OBVIOUS
<1>5. ToSet(OtherSlots') = S
  BY <1>1, <1>2, <1>4 DEF OtherSlots, device
<1>6. Pair(other.index, other.data, other.add_index, other.add_data, S, m)
  BY <1>3, <1>4 DEF PairInv, OtherPair
<1>7. Pair(other.index, other.data, other.add_index, other.add_data, S, n)
  BY <1>3, <1>6, PairLater
<1>8. QED BY <1>1, <1>3, <1>5, <1>7 DEF OtherPair

LEMMA MainPairStep ==
  ASSUME SvInv, ValuesInv, WaitInv, PairInv, [Next]_vars
  PROVE  MainPair'
<1>0. MainInv /\ AddInv /\ RemInv /\ AddInv'
  BY AddStep DEF SvInv
<1>1. CASE UNCHANGED <<main, adds, client, next>>
  <2>1. ToSet(AddSlots') = ToSet(AddSlots)
    BY <1>1 DEF AddSlots, adds, device
  <2>2. QED BY <1>1, <2>1 DEF PairInv, MainPair, main, adds
<1>2. ASSUME NEW k \in Key, Insert(k) PROVE MainPair'
  BY <1>0, <1>2, InsertPair
<1>3. ASSUME NEW k \in Key, InsertFlush(k) PROVE MainPair'
  BY <1>0, <1>3, InsertFlushPair
<1>4. ASSUME NEW j \in Key, NEW k \in Key, PreFlush(j, k) PROVE MainPair'
  BY <1>0, <1>4, PreFlushPair
<1>5. ASSUME NEW b \in 1 .. NBlock, NEW k \in Key, NEW inc \in BOOLEAN, InsertKernel(b, k, inc)
      PROVE  MainPair'
  BY <1>0, <1>5, InsertKernelPair
<1>6. ASSUME NEW b \in 1 .. NBlock, NEW k \in Key, NEW inc \in BOOLEAN, RemoveKernel(b, k, inc)
      PROVE  MainPair'
  BY <1>1, <1>6 DEF RemoveKernel
<1>7. CASE SetBackground
  <2>1. UNCHANGED <<vct_index, adds, client, next>>
    BY <1>7 DEF SetBackground
  <2>2. ToSet(AddSlots') = ToSet(AddSlots)
    BY <2>1 DEF AddSlots, adds, device
  <2>3. UNCHANGED <<vct_index, vct_add_index, vct_add_data, next>>
    BY <2>1 DEF adds
  <2>4. QED BY <1>0, <1>7, <2>2, <2>3, BackgroundKeeps, SamePair
<1>8. CASE SetGPUInsertBuffer
  BY <1>0, <1>8, NewBufferPair
<1>9. CASE SetGPURemoveBuffer
  BY <1>1, <1>9 DEF SetGPURemoveBuffer
<1>10. CASE FlushOnHost
  BY <1>0, <1>10, HostFlushPair
<1>11. CASE FlushOnDeviceNothing
  BY <1>0, <1>11, NothingPair
<1>12. CASE FlushOnDevice
  BY <1>0, <1>12, DeviceFlushPair
<1>13. CASE FlushRemove
  BY <1>0, <1>13, RemovePair
<1>14. CASE Clear
  BY <1>14, ClearPair
<1>15. CASE Swap
  BY <1>15, SwapPair
<1>16. CASE RemoveUnusedBuffers
  BY <1>0, <1>16, UnusedPair
<1>17. CASE UNCHANGED vars
  BY <1>1, <1>17 DEF vars
<1>18. QED
  BY <1>2, <1>3, <1>4, <1>5, <1>6, <1>7, <1>8, <1>9, <1>10, <1>11, <1>12, <1>13, <1>14, <1>15, <1>16,
     <1>17 DEF Next

LEMMA PairStep == SvInv /\ ValuesInv /\ WaitInv /\ PairInv /\ [Next]_vars => PairInv'
<1> SUFFICES ASSUME SvInv, ValuesInv, WaitInv, PairInv, [Next]_vars PROVE PairInv'
  OBVIOUS
<1>1. MainPair'
  BY MainPairStep
<1>2. OtherPair'
  BY SwapPair, OtherPairStep
<1>3. next' \in Nat \ {0} /\ client' \in Clients
  BY NextGrows DEF PairInv
<1>4. QED BY <1>1, <1>2, <1>3 DEF PairInv

-----------------------------------------------------------------------------
(* Types.                                                                  *)

LEMMA AppendTyped ==
  ASSUME NEW A, NEW s, s \in Seq(A), NEW e, e \in A
  PROVE  Append(s, e) \in Seq(A)
OBVIOUS

LEMMA StoredTyped ==
  ASSUME NEW A, NEW pool, pool \in Seq(A), NEW x, x \in A, NEW nothing, nothing \in A,
         NEW nslot, NEW at, NEW inc
  PROVE  Stored(pool, nslot, at, x, inc, nothing) \in Seq(A)
<1>1. PICK n \in Nat : n = Len(pool) /\ DOMAIN pool = 1 .. n /\ \A i \in 1 .. n : pool[i] \in A
  OBVIOUS
<1>2. PICK f : f = Stored(pool, nslot, at, x, inc, nothing)
  OBVIOUS
<1>3. PICK last : last = nslot * NBlock
  OBVIOUS
<1>4. f = [i \in 1 .. n |-> IF i = at THEN x ELSE IF inc \/ i > last THEN pool[i] ELSE nothing]
  BY <1>1, <1>2, <1>3 DEF Stored
<1>5. f \in [1 .. n -> A]
  BY <1>1, <1>4
<1>6. f \in Seq(A)
  BY <1>5
<1>7. QED BY <1>2, <1>6

LEMMA ConstTyped ==
  ASSUME NEW A, NEW x, x \in A, NEW n \in Nat
  PROVE  [i \in 1 .. n |-> x] \in Seq(A)
<1>1. PICK f : f = [i \in 1 .. n |-> x]
  OBVIOUS
<1>2. f \in [1 .. n -> A]
  BY <1>1
<1>3. f \in Seq(A)
  BY <1>2
<1>4. QED BY <1>1, <1>3

LEMMA NothingTyped ==
  ASSUME NEW A
  PROVE  <<>> \in Seq(A)
OBVIOUS

LEMMA CountedTyped ==
  ASSUME NEW N \in Nat \ {0}, NEW T, T = 0 .. N, NEW count, count \in Seq(T),
         NEW b \in 1 .. NBlock, NEW inc \in BOOLEAN, inc /\ b \in DOMAIN count => count[b] < N
  PROVE  Counted(count, b, inc) \in Seq(T)
<1>1. PICK n \in Nat : n = Len(count) /\ DOMAIN count = 1 .. n /\ \A i \in 1 .. n : count[i] \in T
  OBVIOUS
<1>2. PICK B \in Nat : B = NBlock
  BY SparseVectorAssumption
<1>3. PICK f : f = Counted(count, b, inc)
  OBVIOUS
<1>4. f = [c \in 1 .. n |-> (IF inc \/ c > B THEN count[c] ELSE 0) + IF c = b THEN 1 ELSE 0]
  BY <1>1, <1>2, <1>3 DEF Counted
<1>5. ASSUME NEW c \in 1 .. n PROVE f[c] \in T
  <2>1. count[c] \in 0 .. N
    BY <1>1
  <2>2. f[c] = (IF inc \/ c > B THEN count[c] ELSE 0) + IF c = b THEN 1 ELSE 0
    BY <1>4
  <2>3. CASE c = b
    <3>1. inc => count[c] < N
      BY <1>1, <2>3
    <3>2. QED BY <1>2, <2>1, <2>2, <2>3, <3>1
  <2>4. CASE c # b
    BY <2>1, <2>2, <2>4
  <2>5. QED BY <2>3, <2>4
<1>6. f = [c \in 1 .. n |-> f[c]]
  BY <1>4
<1>7. f \in [1 .. n -> T]
  BY <1>5, <1>6
<1>8. f \in Seq(T)
  BY <1>7
<1>9. QED BY <1>3, <1>8

LEMMA OneIsValue ==
  ASSUME NEW n \in Ins
  PROVE  <<n>> \in Value
<1>1. 1 \in 1 .. MaxInsert
  BY SparseVectorAssumption DEF Ins
<1>2. <<n>> \in [1 .. 1 -> Ins]
  OBVIOUS
<1>3. QED BY <1>1, <1>2 DEF Value

\* A value that holds numbers given out, each once, is no longer than there are
\* numbers.
LEMMA PlainIsValue ==
  ASSUME NEW v, Plain(v), v # <<>>, ToSet(v) \subseteq Ins
  PROVE  v \in Value
<1>1. PICK l \in Nat : l = Len(v) /\ DOMAIN v = 1 .. l /\ l # 0
  BY DEF Plain
<1>2. v \in [1 .. l -> Ins]
  <2>1. v = [i \in 1 .. l |-> v[i]]
    BY <1>1 DEF Plain
  <2>2. \A i \in 1 .. l : v[i] \in Ins
    BY <1>1 DEF ToSet
  <2>3. QED BY <2>1, <2>2
<1>3. PICK M \in Nat : M = MaxInsert
  BY SparseVectorAssumption
<1>4. ~(M < l)
  <2>1. SUFFICES ASSUME M < l PROVE FALSE
    OBVIOUS
  <2>2. IsFiniteSet(1 .. l) /\ Cardinality(1 .. l) = l
    <3>1. 1 \in Int /\ l \in Int /\ ~(1 > l) /\ l - 1 + 1 = l
      BY <1>1
    <3>2. QED BY <3>1, FS_Interval
  <2>3. IsFiniteSet(1 .. M) /\ Cardinality(1 .. M) = M
    BY FS_Interval
  <2>4. PICK X, Y : X = 1 .. l /\ Y = 1 .. M
    OBVIOUS
  <2>5. v \in [X -> Y] /\ IsFiniteSet(X) /\ IsFiniteSet(Y) /\ Cardinality(Y) < Cardinality(X)
    BY <1>2, <1>3, <2>1, <2>2, <2>3, <2>4 DEF Ins
  <2>6. \E x, y \in X : x # y /\ v[x] = v[y]
    BY <2>5, FS_PigeonHole
  <2>7. QED BY <1>1, <2>4, <2>6 DEF Plain
<1>5. l \in 1 .. MaxInsert
  BY <1>1, <1>3, <1>4
<1>6. QED BY <1>2, <1>5 DEF Value

AddTyped ==
  /\ vct_add_index \in Seq(Key \cup {NoKey}) /\ other.add_index \in Seq(Key \cup {NoKey})
  /\ vct_add_data \in Seq(Value \cup {Junk}) /\ other.add_data \in Seq(Value \cup {Junk})
CountTyped == vct_nadd_index \in Seq(0 .. NSlot) /\ n_add_slot \in {0, 1, NSlot}
RemTyped ==
  /\ vct_rem_index \in Seq(Key \cup {NoKey})
  /\ vct_nrem_index \in Seq(0 .. NSlot) /\ n_rem_slot \in {0, NSlot}
NextTyped == next \in 1 .. MaxInsert + 1 /\ bck \in Backgrounds

LEMMA TypeInit == Init => AddTyped /\ CountTyped /\ RemTyped /\ NextTyped
<1> SUFFICES ASSUME Init PROVE AddTyped /\ CountTyped /\ RemTyped /\ NextTyped
  OBVIOUS
<1>1. /\ vct_add_index = <<>> /\ vct_add_data = <<>> /\ other.add_index = <<>> /\ other.add_data = <<>>
      /\ vct_nadd_index = <<>> /\ n_add_slot = 0
      /\ vct_rem_index = <<>> /\ vct_nrem_index = <<>> /\ n_rem_slot = 0 /\ next = 1
      /\ bck = (CHOOSE b \in Backgrounds : TRUE)
  BY DEF Init
<1>2. AddTyped
  BY <1>1, NothingTyped DEF AddTyped
<1>3. CountTyped /\ RemTyped
  BY <1>1, NothingTyped DEF CountTyped, RemTyped
<1>4. bck \in Backgrounds
  BY <1>1, SparseVectorAssumption
<1>5. 1 \in 1 .. MaxInsert + 1
  BY SparseVectorAssumption
<1>6. QED BY <1>1, <1>2, <1>3, <1>4, <1>5 DEF NextTyped

LEMMA PoolSize == NBlock \in Nat /\ NSlot \in Nat \ {0} /\ NBlock * NSlot \in Nat
<1>1. NBlock \in Nat /\ NSlot \in Nat \ {0}
  BY SparseVectorAssumption
<1>2. QED BY <1>1

LEMMA AddTypeStep == AddTyped /\ [Next]_vars => AddTyped'
<1> SUFFICES ASSUME AddTyped, [Next]_vars PROVE AddTyped'
  OBVIOUS
<1>1. PICK A, V : A = Key \cup {NoKey} /\ V = Value \cup {Junk}
  OBVIOUS
<1>2. /\ vct_add_index \in Seq(A) /\ other.add_index \in Seq(A)
      /\ vct_add_data \in Seq(V) /\ other.add_data \in Seq(V)
  BY <1>1 DEF AddTyped
<1>3. ASSUME vct_add_index' \in Seq(A), vct_add_data' \in Seq(V), other' = other
      PROVE  AddTyped'
  BY <1>1, <1>2, <1>3 DEF AddTyped
<1>4. CASE UNCHANGED <<vct_add_index, vct_add_data, other>>
  BY <1>2, <1>3, <1>4
<1>5. ASSUME NEW k \in Key, Insert(k) PROVE AddTyped'
  <2>1. /\ vct_add_index' = Append(vct_add_index, k) /\ vct_add_data' = Append(vct_add_data, <<next>>)
        /\ other' = other /\ next \in Ins
    BY <1>5 DEF Insert
  <2>2. PICK e : e = <<next>> /\ e \in V /\ k \in A
    BY <1>1, <2>1, OneIsValue
  <2>3. QED BY <1>2, <1>3, <2>1, <2>2, AppendTyped
<1>6. ASSUME NEW j \in Key, NEW k \in Key, PreFlush(j, k) PROVE AddTyped'
  <2>1. /\ vct_add_index' = <<j, k>> /\ vct_add_data' = <<<<next>>, <<next + 1>>>>
        /\ other' = other /\ next \in Ins /\ next + 1 \in Ins
    BY <1>6 DEF PreFlush
  <2>2. PICK d, e : d = <<next>> /\ e = <<next + 1>> /\ d \in V /\ e \in V
    BY <1>1, <2>1, OneIsValue
  <2>3. j \in A /\ k \in A
    BY <1>1
  <2>4. <<j, k>> \in Seq(A) /\ <<d, e>> \in Seq(V)
    BY <2>2, <2>3
  <2>5. QED BY <1>3, <2>1, <2>2, <2>4
<1>7. ASSUME NEW b \in 1 .. NBlock, NEW k \in Key, NEW inc \in BOOLEAN, InsertKernel(b, k, inc)
      PROVE  AddTyped'
  <2>1. PICK at :
          /\ vct_add_index' = Stored(vct_add_index, n_add_slot, at, k, inc, NoKey)
          /\ vct_add_data' = Stored(vct_add_data, n_add_slot, at, <<next>>, inc, Junk)
          /\ next \in Ins /\ other' = other
    BY <1>7 DEF InsertKernel
  <2>2. PICK e : e = <<next>> /\ e \in V /\ k \in A /\ NoKey \in A /\ Junk \in V
    BY <1>1, <2>1, OneIsValue
  <2>3. Stored(vct_add_index, n_add_slot, at, k, inc, NoKey) \in Seq(A)
    BY <1>2, <2>2, StoredTyped
  <2>4. Stored(vct_add_data, n_add_slot, at, e, inc, Junk) \in Seq(V)
    BY <1>2, <2>2, StoredTyped
  <2>5. QED BY <1>3, <2>1, <2>2, <2>3, <2>4
<1>8. CASE SetGPUInsertBuffer
  <2>1. PICK p \in Nat : p = NBlock * NSlot
    BY PoolSize
  <2>2. /\ vct_add_index' = [i \in 1 .. p |-> NoKey] /\ vct_add_data' = [i \in 1 .. p |-> Junk]
        /\ other' = other
    BY <1>8, <2>1 DEF SetGPUInsertBuffer
  <2>3. NoKey \in A /\ Junk \in V
    BY <1>1
  <2>4. [i \in 1 .. p |-> NoKey] \in Seq(A) /\ [i \in 1 .. p |-> Junk] \in Seq(V)
    BY <2>3, ConstTyped
  <2>5. QED BY <1>3, <2>2, <2>4
<1>9. CASE FlushOnHost \/ Clear
  <2>1. vct_add_index' = <<>> /\ vct_add_data' = <<>> /\ other' = other
    BY <1>9 DEF FlushOnHost, Clear
  <2>2. QED BY <1>3, <2>1, NothingTyped
<1>10. CASE FlushOnDevice
  <2>1. /\ vct_add_index' = [i \in DOMAIN vct_add_index |-> NoKey]
        /\ vct_add_data' = [i \in DOMAIN vct_add_data |-> Junk] /\ other' = other
    BY <1>10 DEF FlushOnDevice
  <2>2. PICK p \in Nat : DOMAIN vct_add_index = 1 .. p
    BY <1>2
  <2>3. PICK q \in Nat : DOMAIN vct_add_data = 1 .. q
    BY <1>2
  <2>4. NoKey \in A /\ Junk \in V
    BY <1>1
  <2>5. [i \in 1 .. p |-> NoKey] \in Seq(A) /\ [i \in 1 .. q |-> Junk] \in Seq(V)
    BY <2>4, ConstTyped
  <2>6. QED BY <1>3, <2>1, <2>2, <2>3, <2>5
<1>11. CASE RemoveUnusedBuffers
  <2>1. vct_add_index' = vct_add_index /\ vct_add_data' = <<>> /\ other' = other
    BY <1>11 DEF RemoveUnusedBuffers
  <2>2. QED BY <1>2, <1>3, <2>1, NothingTyped
<1>12. CASE Swap
  <2>1. /\ vct_add_index' = other.add_index /\ vct_add_data' = other.add_data
        /\ other'.add_index = vct_add_index /\ other'.add_data = vct_add_data
    BY <1>12 DEF Swap
  <2>2. QED BY <1>1, <1>2, <2>1 DEF AddTyped
<1>13. \/ UNCHANGED <<vct_add_index, vct_add_data, other>>
       \/ (\E k \in Key : Insert(k)) \/ (\E j, k \in Key : PreFlush(j, k))
       \/ \E b \in 1 .. NBlock, k \in Key, inc \in BOOLEAN : InsertKernel(b, k, inc)
       \/ SetGPUInsertBuffer \/ FlushOnHost \/ Clear \/ FlushOnDevice \/ RemoveUnusedBuffers \/ Swap
  BY DEF Next, vars, adds, InsertFlush, RemoveKernel, SetBackground, SetGPURemoveBuffer,
         FlushOnDeviceNothing, FlushRemove
<1>14. QED BY <1>4, <1>5, <1>6, <1>7, <1>8, <1>9, <1>10, <1>11, <1>12, <1>13

LEMMA CountTypeStep == CountTyped /\ [Next]_vars => CountTyped'
<1> SUFFICES ASSUME CountTyped, [Next]_vars PROVE CountTyped'
  OBVIOUS
<1>1. PICK N \in Nat \ {0} : N = NSlot
  BY PoolSize
<1>2. PICK T : T = 0 .. N
  OBVIOUS
<1>3. vct_nadd_index \in Seq(T) /\ n_add_slot \in {0, 1, N}
  BY <1>1, <1>2 DEF CountTyped
<1>4. 0 \in T /\ 1 \in T
  BY <1>2
<1>5. CASE UNCHANGED <<vct_nadd_index, n_add_slot>>
  BY <1>5 DEF CountTyped
<1>6. ASSUME NEW j \in Key, NEW k \in Key, PreFlush(j, k) PROVE CountTyped'
  <2>1. vct_nadd_index' = [i \in 1 .. 2 |-> 1] /\ n_add_slot' = 1
    BY <1>6 DEF PreFlush
  <2>2. [i \in 1 .. 2 |-> 1] \in Seq(T)
    BY <1>4, ConstTyped
  <2>3. QED BY <1>1, <1>2, <2>1, <2>2 DEF CountTyped
<1>7. ASSUME NEW b \in 1 .. NBlock, NEW k \in Key, NEW inc \in BOOLEAN, InsertKernel(b, k, inc)
      PROVE  CountTyped'
  <2>1. /\ vct_nadd_index' = Counted(vct_nadd_index, b, inc) /\ n_add_slot' = n_add_slot
        /\ inc => vct_nadd_index[b] < n_add_slot
    BY <1>7 DEF InsertKernel
  <2>2. inc /\ b \in DOMAIN vct_nadd_index => vct_nadd_index[b] < N
    <3>1. SUFFICES ASSUME inc, b \in DOMAIN vct_nadd_index PROVE vct_nadd_index[b] < N
      OBVIOUS
    <3>2. vct_nadd_index[b] \in 0 .. N
      BY <1>2, <1>3, <3>1
    <3>3. QED BY <1>3, <2>1, <3>1, <3>2
  <2>3. Counted(vct_nadd_index, b, inc) \in Seq(T)
    BY <1>2, <1>3, <2>2, CountedTyped
  <2>4. QED BY <1>1, <1>2, <1>3, <2>1, <2>3 DEF CountTyped
<1>8. CASE SetGPUInsertBuffer
  <2>1. PICK B \in Nat : B = NBlock
    BY PoolSize
  <2>2. vct_nadd_index' = [b \in 1 .. B |-> 0] /\ n_add_slot' = N
    BY <1>1, <1>8, <2>1 DEF SetGPUInsertBuffer, Zeros
  <2>3. [b \in 1 .. B |-> 0] \in Seq(T)
    BY <1>4, ConstTyped
  <2>4. QED BY <1>1, <1>2, <2>2, <2>3 DEF CountTyped
<1>9. CASE FlushOnDeviceNothing \/ FlushOnDevice
  <2>1. /\ vct_nadd_index' = vct_nadd_index \/ vct_nadd_index' = Append(vct_nadd_index, 0)
        /\ n_add_slot' = n_add_slot \/ n_add_slot' = 0
    BY <1>9 DEF FlushOnDeviceNothing, FlushOnDevice
  <2>2. Append(vct_nadd_index, 0) \in Seq(T)
    BY <1>3, <1>4, AppendTyped
  <2>3. QED BY <1>1, <1>2, <1>3, <2>1, <2>2 DEF CountTyped
<1>10. CASE Clear
  BY <1>10 DEF Clear, CountTyped
<1>11. \/ UNCHANGED <<vct_nadd_index, n_add_slot>>
       \/ (\E j, k \in Key : PreFlush(j, k))
       \/ \E b \in 1 .. NBlock, k \in Key, inc \in BOOLEAN : InsertKernel(b, k, inc)
       \/ SetGPUInsertBuffer \/ FlushOnDeviceNothing \/ FlushOnDevice \/ Clear
  BY DEF Next, vars, adds, Insert, InsertFlush, RemoveKernel, SetBackground, SetGPURemoveBuffer,
         FlushOnHost, FlushRemove, Swap, RemoveUnusedBuffers
<1>12. QED BY <1>5, <1>6, <1>7, <1>8, <1>9, <1>10, <1>11

LEMMA RemTypeStep == RemTyped /\ [Next]_vars => RemTyped'
<1> SUFFICES ASSUME RemTyped, [Next]_vars PROVE RemTyped'
  OBVIOUS
<1>1. PICK N \in Nat \ {0} : N = NSlot
  BY PoolSize
<1>2. PICK T, A : T = 0 .. N /\ A = Key \cup {NoKey}
  OBVIOUS
<1>3. vct_rem_index \in Seq(A) /\ vct_nrem_index \in Seq(T) /\ n_rem_slot \in {0, N}
  BY <1>1, <1>2 DEF RemTyped
<1>4. 0 \in T /\ NoKey \in A
  BY <1>2
<1>5. CASE UNCHANGED rems
  BY <1>5 DEF RemTyped, rems
<1>6. ASSUME NEW b \in 1 .. NBlock, NEW k \in Key, NEW inc \in BOOLEAN, RemoveKernel(b, k, inc)
      PROVE  RemTyped'
  <2>1. PICK at :
          /\ vct_rem_index' = Stored(vct_rem_index, n_rem_slot, at, k, inc, NoKey)
          /\ vct_nrem_index' = Counted(vct_nrem_index, b, inc) /\ n_rem_slot' = n_rem_slot
          /\ inc => vct_nrem_index[b] < n_rem_slot /\ n_rem_slot > 0
    BY <1>6 DEF RemoveKernel
  <2>2. inc => vct_nrem_index[b] < N
    BY <1>3, <2>1
  <2>3. Counted(vct_nrem_index, b, inc) \in Seq(T)
    BY <1>2, <1>3, <2>2, CountedTyped
  <2>4. k \in A
    BY <1>2
  <2>5. Stored(vct_rem_index, n_rem_slot, at, k, inc, NoKey) \in Seq(A)
    BY <1>3, <1>4, <2>4, StoredTyped
  <2>6. QED BY <1>1, <1>2, <1>3, <2>1, <2>3, <2>5 DEF RemTyped
<1>7. CASE SetGPURemoveBuffer
  <2>1. PICK B \in Nat, p \in Nat : B = NBlock /\ p = NBlock * NSlot
    BY PoolSize
  <2>2. /\ vct_rem_index' = [i \in 1 .. p |-> NoKey]
        /\ vct_nrem_index' = [b \in 1 .. B |-> 0] /\ n_rem_slot' = N
    BY <1>1, <1>7, <2>1 DEF SetGPURemoveBuffer, Zeros
  <2>3. [b \in 1 .. B |-> 0] \in Seq(T)
    BY <1>4, ConstTyped
  <2>4. [i \in 1 .. p |-> NoKey] \in Seq(A)
    BY <1>4, ConstTyped
  <2>5. QED BY <1>1, <1>2, <2>2, <2>3, <2>4 DEF RemTyped
<1>8. CASE FlushRemove
  <2>1. /\ vct_rem_index' = vct_rem_index /\ n_rem_slot' = n_rem_slot
        /\ vct_nrem_index' = Append(vct_nrem_index, 0)
    BY <1>8 DEF FlushRemove
  <2>2. Append(vct_nrem_index, 0) \in Seq(T)
    BY <1>3, <1>4, AppendTyped
  <2>3. QED BY <1>1, <1>2, <1>3, <2>1, <2>2 DEF RemTyped
<1>9. CASE Clear
  BY <1>9 DEF Clear, RemTyped
<1>10. \/ UNCHANGED rems
       \/ \E b \in 1 .. NBlock, k \in Key, inc \in BOOLEAN : RemoveKernel(b, k, inc)
       \/ SetGPURemoveBuffer \/ FlushRemove \/ Clear
  BY DEF Next, vars, Insert, InsertFlush, PreFlush, InsertKernel, SetBackground,
         SetGPUInsertBuffer, FlushOnHost, FlushOnDeviceNothing,
         FlushOnDevice, Swap, RemoveUnusedBuffers
<1>11. QED BY <1>5, <1>6, <1>7, <1>8, <1>9, <1>10

LEMMA NextTypeStep == NextTyped /\ [Next]_vars => NextTyped'
<1> SUFFICES ASSUME NextTyped, [Next]_vars PROVE NextTyped'
  OBVIOUS
<1>1. bck' \in Backgrounds
  <2>1. bck' = bck \/ bck' \in Backgrounds
    BY DEF Next, vars, main, Insert, InsertFlush, PreFlush, InsertKernel, RemoveKernel, SetBackground,
           SetGPUInsertBuffer, SetGPURemoveBuffer, FlushOnHost, FlushOnDeviceNothing,
           FlushOnDevice, FlushRemove, Clear, Swap, RemoveUnusedBuffers
  <2>2. QED BY <2>1 DEF NextTyped
<1>2. next' \in 1 .. MaxInsert + 1
  <2>1. \/ next' = next \/ (next' = next + 1 /\ next \in Ins)
        \/ (next' = next + 2 /\ next \in Ins /\ next + 1 \in Ins)
    BY DEF Next, vars, main, Insert, InsertFlush, PreFlush, InsertKernel, RemoveKernel, SetBackground,
           SetGPUInsertBuffer, SetGPURemoveBuffer, FlushOnHost, FlushOnDeviceNothing,
           FlushOnDevice, FlushRemove, Clear, Swap, RemoveUnusedBuffers
  <2>2. MaxInsert \in Nat
    BY SparseVectorAssumption
  <2>3. QED BY <2>1, <2>2 DEF NextTyped, Ins
<1>3. QED BY <1>1, <1>2 DEF NextTyped

-----------------------------------------------------------------------------
(* The vector as a map.                                                    *)

Content == Contents(vct_index, vct_data)
Pending == Waiting(vct_add_index, vct_add_data, AddSlots)
Doomed == IF n_rem_slot = 0 THEN {}
          ELSE ToSet(Permuted(vct_rem_index, UsedSlots(vct_nrem_index, n_rem_slot)))
Spare == [content |-> Contents(other.index, other.data),
          pending |-> IF device THEN {}
                      ELSE Waiting(other.add_index, other.add_data, HostSlots(other.add_index))]
Bg == Last(vct_data)

\* The bag in which each element of S is once.
AsBag(S) == [x \in S |-> 1]

LEMMA BagOfPlain ==
  ASSUME NEW v, Plain(v)
  PROVE  ToBag(v) = AsBag(ToSet(v))
<1>1. ASSUME NEW x \in ToSet(v) PROVE Cardinality({i \in DOMAIN v : v[i] = x}) = 1
  <2>1. PICK j \in DOMAIN v : v[j] = x
    BY DEF ToSet
  <2>2. {i \in DOMAIN v : v[i] = x} = {j}
    BY <2>1 DEF Plain
  <2>3. QED BY <2>2, FS_Singleton
<1>2. Range(v) = ToSet(v)
  BY DEF Range, ToSet
<1>3. ToBag(v) = [x \in ToSet(v) |-> Cardinality({i \in DOMAIN v : v[i] = x})]
  BY <1>2 DEF ToBag
<1>4. QED BY <1>1, <1>3 DEF AsBag

\* A vector of plain values has, for each key, each of its numbers once.
LEMMA ContentsAre ==
  ASSUME NEW index, Rising(index), NEW data, AllPlain(Len(index), data)
  PROVE  /\ DOMAIN Contents(index, data) = ToSet(index)
         /\ \A k \in ToSet(index) : Contents(index, data)[k] = AsBag(NumbersAt(index, data, k))
         /\ Contents(index, data) = [k \in ToSet(index) |-> AsBag(NumbersAt(index, data, k))]
<1>1. Contents(index, data) = [k \in ToSet(index) |-> ToBag(data[PlaceOf(index, k)])]
  BY DEF Contents, PlaceOf
<1>2. ASSUME NEW k \in ToSet(index)
      PROVE  ToBag(data[PlaceOf(index, k)]) = AsBag(NumbersAt(index, data, k))
  <2>1. PICK v : v = data[PlaceOf(index, k)]
    OBVIOUS
  <2>2. Plain(v)
    BY <2>1, PlaceOfIs DEF AllPlain
  <2>3. NumbersAt(index, data, k) = ToSet(v)
    BY <2>1 DEF NumbersAt
  <2>4. QED BY <2>1, <2>2, <2>3, BagOfPlain
<1>3. QED BY <1>1, <1>2

\* What the keys have does not depend on the places.
LEMMA ContentsSame ==
  ASSUME NEW index, Rising(index), NEW data, NEW data2, \A i \in 1 .. Len(index) : data2[i] = data[i]
  PROVE  Contents(index, data2) = Contents(index, data)
<1>1. \A k \in ToSet(index) : data2[PlaceOf(index, k)] = data[PlaceOf(index, k)]
  BY PlaceOfIs
<1>2. Contents(index, data) = [k \in ToSet(index) |-> ToBag(data[PlaceOf(index, k)])]
  BY DEF Contents, PlaceOf
<1>3. Contents(index, data2) = [k \in ToSet(index) |-> ToBag(data2[PlaceOf(index, k)])]
  BY DEF Contents, PlaceOf
<1>4. QED BY <1>1, <1>2, <1>3

AssignedMap(content, k, n) ==
  [j \in DOMAIN content \cup {k} |-> IF j = k THEN Map!SetToBag({n}) ELSE content[j]]
RemovedMap(content, gone) == [k \in DOMAIN content \ gone |-> content[k]]

LEMMA AssignsContents ==
  ASSUME NEW index, Rising(index), NEW data, NEW n \in Nat, NEW k,
         NEW index2, NEW data2, Assigns(index, data, k, <<n>>, index2, data2)
  PROVE  Contents(index2, data2) = AssignedMap(Contents(index, data), k, n)
<1>1. PICK e : e = <<n>>
  OBVIOUS
<1>2. Rising(index2) /\ ToSet(index2) = ToSet(index) \cup {k}
  BY DEF Assigns
<1>3. Contents(index, data) = [j \in ToSet(index) |-> ToBag(data[PlaceOf(index, j)])]
  BY DEF Contents, PlaceOf
<1>4. Contents(index2, data2) = [j \in ToSet(index2) |-> ToBag(data2[PlaceOf(index2, j)])]
  BY DEF Contents, PlaceOf
<1>5. ToBag(e) = Map!SetToBag({n})
  <2>1. Holds(e, {n})
    BY <1>1, OneHolds
  <2>2. ToBag(e) = AsBag({n})
    BY <2>1, BagOfPlain DEF Holds
  <2>3. QED BY <2>2 DEF AsBag, Map!SetToBag
<1>6. ASSUME NEW j \in ToSet(index2)
      PROVE  data2[PlaceOf(index2, j)] = IF j = k THEN e ELSE data[PlaceOf(index, j)]
  <2>1. PICK i \in 1 .. Len(index2) : i = PlaceOf(index2, j) /\ index2[i] = j
    <3>1. DOMAIN index2 = 1 .. Len(index2)
      BY <1>2 DEF Rising
    <3>2. PICK i \in 1 .. Len(index2) : index2[i] = j
      BY <3>1 DEF ToSet
    <3>3. PlaceOf(index2, j) = i
      BY <1>2, <3>2, PlaceOfIs
    <3>4. QED BY <3>2, <3>3
  <2>2. QED BY <1>1, <2>1 DEF Assigns
<1>7. \A j \in ToSet(index2) : j # k => j \in ToSet(index)
  BY <1>2
<1>8. QED BY <1>2, <1>3, <1>4, <1>5, <1>6, <1>7 DEF AssignedMap

LEMMA RemovesContents ==
  ASSUME NEW index, Rising(index), NEW data, NEW gone,
         NEW index2, NEW data2, RemovesTo(index, data, gone, index2, data2)
  PROVE  Contents(index2, data2) = RemovedMap(Contents(index, data), gone)
<1>1. Rising(index2) /\ ToSet(index2) = ToSet(index) \ gone
  BY DEF RemovesTo
<1>2. Contents(index, data) = [j \in ToSet(index) |-> ToBag(data[PlaceOf(index, j)])]
  BY DEF Contents, PlaceOf
<1>3. Contents(index2, data2) = [j \in ToSet(index2) |-> ToBag(data2[PlaceOf(index2, j)])]
  BY DEF Contents, PlaceOf
<1>4. ASSUME NEW j \in ToSet(index2)
      PROVE  data2[PlaceOf(index2, j)] = data[PlaceOf(index, j)]
  <2>1. DOMAIN index2 = 1 .. Len(index2)
    BY <1>1 DEF Rising
  <2>2. PICK i \in 1 .. Len(index2) : index2[i] = j
    BY <2>1 DEF ToSet
  <2>3. PlaceOf(index2, j) = i
    BY <1>1, <2>2, PlaceOfIs
  <2>4. QED BY <2>2, <2>3 DEF RemovesTo
<1>5. QED BY <1>1, <1>2, <1>3, <1>4 DEF RemovedMap

\* Two bags that share nothing, as one.
LEMMA BagsJoin ==
  ASSUME NEW A, NEW B, A \cap B = {}
  PROVE  Map!(+)(AsBag(A), AsBag(B)) = AsBag(A \cup B)
BY DEF AsBag, Map!(+)

\* The numbers that wait for key k.
Waiters(pending, k) == {n \in Ins : <<k, n>> \in pending}
FlushedMap(content, pending) ==
  [k \in DOMAIN content \cup {p[1] : p \in pending} |->
     Map!(+)(IF k \in DOMAIN content THEN content[k] ELSE Map!EmptyBag, Map!SetToBag(Waiters(pending, k)))]

LEMMA FlushesContents ==
  ASSUME NEW index, Rising(index), NEW data, NEW wi, NEW wd, NEW slots, NEW S, S = ToSet(slots),
         NEW n \in 1 .. MaxInsert + 1, Pair(index, data, wi, wd, S, n),
         NEW index2, NEW data2, FlushesTo(index, data, index2, data2, S, wi, wd)
  PROVE  Contents(index2, data2) = FlushedMap(Contents(index, data), Waiting(wi, wd, slots))
<1>1. PICK P, C : P = Waiting(wi, wd, slots) /\ C = Contents(index, data)
  OBVIOUS
<1>2. P = {<<wi[s], wd[s][1]>> : s \in S}
  BY <1>1 DEF Waiting
<1>3. {p[1] : p \in P} = {wi[s] : s \in S}
  <2>1. ASSUME NEW p \in P PROVE \E s \in S : p[1] = wi[s]
    <3>1. PICK s \in S : p = <<wi[s], wd[s][1]>>
      BY <1>2
    <3>2. QED BY <3>1
  <2>2. ASSUME NEW s \in S PROVE \E p \in P : p[1] = wi[s]
    <3>1. PICK p : p = <<wi[s], wd[s][1]>>
      OBVIOUS
    <3>2. p \in P /\ p[1] = wi[s]
      BY <1>2, <3>1
    <3>3. QED BY <3>2
  <2>3. QED BY <2>1, <2>2
<1>4. Rising(index2) /\ ToSet(index2) = ToSet(index) \cup {wi[s] : s \in S}
  BY DEF FlushesTo
<1>5. AllPlain(Len(index), data) /\ NotYetIn(Len(index), data, S, wd)
  BY PairPlain
<1>6. DOMAIN C = ToSet(index) /\ \A k \in ToSet(index) : C[k] = AsBag(NumbersAt(index, data, k))
  BY <1>1, <1>5, ContentsAre
<1>7. \A s \in S : wd[s][1] \in Ins
  <2>1. \A s \in S : wd[s][1] \in 1 .. n - 1
    BY FilledKeys DEF Number
  <2>2. 1 .. n - 1 \subseteq Ins
    BY SparseVectorAssumption DEF Ins
  <2>3. QED BY <2>1, <2>2
<1>8. \A k : Waiters(P, k) = For(wi, wd, S, k)
  BY <1>2, <1>7 DEF Waiters, For
<1>9. ASSUME NEW k
      PROVE  (IF k \in DOMAIN C THEN C[k] ELSE Map!EmptyBag) = AsBag(NumbersAt(index, data, k))
  <2>1. CASE k \in ToSet(index)
    BY <1>6, <2>1
  <2>2. CASE k \notin ToSet(index)
    <3>1. NumbersAt(index, data, k) = {}
      BY <2>2 DEF NumbersAt
    <3>2. Map!EmptyBag = AsBag({})
      BY DEF Map!EmptyBag, Map!SetToBag, AsBag
    <3>3. QED BY <1>6, <2>2, <3>1, <3>2
  <2>3. QED BY <2>1, <2>2
<1>10. ASSUME NEW k PROVE NumbersAt(index, data, k) \cap For(wi, wd, S, k) = {}
  <2>1. CASE k \in ToSet(index)
    <3>1. PICK i \in 1 .. Len(index) : i = PlaceOf(index, k)
      BY <2>1, PlaceOfIs
    <3>2. NumbersAt(index, data, k) = ToSet(data[i])
      BY <2>1, <3>1 DEF NumbersAt
    <3>3. QED BY <1>5, <3>2 DEF NotYetIn, For
  <2>2. CASE k \notin ToSet(index)
    BY <2>2 DEF NumbersAt
  <2>3. QED BY <2>1, <2>2
<1>11. ASSUME NEW k
       PROVE  Map!(+)(IF k \in DOMAIN C THEN C[k] ELSE Map!EmptyBag, Map!SetToBag(Waiters(P, k)))
                = AsBag(NumbersAt(index, data, k) \cup For(wi, wd, S, k))
  <2>1. Map!SetToBag(Waiters(P, k)) = AsBag(For(wi, wd, S, k))
    BY <1>8 DEF Map!SetToBag, AsBag
  <2>2. QED BY <1>9, <1>10, <2>1, BagsJoin
<1>12. FlushedMap(C, P) = [k \in ToSet(index2) |-> AsBag(NumbersAt(index, data, k) \cup For(wi, wd, S, k))]
  BY <1>3, <1>4, <1>6, <1>11 DEF FlushedMap
<1>13. \A j \in 1 .. Len(index2) :
         Holds(data2[j], NumbersAt(index, data, index2[j]) \cup For(wi, wd, S, index2[j]))
  BY DEF FlushesTo
<1>14. AllPlain(Len(index2), data2)
  BY <1>13 DEF AllPlain, Holds
<1>15. Contents(index2, data2) = [k \in ToSet(index2) |-> AsBag(NumbersAt(index2, data2, k))]
  BY <1>4, <1>14, ContentsAre
<1>16. ASSUME NEW k \in ToSet(index2)
       PROVE  NumbersAt(index2, data2, k) = NumbersAt(index, data, k) \cup For(wi, wd, S, k)
  <2>1. DOMAIN index2 = 1 .. Len(index2)
    BY <1>4 DEF Rising
  <2>2. PICK j \in 1 .. Len(index2) : index2[j] = k
    BY <2>1 DEF ToSet
  <2>3. PlaceOf(index2, k) = j
    BY <1>4, <2>2, PlaceOfIs
  <2>4. QED BY <1>13, <2>2, <2>3 DEF NumbersAt, Holds
<1>17. QED BY <1>1, <1>12, <1>15, <1>16

-----------------------------------------------------------------------------
(* The remove buffer.                                                      *)

\* The slots that are taken hold keys, and no block that a kernel does not have
\* has counted.
RemoveInv ==
  /\ \A c \in DOMAIN vct_nrem_index : c > NBlock => vct_nrem_index[c] = 0
  /\ n_rem_slot > 0 => \A s : Taken(vct_nrem_index, n_rem_slot, s) => vct_rem_index[s] \in Key
  /\ n_rem_slot > 0 => NBlock <= Len(vct_nrem_index)

LEMMA PermutedTo ==
  ASSUME NEW data, NEW slots
  PROVE  ToSet(Permuted(data, slots)) = {data[s] : s \in ToSet(slots)}
<1>1. PICK d : d = Permuted(data, slots)
  OBVIOUS
<1>2. d = [i \in DOMAIN slots |-> data[slots[i]]]
  BY <1>1 DEF Permuted
<1>3. DOMAIN d = DOMAIN slots /\ \A i \in DOMAIN slots : d[i] = data[slots[i]]
  BY <1>2
<1>4. QED BY <1>1, <1>3 DEF ToSet

\* The keys in the slots that are taken.
KeysIn(index, count, nslot) == {index[s] : s \in {t \in DOMAIN index : Taken(count, nslot, t)}}

LEMMA UsedKeys ==
  ASSUME NEW index, NEW count, NEW nslot \in Nat, PoolsFit(index, count, nslot)
  PROVE  /\ ToSet(Permuted(index, UsedSlots(count, nslot))) = KeysIn(index, count, nslot)
         /\ \A s : Taken(count, nslot, s) => s \in DOMAIN index
<1>1. PICK used, L : used = UsedSlots(count, nslot) /\ L = Len(index)
  OBVIOUS
<1>2. used \in Seq(1 .. L) /\ AreTaken(used, count, nslot)
  BY <1>1, UsedSlotsAre
<1>3. L \in Nat /\ DOMAIN index = 1 .. L
  BY <1>1 DEF PoolsFit
<1>4. \A s : s \in ToSet(used) <=> Taken(count, nslot, s)
  BY <1>2 DEF AreTaken
<1>5. \A s \in ToSet(used) : s \in DOMAIN index
  <2>1. PICK T : T = 1 .. L
    OBVIOUS
  <2>2. used \in Seq(T)
    BY <1>2, <2>1
  <2>3. \A i \in DOMAIN used : used[i] \in T
    BY <2>2
  <2>4. QED BY <1>3, <2>1, <2>3 DEF ToSet
<1>6. ToSet(Permuted(index, used)) = {index[s] : s \in ToSet(used)}
  BY PermutedTo
<1>7. ToSet(used) = {t \in DOMAIN index : Taken(count, nslot, t)}
  BY <1>4, <1>5
<1>8. QED BY <1>1, <1>4, <1>5, <1>6, <1>7 DEF KeysIn

LEMMA DoomedKeys ==
  ASSUME RemInv
  PROVE  Doomed = IF n_rem_slot = 0 THEN {} ELSE KeysIn(vct_rem_index, vct_nrem_index, n_rem_slot)
<1>1. n_rem_slot # 0 => n_rem_slot \in Nat /\ PoolsFit(vct_rem_index, vct_nrem_index, n_rem_slot)
  BY DEF RemInv
<1>2. CASE n_rem_slot = 0
  BY <1>2 DEF Doomed
<1>3. CASE n_rem_slot # 0
  <2>1. ToSet(Permuted(vct_rem_index, UsedSlots(vct_nrem_index, n_rem_slot)))
          = KeysIn(vct_rem_index, vct_nrem_index, n_rem_slot)
    BY <1>1, <1>3, UsedKeys
  <2>2. QED BY <1>3, <2>1 DEF Doomed
<1>4. QED BY <1>2, <1>3

LEMMA DoomedKeysNext ==
  ASSUME RemInv'
  PROVE  Doomed' = IF n_rem_slot' = 0 THEN {} ELSE KeysIn(vct_rem_index', vct_nrem_index', n_rem_slot')
<1>1. n_rem_slot' # 0 => n_rem_slot' \in Nat /\ PoolsFit(vct_rem_index', vct_nrem_index', n_rem_slot')
  BY DEF RemInv
<1>2. CASE n_rem_slot' = 0
  BY <1>2 DEF Doomed
<1>3. CASE n_rem_slot' # 0
  <2>1. ToSet(Permuted(vct_rem_index', UsedSlots(vct_nrem_index', n_rem_slot')))
          = KeysIn(vct_rem_index', vct_nrem_index', n_rem_slot')
    BY <1>1, <1>3, UsedKeys
  <2>2. QED BY <1>3, <2>1 DEF Doomed
<1>4. QED BY <1>2, <1>3

\* The keys of a flush, which counts one block more, that has none.
LEMMA GoneIsDoomed ==
  ASSUME RemInv, n_rem_slot > 0
  PROVE  Gone = Doomed
<1>1. n_rem_slot \in Nat /\ PoolsFit(vct_rem_index, vct_nrem_index, n_rem_slot)
  BY DEF RemInv
<1>2. PICK count \in Seq(Nat) : count = vct_nrem_index
  BY DEF RemInv
<1>3. PICK nslot \in Nat : nslot = n_rem_slot /\ nslot # 0
  BY <1>1
<1>4. PoolsFit(vct_rem_index, Append(count, 0), nslot)
  BY <1>1, <1>2, <1>3, AppendFits
<1>5. Gone = KeysIn(vct_rem_index, Append(count, 0), nslot)
  BY <1>2, <1>3, <1>4, UsedKeys DEF Gone
<1>6. \A s : Taken(Append(count, 0), nslot, s) <=> Taken(count, nslot, s)
  BY TakenAppend
<1>7. Gone = KeysIn(vct_rem_index, count, nslot)
  BY <1>5, <1>6 DEF KeysIn
<1>8. QED BY <1>2, <1>3, <1>7, DoomedKeys

\* The slots that a kernel leaves taken.
LEMMA KernelTakes ==
  ASSUME NEW count \in Seq(Nat), NEW nslot \in Nat, NEW b \in 1 .. NBlock, b \in DOMAIN count, NEW inc \in BOOLEAN
  PROVE  /\ Taken(Counted(count, b, inc), nslot, TakenSlot(count, nslot, b, inc))
         /\ inc => \A s : Taken(count, nslot, s) => Taken(Counted(count, b, inc), nslot, s)
         /\ ~inc /\ (\A c \in DOMAIN count : c > NBlock => count[c] = 0) =>
              \A s : Taken(Counted(count, b, inc), nslot, s) => s = TakenSlot(count, nslot, b, inc)
<1>1. PICK n \in Nat, B \in Nat : DOMAIN count = 1 .. n /\ (\A c \in 1 .. n : count[c] \in Nat) /\ B = NBlock
  BY SparseVectorAssumption
<1>2. PICK f : f = Counted(count, b, inc)
  OBVIOUS
<1>3. f = [c \in 1 .. n |-> (IF inc \/ c > B THEN count[c] ELSE 0) + IF c = b THEN 1 ELSE 0]
  BY <1>1, <1>2 DEF Counted
<1>4. PICK at : at = TakenSlot(count, nslot, b, inc)
  OBVIOUS
<1>5. b \in 1 .. n /\ b <= B
  BY <1>1
<1>6. Taken(f, nslot, at)
  <2>1. PICK x \in Nat : x = nslot * (b - 1)
    <3>1. PICK d \in Nat : d = b - 1
      OBVIOUS
    <3>2. nslot * d \in Nat
      BY SMT
    <3>3. QED BY <3>1, <3>2
  <2>2. PICK i : i = (IF inc THEN count[b] ELSE 0) + 1
    OBVIOUS
  <2>3. f[b] = i /\ i \in 1 .. f[b]
    BY <1>1, <1>3, <1>5, <2>2
  <2>4. at = x + i
    BY <1>1, <1>4, <1>5, <2>1, <2>2 DEF TakenSlot
  <2>5. QED BY <1>3, <1>5, <2>1, <2>3, <2>4 DEF Taken
<1>7. ASSUME inc, NEW s, Taken(count, nslot, s) PROVE Taken(f, nslot, s)
  <2>1. PICK c \in 1 .. n : \E i \in 1 .. count[c] : s = nslot * (c - 1) + i
    BY <1>1, <1>7 DEF Taken
  <2>2. PICK i \in 1 .. count[c] : s = nslot * (c - 1) + i
    BY <2>1
  <2>3. f[c] = count[c] \/ f[c] = count[c] + 1
    BY <1>1, <1>3, <1>7
  <2>4. i \in 1 .. f[c]
    BY <1>1, <2>3
  <2>5. DOMAIN f = 1 .. n
    BY <1>3
  <2>6. QED BY <2>2, <2>4, <2>5 DEF Taken
<1>8. ASSUME ~inc, \A c \in DOMAIN count : c > NBlock => count[c] = 0, NEW s, Taken(f, nslot, s)
      PROVE  s = at
  <2>1. PICK c \in 1 .. n : \E i \in 1 .. f[c] : s = nslot * (c - 1) + i
    BY <1>3, <1>8 DEF Taken
  <2>2. PICK i \in 1 .. f[c] : s = nslot * (c - 1) + i
    BY <2>1
  <2>3. c > B => count[c] = 0
    BY <1>1, <1>8
  <2>4. f[c] = IF c = b THEN 1 ELSE 0
    BY <1>1, <1>3, <1>5, <1>8, <2>3
  <2>5. c = b /\ i = 1
    BY <2>4
  <2>6. PICK x : x = nslot * (b - 1)
    OBVIOUS
  <2>7. at = x + 0 + 1
    BY <1>4, <1>8, <2>6 DEF TakenSlot
  <2>8. x \in Int
    <3>1. PICK d \in Nat : d = b - 1
      OBVIOUS
    <3>2. nslot * d \in Nat
      BY SMT
    <3>3. QED BY <2>6, <3>1, <3>2
  <2>9. QED BY <2>2, <2>5, <2>6, <2>7, <2>8
<1>9. QED BY <1>2, <1>4, <1>6, <1>7, <1>8

\* A block that goes on counting takes a slot nobody has.
LEMMA SlotIsFree ==
  ASSUME NEW index, NEW count, NEW nslot \in Nat, PoolsFit(index, count, nslot), NEW b \in 1 .. NBlock,
         b \in DOMAIN count, count[b] < nslot
  PROVE  ~Taken(count, nslot, TakenSlot(count, nslot, b, TRUE))
<1>1. PICK n \in Nat : DOMAIN count = 1 .. n /\ \A c \in 1 .. n : count[c] \in Nat
  <2>1. count \in Seq(Nat)
    BY DEF PoolsFit
  <2>2. QED BY <2>1
<1>2. SUFFICES ASSUME Taken(count, nslot, TakenSlot(count, nslot, b, TRUE)) PROVE FALSE
  OBVIOUS
<1>3. PICK c \in 1 .. n : \E i \in 1 .. count[c] : TakenSlot(count, nslot, b, TRUE) = nslot * (c - 1) + i
  BY <1>1, <1>2 DEF Taken
<1>4. PICK i \in 1 .. count[c] : TakenSlot(count, nslot, b, TRUE) = nslot * (c - 1) + i
  BY <1>3
<1>5. count[c] # 0
  BY <1>1, <1>4
<1>6. i \in 1 .. nslot
  <2>1. count[c] <= nslot
    BY <1>1, <1>5 DEF PoolsFit
  <2>2. QED BY <1>1, <2>1
<1>7. PICK j \in 1 .. nslot : j = count[b] + 1
  BY <1>1
<1>8. TakenSlot(count, nslot, b, TRUE) = nslot * (b - 1) + j
  <2>1. PICK x \in Nat : x = nslot * (b - 1)
    <3>1. PICK d \in Nat : d = b - 1
      OBVIOUS
    <3>2. nslot * d \in Nat
      BY SMT
    <3>3. QED BY <3>1, <3>2
  <2>2. PICK z \in Nat : z = count[b]
    BY <1>1
  <2>3. TakenSlot(count, nslot, b, TRUE) = x + z + 1
    BY <2>1, <2>2 DEF TakenSlot
  <2>4. x + z + 1 = x + j
    BY <1>7, <2>1, <2>2
  <2>5. QED BY <2>1, <2>3, <2>4
<1>9. b = c /\ j = i
  <2>1. b \in Nat \ {0} /\ c \in Nat \ {0}
    OBVIOUS
  <2>2. nslot * (b - 1) + j = nslot * (c - 1) + i
    BY <1>4, <1>8
  <2>3. QED BY <1>6, <2>1, <2>2, PoolsApart
<1>10. QED BY <1>1, <1>4, <1>7, <1>9

LEMMA RemoveInit == Init => RemoveInv
<1> SUFFICES ASSUME Init PROVE RemoveInv
  OBVIOUS
<1>1. vct_nrem_index = <<>> /\ n_rem_slot = 0
  BY DEF Init
<1>2. DOMAIN <<>> = {}
  OBVIOUS
<1>3. QED BY <1>1, <1>2 DEF RemoveInv

\* A kernel that removes: the slots it takes hold keys.
LEMMA RemoveKernelKeys ==
  ASSUME RemInv, RemInv', RemoveInv,
         NEW b \in 1 .. NBlock, NEW k \in Key, NEW inc \in BOOLEAN, RemoveKernel(b, k, inc)
  PROVE  RemoveInv'
<1>1. PICK nslot \in Nat : nslot = n_rem_slot /\ nslot > 0
  BY DEF RemInv, RemoveKernel
<1>2. PICK at : at = TakenSlot(vct_nrem_index, nslot, b, inc)
  OBVIOUS
<1>3. PICK count \in Seq(Nat), n \in Nat :
        count = vct_nrem_index /\ n = Len(count) /\ DOMAIN count = 1 .. n /\ NBlock <= n
  BY <1>1 DEF RemInv, RemoveInv
<1>4. PICK rem \in Seq(Nat) : rem = vct_rem_index
  BY DEF RemInv
<1>5. /\ vct_rem_index' = Stored(rem, nslot, at, k, inc, NoKey)
      /\ vct_nrem_index' = Counted(count, b, inc) /\ n_rem_slot' = nslot
  BY <1>1, <1>2, <1>3, <1>4 DEF RemoveKernel
<1>6. PICK f : f = Counted(count, b, inc)
  OBVIOUS
<1>7. f = [c \in 1 .. n |-> (IF inc \/ c > NBlock THEN count[c] ELSE 0) + IF c = b THEN 1 ELSE 0]
  BY <1>3, <1>6 DEF Counted
<1>8. \A c \in DOMAIN f : c > NBlock => f[c] = 0
  <2>1. SUFFICES ASSUME NEW c \in 1 .. n, c > NBlock PROVE f[c] = 0
    BY <1>7
  <2>2. count[c] = 0
    BY <1>3, <2>1 DEF RemoveInv
  <2>3. c # b
    BY <2>1, PoolSize
  <2>4. QED BY <1>7, <2>1, <2>2, <2>3
<1>9. NBlock <= Len(f)
  <2>1. f \in [1 .. n -> Nat]
    BY <1>3, <1>7
  <2>2. Len(f) = n
    BY <2>1
  <2>3. QED BY <1>3, <2>2
<1>10. ASSUME NEW s, Taken(f, nslot, s) PROVE vct_rem_index'[s] \in Key
  <2>1. s \in DOMAIN vct_rem_index'
    <3>1. nslot = n_rem_slot' /\ PoolsFit(vct_rem_index', vct_nrem_index', nslot)
      BY <1>1, <1>5 DEF RemInv
    <3>2. PICK r, g : r = vct_rem_index' /\ g = vct_nrem_index'
      OBVIOUS
    <3>3. PoolsFit(r, g, nslot) /\ Taken(g, nslot, s)
      BY <1>5, <1>6, <1>10, <3>1, <3>2
    <3>4. s \in DOMAIN r
      BY <3>3, UsedKeys
    <3>5. QED BY <3>2, <3>4
  <2>2. PICK last : last = nslot * NBlock
    OBVIOUS
  <2>3. vct_rem_index' = [i \in DOMAIN rem |-> IF i = at THEN k ELSE IF inc \/ i > last THEN rem[i] ELSE NoKey]
    BY <1>5, <2>2 DEF Stored
  <2>4. s \in DOMAIN rem
    BY <2>1, <2>3
  <2>5. \/ s = TakenSlot(count, nslot, b, inc)
        \/ Taken(count, nslot, s) /\ (inc \/ s > nslot * NBlock)
    BY <1>6, <1>10, TakenNext
  <2>6. CASE s = at
    BY <2>3, <2>4, <2>6
  <2>7. CASE s # at
    <3>1. Taken(count, nslot, s) /\ (inc \/ s > last)
      BY <1>2, <1>3, <2>2, <2>5, <2>7
    <3>2. rem[s] \in Key
      BY <1>1, <1>3, <1>4, <3>1 DEF RemoveInv
    <3>3. QED BY <2>3, <2>4, <2>7, <3>1, <3>2
  <2>8. QED BY <2>6, <2>7
<1>11. QED BY <1>5, <1>6, <1>8, <1>9, <1>10 DEF RemoveInv

LEMMA RemoveStep == SvInv /\ RemoveInv /\ [Next]_vars => RemoveInv'
<1> SUFFICES ASSUME SvInv, RemoveInv, [Next]_vars PROVE RemoveInv'
  OBVIOUS
<1>0. RemInv /\ RemInv'
  BY RemStep DEF SvInv
<1>1. CASE UNCHANGED rems
  BY <1>1 DEF RemoveInv, rems
<1>2. ASSUME NEW b \in 1 .. NBlock, NEW k \in Key, NEW inc \in BOOLEAN, RemoveKernel(b, k, inc)
      PROVE  RemoveInv'
  BY <1>0, <1>2, RemoveKernelKeys
<1>3. CASE SetGPURemoveBuffer
  <2>1. PICK B \in Nat : B = NBlock
    BY PoolSize
  <2>2. vct_nrem_index' = Zeros(NBlock)
    BY <1>3 DEF SetGPURemoveBuffer
  <2>3. PICK z : z = Zeros(NBlock) /\ z = [b \in 1 .. B |-> 0]
    BY <2>1 DEF Zeros
  <2>4. DOMAIN z = 1 .. B /\ \A c \in 1 .. B : z[c] = 0
    BY <2>3
  <2>5. Len(z) = B
    <3>1. z \in [1 .. B -> Nat]
      BY <2>3
    <3>2. QED BY <3>1
  <2>6. \A s : ~Taken(z, n_rem_slot', s)
    BY <2>4 DEF Taken
  <2>7. QED BY <2>1, <2>2, <2>3, <2>4, <2>5, <2>6 DEF RemoveInv
<1>4. CASE FlushRemove
  <2>1. /\ vct_rem_index' = vct_rem_index /\ n_rem_slot' = n_rem_slot
        /\ vct_nrem_index' = Append(vct_nrem_index, 0)
    BY <1>4 DEF FlushRemove
  <2>2. PICK count \in Seq(Nat), n \in Nat : count = vct_nrem_index /\ n = Len(count) /\ DOMAIN count = 1 .. n
    BY <1>0 DEF RemInv
  <2>3. PICK g : g = Append(count, 0)
    OBVIOUS
  <2>4. /\ Len(g) = n + 1 /\ DOMAIN g = 1 .. n + 1 /\ g[n + 1] = 0
        /\ \A c \in 1 .. n : g[c] = count[c]
    BY <2>2, <2>3
  <2>5. \A c \in DOMAIN g : c > NBlock => g[c] = 0
    BY <2>2, <2>4 DEF RemoveInv
  <2>6. \A s : Taken(g, n_rem_slot, s) <=> Taken(count, n_rem_slot, s)
    BY <2>3, TakenAppend
  <2>7. n_rem_slot > 0 => NBlock <= Len(g)
    BY <2>2, <2>4, PoolSize DEF RemoveInv
  <2>8. QED BY <2>1, <2>2, <2>3, <2>5, <2>6, <2>7 DEF RemoveInv
<1>5. CASE Clear
  BY <1>5 DEF Clear, RemoveInv
<1>6. \/ UNCHANGED rems
      \/ \E b \in 1 .. NBlock, k \in Key, inc \in BOOLEAN : RemoveKernel(b, k, inc)
      \/ SetGPURemoveBuffer \/ FlushRemove \/ Clear
  BY DEF Next, vars, Insert, InsertFlush, PreFlush, InsertKernel, SetBackground,
         SetGPUInsertBuffer, FlushOnHost, FlushOnDeviceNothing,
         FlushOnDevice, Swap, RemoveUnusedBuffers
<1>7. QED BY <1>1, <1>2, <1>3, <1>4, <1>5, <1>6

\* What a kernel removes is one key more, or the only one.
LEMMA RemoveKernelDooms ==
  ASSUME RemInv, RemInv', RemoveInv,
         NEW b \in 1 .. NBlock, NEW k \in Key, NEW inc \in BOOLEAN, RemoveKernel(b, k, inc)
  PROVE  Doomed' = IF inc THEN Doomed \cup {k} ELSE {k}
<1>1. PICK nslot \in Nat : nslot = n_rem_slot /\ nslot > 0
  BY DEF RemInv, RemoveKernel
<1>2. PICK at : at = TakenSlot(vct_nrem_index, nslot, b, inc)
  OBVIOUS
<1>3. PICK count \in Seq(Nat), n \in Nat :
        count = vct_nrem_index /\ n = Len(count) /\ DOMAIN count = 1 .. n /\ NBlock <= n
  BY <1>1 DEF RemInv, RemoveInv
<1>4. PICK rem \in Seq(Nat) : rem = vct_rem_index /\ PoolsFit(rem, count, nslot)
  BY <1>1, <1>3 DEF RemInv
<1>5. /\ vct_rem_index' = Stored(rem, nslot, at, k, inc, NoKey)
      /\ vct_nrem_index' = Counted(count, b, inc) /\ n_rem_slot' = nslot
      /\ inc => count[b] < nslot
  BY <1>1, <1>2, <1>3, <1>4 DEF RemoveKernel
<1>6. PICK f, r : f = Counted(count, b, inc) /\ r = Stored(rem, nslot, at, k, inc, NoKey)
  OBVIOUS
<1>7. PoolsFit(r, f, nslot)
  BY <1>1, <1>5, <1>6 DEF RemInv
<1>8. Doomed' = KeysIn(r, f, nslot) /\ Doomed = KeysIn(rem, count, nslot)
  BY <1>1, <1>3, <1>4, <1>5, <1>6, DoomedKeys, DoomedKeysNext
<1>9. PICK last : last = nslot * NBlock
  OBVIOUS
<1>10. r = [i \in DOMAIN rem |-> IF i = at THEN k ELSE IF inc \/ i > last THEN rem[i] ELSE NoKey]
  BY <1>6, <1>9 DEF Stored
<1>11. b \in DOMAIN count
  BY <1>3, PoolSize
<1>12. /\ Taken(f, nslot, at)
       /\ inc => \A s : Taken(count, nslot, s) => Taken(f, nslot, s)
       /\ ~inc => \A s : Taken(f, nslot, s) => s = at
  <2>1. \A c \in DOMAIN count : c > NBlock => count[c] = 0
    BY <1>3 DEF RemoveInv
  <2>2. at = TakenSlot(count, nslot, b, inc)
    BY <1>2, <1>3
  <2>3. QED BY <1>6, <1>11, <2>1, <2>2, KernelTakes
<1>13. \A s : Taken(f, nslot, s) => (s = at \/ (Taken(count, nslot, s) /\ (inc \/ s > last)))
  <2>1. SUFFICES ASSUME NEW s, Taken(f, nslot, s)
                 PROVE s = at \/ (Taken(count, nslot, s) /\ (inc \/ s > last))
    OBVIOUS
  <2>2. \/ s = TakenSlot(count, nslot, b, inc)
        \/ Taken(count, nslot, s) /\ (inc \/ s > nslot * NBlock)
    BY <1>6, <2>1, TakenNext
  <2>3. at = TakenSlot(count, nslot, b, inc)
    BY <1>2, <1>3
  <2>4. QED BY <1>9, <2>2, <2>3
<1>14. /\ \A s : Taken(f, nslot, s) => s \in DOMAIN r
       /\ \A s : Taken(count, nslot, s) => s \in DOMAIN rem
  BY <1>4, <1>7, UsedKeys
<1>15. at \in DOMAIN rem /\ r[at] = k
  BY <1>10, <1>12, <1>14
<1>16. CASE inc
  <2>1. ~Taken(count, nslot, at)
    <3>1. at = TakenSlot(count, nslot, b, TRUE)
      BY <1>2, <1>3, <1>16
    <3>2. QED BY <1>4, <1>5, <1>11, <1>16, <3>1, SlotIsFree
  <2>2. \A s \in DOMAIN rem : s # at => r[s] = rem[s]
    BY <1>10, <1>16
  <2>3. KeysIn(r, f, nslot) = KeysIn(rem, count, nslot) \cup {k}
    <3>1. ASSUME NEW x \in KeysIn(r, f, nslot) PROVE x \in KeysIn(rem, count, nslot) \cup {k}
      <4>1. PICK s \in DOMAIN r : Taken(f, nslot, s) /\ x = r[s]
        BY DEF KeysIn
      <4>2. CASE s = at
        BY <1>15, <4>1, <4>2
      <4>3. CASE s # at
        <5>1. s \in DOMAIN rem /\ Taken(count, nslot, s) /\ x = rem[s]
          BY <1>13, <1>14, <2>2, <4>1, <4>3
        <5>2. QED BY <5>1 DEF KeysIn
      <4>4. QED BY <4>2, <4>3
    <3>2. ASSUME NEW x \in KeysIn(rem, count, nslot) PROVE x \in KeysIn(r, f, nslot)
      <4>1. PICK s \in DOMAIN rem : Taken(count, nslot, s) /\ x = rem[s]
        BY DEF KeysIn
      <4>2. s # at /\ Taken(f, nslot, s) /\ s \in DOMAIN r
        BY <1>12, <1>14, <1>16, <2>1, <4>1
      <4>3. r[s] = x
        BY <2>2, <4>1, <4>2
      <4>4. QED BY <4>2, <4>3 DEF KeysIn
    <3>3. k \in KeysIn(r, f, nslot)
      BY <1>12, <1>14, <1>15 DEF KeysIn
    <3>4. QED BY <3>1, <3>2, <3>3
  <2>4. QED BY <1>8, <1>16, <2>3
<1>17. CASE ~inc
  <2>1. KeysIn(r, f, nslot) = {k}
    <3>1. ASSUME NEW x \in KeysIn(r, f, nslot) PROVE x = k
      <4>1. PICK s \in DOMAIN r : Taken(f, nslot, s) /\ x = r[s]
        BY DEF KeysIn
      <4>2. QED BY <1>12, <1>15, <1>17, <4>1
    <3>2. k \in KeysIn(r, f, nslot)
      BY <1>12, <1>14, <1>15 DEF KeysIn
    <3>3. QED BY <3>1, <3>2
  <2>2. QED BY <1>8, <1>17, <2>1
<1>18. QED BY <1>16, <1>17

LEMMA DoomedInKey ==
  ASSUME RemInv, RemoveInv
  PROVE  Doomed \subseteq Key
<1>1. n_rem_slot \in Nat
  BY DEF RemInv
<1>2. CASE n_rem_slot = 0
  BY <1>2 DEF Doomed
<1>3. CASE n_rem_slot # 0
  <2>1. Doomed = KeysIn(vct_rem_index, vct_nrem_index, n_rem_slot)
    BY <1>3, DoomedKeys
  <2>2. n_rem_slot > 0
    BY <1>1, <1>3
  <2>3. QED BY <2>1, <2>2 DEF KeysIn, RemoveInv
<1>4. QED BY <1>2, <1>3

LEMMA DoomedStays ==
  ASSUME RemInv, RemInv', UNCHANGED rems \/ FlushRemove
  PROVE  Doomed' = Doomed
<1>1. CASE UNCHANGED rems
  BY <1>1 DEF Doomed, rems
<1>2. CASE FlushRemove
  <2>1. /\ vct_rem_index' = vct_rem_index /\ n_rem_slot' = n_rem_slot
        /\ vct_nrem_index' = Append(vct_nrem_index, 0)
    BY <1>2 DEF FlushRemove
  <2>2. PICK count \in Seq(Nat) : count = vct_nrem_index
    BY DEF RemInv
  <2>3. \A s : Taken(Append(count, 0), n_rem_slot, s) <=> Taken(count, n_rem_slot, s)
    BY TakenAppend
  <2>4. KeysIn(vct_rem_index', vct_nrem_index', n_rem_slot') = KeysIn(vct_rem_index, count, n_rem_slot)
    BY <2>1, <2>2, <2>3 DEF KeysIn
  <2>5. QED BY <2>1, <2>2, <2>4, DoomedKeys, DoomedKeysNext
<1>3. QED BY <1>1, <1>2

LEMMA NewBufferDooms ==
  ASSUME RemInv', SetGPURemoveBuffer
  PROVE  Doomed' = {}
<1>1. vct_nrem_index' = Zeros(NBlock)
  BY DEF SetGPURemoveBuffer
<1>2. \A s : ~Taken(Zeros(NBlock), n_rem_slot', s)
  BY DEF Taken, Zeros
<1>3. KeysIn(vct_rem_index', vct_nrem_index', n_rem_slot') = {}
  BY <1>1, <1>2 DEF KeysIn
<1>4. QED BY <1>3, DoomedKeysNext

-----------------------------------------------------------------------------
(* Every step of the vector is a step of the map, or nothing.              *)

LEMMA BgIs ==
  ASSUME NEW index, NEW data, NEW b, Rising(index), Vector(data, Len(index), b)
  PROVE  Last(data) = b
<1>1. PICK n \in Nat : n = Len(index)
  BY DEF Rising
<1>2. Len(data) = n + 1 /\ data[n + 1] = b
  BY <1>1 DEF Vector
<1>3. QED BY <1>2 DEF Last

LEMMA BgIsBck ==
  ASSUME MainInv, MainInv'
  PROVE  Bg = bck /\ Bg' = bck'
<1>1. Bg = bck
  BY BgIs DEF MainInv, Bg
<1>2. PICK index, data, b : index = vct_index' /\ data = vct_data' /\ b = bck'
  OBVIOUS
<1>3. Rising(index) /\ Vector(data, Len(index), b)
  BY <1>2 DEF MainInv
<1>4. Last(data) = b
  BY <1>3, BgIs
<1>5. QED BY <1>1, <1>2, <1>4 DEF Bg

\* What waits is a key with a number that was given out.
LEMMA PendingTyped ==
  ASSUME PairInv', NextTyped'
  PROVE  Pending' \in SUBSET (Key \X Ins)
<1>1. PICK S, wi, wd, n : S = ToSet(AddSlots') /\ wi = vct_add_index' /\ wd = vct_add_data' /\ n = next'
  OBVIOUS
<1>2. Pending' = {<<wi[s], wd[s][1]>> : s \in S}
  BY <1>1 DEF Pending, Waiting
<1>3. \A s \in S : Number(wi, wd, s, 1, n)
  BY <1>1 DEF PairInv, MainPair, Pair
<1>4. n \in 1 .. MaxInsert + 1
  BY <1>1 DEF NextTyped
<1>5. 1 .. n - 1 \subseteq Ins
  BY <1>4, SparseVectorAssumption DEF Ins
<1>6. \A s \in S : wi[s] \in Key /\ wd[s][1] \in Ins
  BY <1>3, <1>5 DEF Number
<1>7. QED BY <1>2, <1>6

LEMMA PendingStays ==
  ASSUME UNCHANGED adds, UNCHANGED client
  PROVE  Pending' = Pending
BY DEF Pending, AddSlots, adds, device

LEMMA NoneWaits ==
  ASSUME ToSet(AddSlots') = {}
  PROVE  Pending' = {}
BY DEF Pending, Waiting

LEMMA SpareStays ==
  ASSUME UNCHANGED <<other, client>>
  PROVE  Spare' = Spare
BY DEF Spare, device

LEMMA ContentStays ==
  ASSUME UNCHANGED <<vct_index, vct_data>>
  PROVE  Content' = Content
BY DEF Content

\* The pending insertions change, and nothing else.
LEMMA FillsMap ==
  ASSUME PairInv', NextTyped', UNCHANGED <<main, rems, other, client>>
  PROVE  Map!Fill
<1>1. Content' = Content
  BY ContentStays DEF main
<1>2. Doomed' = Doomed
  BY DEF Doomed, rems
<1>3. Spare' = Spare
  BY SpareStays
<1>4. Bg' = Bg
  BY DEF Bg, main
<1>5. Pending' \in SUBSET (Key \X Map!Ins)
  BY PendingTyped DEF Map!Ins, Ins
<1>6. QED BY <1>1, <1>2, <1>3, <1>4, <1>5 DEF Map!Fill, Content, Pending, Doomed, Bg, Spare

LEMMA InsertFlushAssignsMap ==
  ASSUME MainInv, MainInv', PairInv, NEW k \in Key, InsertFlush(k)
  PROVE  next \in Map!Ins /\ Map!Assign(k, next)
<1>1. next \in Ins /\ UNCHANGED <<bck, adds, rems, other, client>>
  BY DEF InsertFlush
<1>2. PICK n \in Nat : n = next
  BY DEF PairInv
<1>3. PICK index2, data2 : index2 = vct_index' /\ data2 = vct_data'
  OBVIOUS
<1>4. Assigns(vct_index, vct_data, k, <<n>>, index2, data2)
  BY <1>2, <1>3, InsertFlushAssigns
<1>5. Rising(vct_index)
  BY DEF MainInv
<1>6. Contents(index2, data2) = AssignedMap(Contents(vct_index, vct_data), k, n)
  BY <1>4, <1>5, AssignsContents
<1>7. Content' = [j \in DOMAIN Content \cup {k} |-> IF j = k THEN Map!SetToBag({next}) ELSE Content[j]]
  BY <1>2, <1>3, <1>6 DEF Content, AssignedMap
<1>8. Pending' = Pending /\ Spare' = Spare
  BY <1>1, PendingStays, SpareStays
<1>9. Doomed' = Doomed
  BY <1>1 DEF Doomed, rems
<1>10. Bg' = Bg
  BY <1>1, BgIsBck
<1>11. Map!Assign(k, next)
  BY <1>7, <1>8, <1>9, <1>10 DEF Map!Assign, Content, Pending, Doomed, Bg, Spare
<1>12. QED BY <1>1, <1>11 DEF Map!Ins, Ins

\* A flush, on the host or on the device, reduces what waits into the map.
LEMMA FlushesMap ==
  ASSUME MainInv, MainInv', AddInv, WaitInv, ValuesInv, PairInv, NextTyped, FlushOnHost \/ FlushOnDevice
  PROVE  Map!Flush
<1>1. UNCHANGED <<bck, rems, other, next, client>>
  BY DEF FlushOnHost, FlushOnDevice
<1>2. ToSet(AddSlots') = {}
  <2>1. \/ ~device' /\ vct_add_index' = <<>>
        \/ n_add_slot' = 0 /\ device'
    BY DEF FlushOnHost, FlushOnDevice, device
  <2>2. QED BY <2>1, NoSlots DEF AddSlots
<1>3. PICK index, data, index2, data2, wi, wd :
        /\ index = vct_index /\ data = vct_data /\ index2 = vct_index' /\ data2 = vct_data'
        /\ wi = vct_add_index /\ wd = vct_add_data
  OBVIOUS
<1>4. PICK slots, S, n : slots = AddSlots /\ S = ToSet(slots) /\ n = next
  OBVIOUS
<1>5. FlushesTo(index, data, index2, data2, S, wi, wd)
  BY <1>3, <1>4, HostFlushesTo, DeviceFlushesTo DEF PairInv
<1>6. Rising(index) /\ Pair(index, data, wi, wd, S, n) /\ n \in 1 .. MaxInsert + 1
  BY <1>3, <1>4 DEF MainInv, PairInv, MainPair, NextTyped
<1>7. Contents(index2, data2) = FlushedMap(Contents(index, data), Waiting(wi, wd, slots))
  BY <1>4, <1>5, <1>6, FlushesContents
<1>8. Content' = FlushedMap(Content, Pending)
  BY <1>3, <1>4, <1>7 DEF Content, Pending
<1>9. Content' = [k \in DOMAIN Content \cup {p[1] : p \in Pending} |->
                    Map!(+)(IF k \in DOMAIN Content THEN Content[k] ELSE Map!EmptyBag,
                            Map!SetToBag({m \in Map!Ins : <<k, m>> \in Pending}))]
  BY <1>8 DEF FlushedMap, Waiters, Map!Ins, Ins
<1>10. Pending' = {}
  BY <1>2, NoneWaits
<1>11. Spare' = Spare /\ Bg' = Bg
  BY <1>1, SpareStays, BgIsBck
<1>12. Doomed' = Doomed
  BY <1>1 DEF Doomed, rems
<1>13. QED BY <1>9, <1>10, <1>11, <1>12 DEF Map!Flush, Content, Pending, Doomed, Bg, Spare

\* A flush on the device that finds nothing changes nothing.
LEMMA NothingStutters ==
  ASSUME MainInv, MainInv', AddInv, AddInv', FlushOnDeviceNothing
  PROVE  UNCHANGED Map!vars
<1>1. /\ UNCHANGED <<vct_index, bck, vct_add_index, vct_add_data, n_add_slot, rems, other, client>>
      /\ vct_nadd_index' = vct_nadd_index \/ vct_nadd_index' = Append(vct_nadd_index, 0)
      /\ n_add_slot = 0 \/ UsedSlots(vct_nadd_index, n_add_slot) = <<>>
      /\ device
  BY DEF FlushOnDeviceNothing
<1>2. ToSet(AddSlots) = {}
  BY <1>1, NoSlots DEF AddSlots
<1>3. ToSet(AddSlots') = {}
  BY <1>1, <1>2, NothingSlots
<1>4. Pending = {} /\ Pending' = {}
  BY <1>2, <1>3 DEF Pending, Waiting
<1>5. Content' = Content
  <2>1. PICK data2 : data2 = vct_data'
    OBVIOUS
  <2>2. \A i \in 1 .. Len(vct_index) : data2[i] = vct_data[i]
    BY <2>1, NothingKeeps
  <2>3. Contents(vct_index, data2) = Contents(vct_index, vct_data)
    BY <2>2, ContentsSame DEF MainInv
  <2>4. QED BY <1>1, <2>1, <2>3 DEF Content
<1>6. Spare' = Spare /\ Bg' = Bg
  BY <1>1, SpareStays, BgIsBck
<1>7. Doomed' = Doomed
  BY <1>1 DEF Doomed, rems
<1>8. QED BY <1>4, <1>5, <1>6, <1>7 DEF Map!vars, Content, Pending, Doomed, Bg, Spare

LEMMA UnusedStutters ==
  ASSUME RemoveUnusedBuffers
  PROVE  UNCHANGED Map!vars
<1>1. /\ UNCHANGED <<main, vct_add_index, n_add_slot, rems, other, client>> /\ n_add_slot = 0
      /\ device \/ vct_add_index = <<>>
  BY DEF RemoveUnusedBuffers
<1>2. ToSet(AddSlots) = {} /\ ToSet(AddSlots') = {}
  BY <1>1, NoSlots DEF AddSlots, device
<1>3. Pending = {} /\ Pending' = {}
  BY <1>2 DEF Pending, Waiting
<1>4. Content' = Content /\ Spare' = Spare /\ Bg' = Bg
  BY <1>1, ContentStays, SpareStays DEF Bg, main
<1>5. Doomed' = Doomed
  BY <1>1 DEF Doomed, rems
<1>6. QED BY <1>3, <1>4, <1>5 DEF Map!vars, Content, Pending, Doomed, Bg, Spare

LEMMA RemovesMap ==
  ASSUME MainInv, MainInv', RemInv, RemInv', FlushRemove
  PROVE  Map!FlushRemove
<1>1. UNCHANGED <<bck, adds, other, client>> /\ n_rem_slot > 0
  BY DEF FlushRemove
<1>2. PICK gone : gone = Gone /\ gone = Doomed
  BY <1>1, GoneIsDoomed
<1>3. PICK index2, data2 : index2 = vct_index' /\ data2 = vct_data'
  OBVIOUS
<1>4. RemovesTo(vct_index, vct_data, gone, index2, data2)
  BY <1>2, <1>3, FlushRemovesTo DEF Gone
<1>5. Contents(index2, data2) = RemovedMap(Contents(vct_index, vct_data), gone)
  BY <1>4, RemovesContents DEF MainInv
<1>6. Content' = [k \in DOMAIN Content \ Doomed |-> Content[k]]
  BY <1>2, <1>3, <1>5 DEF Content, RemovedMap
<1>7. Pending' = Pending /\ Spare' = Spare /\ Bg' = Bg
  BY <1>1, PendingStays, SpareStays, BgIsBck
<1>8. Doomed' = Doomed
  BY DoomedStays
<1>9. QED BY <1>6, <1>7, <1>8 DEF Map!FlushRemove, Content, Pending, Doomed, Bg, Spare

LEMMA DoomsMap ==
  ASSUME RemInv, RemInv', RemoveInv,
         NEW b \in 1 .. NBlock, NEW k \in Key, NEW inc \in BOOLEAN, RemoveKernel(b, k, inc)
  PROVE  Map!Remove(k)
<1>1. UNCHANGED <<main, adds, other, client>>
  BY DEF RemoveKernel
<1>2. Content' = Content /\ Pending' = Pending /\ Spare' = Spare /\ Bg' = Bg
  BY <1>1, ContentStays, PendingStays, SpareStays DEF Bg, main
<1>3. Doomed' = Doomed \cup {k} \/ Doomed' = {k}
  BY RemoveKernelDooms
<1>4. QED BY <1>2, <1>3 DEF Map!Remove, Content, Pending, Doomed, Bg, Spare

\* A new remove buffer forgets the keys of the old one.
LEMMA NewBufferMap ==
  ASSUME RemInv, RemInv', RemoveInv, SetGPURemoveBuffer
  PROVE  (\E k \in Key : Map!Remove(k)) \/ UNCHANGED Map!vars
<1>1. UNCHANGED <<main, adds, other, client>>
  BY DEF SetGPURemoveBuffer
<1>2. Content' = Content /\ Pending' = Pending /\ Spare' = Spare /\ Bg' = Bg
  BY <1>1, ContentStays, PendingStays, SpareStays DEF Bg, main
<1>3. Doomed' = {}
  BY NewBufferDooms
<1>4. CASE Key = {}
  <2>1. Doomed' = Doomed
    BY <1>3, <1>4, DoomedInKey
  <2>2. UNCHANGED Map!vars
    BY <1>2, <2>1 DEF Map!vars, Content, Pending, Doomed, Bg, Spare
  <2>3. QED BY <2>2
<1>5. ASSUME NEW k \in Key PROVE Map!Remove(k)
  BY <1>2, <1>3 DEF Map!Remove, Content, Pending, Doomed, Bg, Spare
<1>6. QED BY <1>4, <1>5

LEMMA BackgroundMap ==
  ASSUME MainInv, MainInv', SetBackground
  PROVE  Map!SetBackground
<1>1. bck' \in Backgrounds /\ UNCHANGED <<vct_index, adds, rems, other, client>>
  BY DEF SetBackground
<1>2. Content' = Content
  <2>1. PICK data2 : data2 = vct_data'
    OBVIOUS
  <2>2. \A i \in 1 .. Len(vct_index) : data2[i] = vct_data[i]
    BY <2>1, BackgroundKeeps
  <2>3. Contents(vct_index, data2) = Contents(vct_index, vct_data)
    BY <2>2, ContentsSame DEF MainInv
  <2>4. QED BY <1>1, <2>1, <2>3 DEF Content
<1>3. Pending' = Pending /\ Spare' = Spare
  BY <1>1, PendingStays, SpareStays
<1>4. Doomed' = Doomed
  BY <1>1 DEF Doomed, rems
<1>5. Bg' \in Backgrounds
  BY <1>1, BgIsBck
<1>6. QED BY <1>2, <1>3, <1>4, <1>5 DEF Map!SetBackground, Content, Pending, Doomed, Bg, Spare

LEMMA NothingContent ==
  ASSUME NEW data
  PROVE  Contents(<<>>, data) = Map!Nothing
<1>1. ToSet(<<>>) = {}
  BY NoSlots
<1>2. QED BY <1>1 DEF Contents, Map!Nothing

LEMMA ClearMap ==
  ASSUME MainInv, MainInv', Clear
  PROVE  Map!Clear
<1>1. /\ vct_index' = <<>> /\ vct_add_index' = <<>> /\ n_add_slot' = 0 /\ n_rem_slot' = 0
      /\ UNCHANGED <<bck, other, client>>
  BY DEF Clear
<1>2. Content' = Map!Nothing
  BY <1>1, NothingContent DEF Content
<1>3. ToSet(AddSlots') = {}
  BY <1>1, NoSlots DEF AddSlots
<1>4. Pending' = {}
  BY <1>3, NoneWaits
<1>5. Doomed' = {}
  BY <1>1 DEF Doomed
<1>6. Spare' = Spare /\ Bg' = Bg
  BY <1>1, SpareStays, BgIsBck
<1>7. QED BY <1>2, <1>4, <1>5, <1>6 DEF Map!Clear, Content, Pending, Doomed, Bg, Spare

LEMMA SwapMap ==
  ASSUME MainInv, MainInv', Swap
  PROVE  Map!Swap
<1>1. /\ vct_index' = other.index /\ vct_data' = other.data
      /\ vct_add_index' = other.add_index /\ vct_add_data' = other.add_data
      /\ other' = [index |-> vct_index, data |-> vct_data,
                   add_index |-> vct_add_index, add_data |-> vct_add_data]
      /\ UNCHANGED <<bck, rems, client, n_add_slot>> /\ n_add_slot = 0
  BY DEF Swap
<1>2. AddSlots = IF device THEN <<>> ELSE HostSlots(vct_add_index)
  BY <1>1 DEF AddSlots
<1>3. AddSlots' = IF device THEN <<>> ELSE HostSlots(other.add_index)
  BY <1>1 DEF AddSlots, device
<1>4. \A wi, wd : Waiting(wi, wd, <<>>) = {}
  BY NoSlots DEF Waiting
<1>5. Pending = IF device THEN {} ELSE Waiting(vct_add_index, vct_add_data, HostSlots(vct_add_index))
  BY <1>2, <1>4 DEF Pending
<1>6. Pending' = IF device THEN {}
                 ELSE Waiting(other.add_index, other.add_data, HostSlots(other.add_index))
  BY <1>1, <1>3, <1>4 DEF Pending
<1>7. Spare = [content |-> Contents(other.index, other.data), pending |-> Pending']
  BY <1>6 DEF Spare
<1>8. Spare' = [content |-> Content, pending |-> Pending]
  BY <1>1, <1>5 DEF Spare, Content, device
<1>9. Content' = Spare.content /\ Pending' = Spare.pending
  BY <1>1, <1>7 DEF Content
<1>10. Doomed' = Doomed
  BY <1>1 DEF Doomed, rems
<1>11. Bg' = Bg
  BY <1>1, BgIsBck
<1>12. QED BY <1>8, <1>9, <1>10, <1>11 DEF Map!Swap, Content, Pending, Doomed, Bg, Spare

LEMMA MapInit == Init => Map!Init
<1> SUFFICES ASSUME Init PROVE Map!Init
  OBVIOUS
<1>1. /\ vct_index = <<>> /\ vct_data = <<bck>> /\ vct_add_index = <<>> /\ n_add_slot = 0 /\ n_rem_slot = 0
      /\ other.index = <<>> /\ other.add_index = <<>>
      /\ bck = (CHOOSE b \in Backgrounds : TRUE)
  BY DEF Init
<1>2. bck \in Backgrounds
  BY <1>1, SparseVectorAssumption
<1>3. Content = Map!Nothing
  BY <1>1, NothingContent DEF Content
<1>4. Pending = {}
  BY <1>1, NoSlots DEF Pending, Waiting, AddSlots
<1>5. Doomed = {}
  BY <1>1 DEF Doomed
<1>6. Spare = [content |-> Map!Nothing, pending |-> {}]
  BY <1>1, NothingContent, NoSlots DEF Spare, Waiting
<1>7. Bg = bck
  BY <1>1 DEF Bg, Last
<1>8. QED BY <1>2, <1>3, <1>4, <1>5, <1>6, <1>7 DEF Map!Init, Content, Pending, Doomed, Bg, Spare

MapInv == SvInv /\ ValuesInv /\ WaitInv /\ PairInv /\ RemoveInv /\ NextTyped

LEMMA MapStep == MapInv /\ MapInv' /\ [Next]_vars => [Map!Next]_(Map!vars)
<1> SUFFICES ASSUME MapInv, MapInv', [Next]_vars PROVE Map!Next \/ UNCHANGED Map!vars
  OBVIOUS
<1>0. /\ MainInv /\ MainInv' /\ AddInv /\ AddInv' /\ RemInv /\ RemInv' /\ WaitInv /\ ValuesInv
      /\ PairInv /\ PairInv' /\ RemoveInv /\ NextTyped /\ NextTyped'
  BY DEF MapInv, SvInv
<1>1. ASSUME Map!Fill \/ Map!Flush \/ Map!FlushRemove \/ Map!SetBackground \/ Map!Clear \/ Map!Swap
      PROVE  Map!Next
  BY <1>1 DEF Map!Next
<1>2. ASSUME NEW k \in Key, Insert(k) PROVE Map!Next
  <2>1. UNCHANGED <<main, rems, other, client>>
    BY <1>2 DEF Insert
  <2>2. QED BY <1>0, <1>1, <2>1, FillsMap
<1>3. ASSUME NEW k \in Key, InsertFlush(k) PROVE Map!Next
  <2>1. next \in Map!Ins /\ Map!Assign(k, next)
    BY <1>0, <1>3, InsertFlushAssignsMap
  <2>2. QED BY <2>1 DEF Map!Next
<1>4. ASSUME NEW j \in Key, NEW k \in Key, PreFlush(j, k) PROVE Map!Next
  <2>1. UNCHANGED <<main, rems, other, client>>
    BY <1>4 DEF PreFlush
  <2>2. QED BY <1>0, <1>1, <2>1, FillsMap
<1>5. ASSUME NEW b \in 1 .. NBlock, NEW k \in Key, NEW inc \in BOOLEAN, InsertKernel(b, k, inc)
      PROVE  Map!Next
  <2>1. UNCHANGED <<main, rems, other, client>>
    BY <1>5 DEF InsertKernel
  <2>2. QED BY <1>0, <1>1, <2>1, FillsMap
<1>6. ASSUME NEW b \in 1 .. NBlock, NEW k \in Key, NEW inc \in BOOLEAN, RemoveKernel(b, k, inc)
      PROVE  Map!Next
  <2>1. Map!Remove(k)
    BY <1>0, <1>6, DoomsMap
  <2>2. QED BY <2>1 DEF Map!Next
<1>7. CASE SetBackground
  BY <1>0, <1>1, <1>7, BackgroundMap
<1>8. CASE SetGPUInsertBuffer
  <2>1. UNCHANGED <<main, rems, other, client>>
    BY <1>8 DEF SetGPUInsertBuffer
  <2>2. QED BY <1>0, <1>1, <2>1, FillsMap
<1>9. CASE SetGPURemoveBuffer
  <2>1. (\E k \in Key : Map!Remove(k)) \/ UNCHANGED Map!vars
    BY <1>0, <1>9, NewBufferMap
  <2>2. QED BY <2>1 DEF Map!Next
<1>10. CASE FlushOnHost \/ FlushOnDevice
  BY <1>0, <1>1, <1>10, FlushesMap
<1>11. CASE FlushOnDeviceNothing
  BY <1>0, <1>11, NothingStutters
<1>12. CASE FlushRemove
  BY <1>0, <1>1, <1>12, RemovesMap
<1>13. CASE Clear
  BY <1>0, <1>1, <1>13, ClearMap
<1>14. CASE Swap
  BY <1>0, <1>1, <1>14, SwapMap
<1>15. CASE RemoveUnusedBuffers
  BY <1>15, UnusedStutters
<1>16. CASE UNCHANGED vars
  <2>1. UNCHANGED <<main, adds, rems, other, client>>
    BY <1>16 DEF vars
  <2>2. Content' = Content /\ Pending' = Pending /\ Spare' = Spare /\ Bg' = Bg
    BY <2>1, ContentStays, PendingStays, SpareStays DEF Bg, main
  <2>3. Doomed' = Doomed
    BY <2>1 DEF Doomed, rems
  <2>4. QED BY <2>2, <2>3 DEF Map!vars, Content, Pending, Doomed, Bg, Spare
<1>17. QED
  BY <1>2, <1>3, <1>4, <1>5, <1>6, <1>7, <1>8, <1>9, <1>10, <1>11, <1>12, <1>13, <1>14, <1>15, <1>16
  DEF Next

-----------------------------------------------------------------------------
(* What an insertion leaves waiting.                                       *)

PairsOf(wi, wd, S) == {<<wi[s], wd[s][1]>> : s \in S}

LEMMA PendingIs ==
  /\ Pending = PairsOf(vct_add_index, vct_add_data, ToSet(AddSlots))
  /\ Pending' = PairsOf(vct_add_index', vct_add_data', ToSet(AddSlots'))
BY DEF Pending, Waiting, PairsOf

\* Slots with what they had, and one, at, with a new pair.
Gains(wi, wd, S, wi2, wd2, T, at, k, n) ==
  /\ n \in Nat
  /\ at \in T => wi2[at] = k /\ wd2[at] = <<n>>
  /\ \A s \in T : s = at \/ (s \in S /\ wi2[s] = wi[s] /\ wd2[s] = wd[s])

LEMMA PairsGrow ==
  ASSUME NEW wi, NEW wd, NEW S, NEW wi2, NEW wd2, NEW T, NEW at, NEW k, NEW n,
         Gains(wi, wd, S, wi2, wd2, T, at, k, n),
         NEW P, P = PairsOf(wi, wd, S), NEW Q, Q = PairsOf(wi2, wd2, T), NEW p, p = <<k, n>>
  PROVE  /\ Q \subseteq P \cup {p}
         /\ at \in T => p \in Q
         /\ (at \notin S /\ S \subseteq T) => P \subseteq Q
<1>1. at \in T => wi2[at] = k /\ wd2[at][1] = n
  BY FirstIs DEF Gains
<1>2. \A s \in T : s = at \/ (s \in S /\ wi2[s] = wi[s] /\ wd2[s][1] = wd[s][1])
  BY DEF Gains
<1>3. ASSUME NEW s \in T PROVE <<wi2[s], wd2[s][1]>> \in PairsOf(wi, wd, S) \cup {<<k, n>>}
  <2>1. CASE s = at
    BY <1>1, <2>1
  <2>2. CASE s # at
    BY <1>2, <2>2 DEF PairsOf
  <2>3. QED BY <2>1, <2>2
<1>4. PairsOf(wi2, wd2, T) \subseteq PairsOf(wi, wd, S) \cup {p}
  BY <1>3 DEF PairsOf
<1>5. ASSUME at \in T PROVE <<k, n>> \in PairsOf(wi2, wd2, T)
  <2>1. <<k, n>> = <<wi2[at], wd2[at][1]>>
    BY <1>1, <1>5
  <2>2. QED BY <1>5, <2>1 DEF PairsOf
<1>6. ASSUME at \notin S, S \subseteq T PROVE PairsOf(wi, wd, S) \subseteq PairsOf(wi2, wd2, T)
  <2>1. ASSUME NEW s \in S PROVE <<wi[s], wd[s][1]>> \in PairsOf(wi2, wd2, T)
    <3>1. s \in T /\ <<wi[s], wd[s][1]>> = <<wi2[s], wd2[s][1]>>
      BY <1>2, <1>6
    <3>2. QED BY <3>1 DEF PairsOf
  <2>2. QED BY <2>1 DEF PairsOf
<1>7. QED BY <1>4, <1>5, <1>6

\* insert(ele) adds one pair; it has no effect on the pools of the device.
LEMMA HostInsertWaits ==
  ASSUME AddInv, AddInv', WaitInv, PairInv, NEW k \in Key, Insert(k)
  PROVE  Pending' = IF device THEN Pending ELSE Pending \cup {<<k, next>>}
<1>1. /\ vct_add_index' = Append(vct_add_index, k) /\ vct_add_data' = Append(vct_add_data, <<next>>)
      /\ UNCHANGED <<main, vct_nadd_index, n_add_slot, client>>
  BY DEF Insert
<1>2. PICK S, T : S = ToSet(AddSlots) /\ T = ToSet(AddSlots')
  OBVIOUS
<1>3. PICK wi \in Seq(Nat), L \in Nat :
        wi = vct_add_index /\ L = Len(wi) /\ DOMAIN wi = 1 .. L
  BY DEF AddInv
<1>4. PICK wd \in Seq(Seq(Nat)) : wd = vct_add_data
  BY DEF WaitInv
<1>5. PICK m \in Nat : m = next
  BY DEF PairInv
<1>6. WaitsIn(S, device, wi, vct_nadd_index, n_add_slot)
  BY <1>2, <1>3, SlotsWait
<1>7. WaitsIn(T, device', vct_add_index', vct_nadd_index', n_add_slot')
  BY <1>2, SlotsWaitNext
<1>8. device' <=> device
  BY <1>1 DEF device
<1>9. S \subseteq 1 .. L
  BY <1>3, <1>6 DEF WaitsIn
<1>10. PICK wi2, wd2 : wi2 = Append(wi, k) /\ wd2 = Append(wd, <<m>>)
  OBVIOUS
<1>11. Pending = PairsOf(wi, wd, S) /\ Pending' = PairsOf(wi2, wd2, T)
  BY <1>1, <1>2, <1>3, <1>4, <1>5, <1>10, PendingIs
<1>12. k \in Nat /\ <<m>> \in Seq(Nat)
  BY KeysAre
<1>13. /\ DOMAIN wi2 = 1 .. L + 1 /\ wi2[L + 1] = k
       /\ \A s \in 1 .. L : wi2[s] = wi[s]
  BY <1>3, <1>10, <1>12
<1>14. CASE device
  <2>1. T = S
    BY <1>1, <1>6, <1>7, <1>8, <1>14 DEF WaitsIn
  <2>2. CASE n_add_slot > 0
    <3>1. Len(wd) = L
      BY <1>3, <1>4, <2>2 DEF WaitInv
    <3>2. \A s \in 1 .. L : wd2[s] = wd[s]
      BY <1>10, <1>12, <3>1
    <3>3. \A s \in S : wi2[s] = wi[s] /\ wd2[s][1] = wd[s][1]
      BY <1>9, <1>13, <3>2
    <3>4. PairsOf(wi2, wd2, S) = PairsOf(wi, wd, S)
      BY <3>3 DEF PairsOf
    <3>5. QED BY <1>11, <1>14, <2>1, <3>4
  <2>3. CASE ~(n_add_slot > 0)
    <3>1. S = {}
      <4>1. n_add_slot = 0
        BY <2>3 DEF AddInv
      <4>2. QED BY <1>6, <1>14, <4>1 DEF WaitsIn
    <3>2. QED BY <1>11, <1>14, <2>1, <3>1 DEF PairsOf
  <2>4. QED BY <2>2, <2>3
<1>15. CASE ~device
  <2>1. Len(wd) = L
    BY <1>3, <1>4, <1>15 DEF WaitInv
  <2>2. /\ wd2[L + 1] = <<m>>
        /\ \A s \in 1 .. L : wd2[s] = wd[s]
    BY <1>10, <1>12, <2>1, SMTT(20)
  <2>3. S = 1 .. L /\ T = 1 .. L + 1
    <3>1. \A s : s \in S <=> s \in 1 .. L
      BY <1>3, <1>6, <1>15 DEF WaitsIn
    <3>2. \A s : s \in T <=> s \in DOMAIN vct_add_index'
      BY <1>7, <1>8, <1>15 DEF WaitsIn
    <3>3. DOMAIN vct_add_index' = 1 .. L + 1
      BY <1>1, <1>3, <1>10, <1>13
    <3>4. QED BY <3>1, <3>2, <3>3
  <2>4. PICK at : at = L + 1
    OBVIOUS
  <2>5. at \in T /\ at \notin S /\ S \subseteq T
    BY <2>3, <2>4
  <2>6. \A s \in T : s = at \/ (s \in S /\ wi2[s] = wi[s] /\ wd2[s] = wd[s])
    BY <1>13, <2>2, <2>3, <2>4
  <2>7. wi2[at] = k /\ wd2[at] = <<m>>
    BY <1>13, <2>2, <2>4
  <2>a. Gains(wi, wd, S, wi2, wd2, T, at, k, m)
    BY <2>6, <2>7 DEF Gains
  <2>8. PICK p, P, Q : p = <<k, m>> /\ P = PairsOf(wi, wd, S) /\ Q = PairsOf(wi2, wd2, T)
    OBVIOUS
  <2>9. Q \subseteq P \cup {p} /\ p \in Q /\ P \subseteq Q
    <3>1. Q \subseteq P \cup {p}
      BY <2>8, <2>a, PairsGrow
    <3>2. p \in Q
      BY <2>5, <2>8, <2>a, PairsGrow
    <3>3. P \subseteq Q
      BY <2>5, <2>8, <2>a, PairsGrow
    <3>4. QED BY <3>1, <3>2, <3>3
  <2>10. QED BY <1>5, <1>11, <1>15, <2>8, <2>9
<1>16. QED BY <1>14, <1>15

\* What a kernel inserts waits; with init_ins_inc what waited before does, too.
LEMMA KernelInsertWaits ==
  ASSUME AddInv, AddInv', WaitInv, PairInv,
         NEW b \in 1 .. NBlock, NEW k \in Key, NEW inc \in BOOLEAN, InsertKernel(b, k, inc)
  PROVE  /\ <<k, next>> \in Pending' /\ Pending' \subseteq Pending \cup {<<k, next>>}
         /\ inc => Pending \subseteq Pending'
<1>1. PICK nslot \in Nat : nslot = n_add_slot /\ nslot > 0
  BY DEF AddInv, InsertKernel
<1>2. PICK at : at = TakenSlot(vct_nadd_index, nslot, b, inc)
  OBVIOUS
<1>3. /\ vct_add_index' = Stored(vct_add_index, nslot, at, k, inc, NoKey)
      /\ vct_add_data' = Stored(vct_add_data, nslot, at, <<next>>, inc, Junk)
      /\ vct_nadd_index' = Counted(vct_nadd_index, b, inc)
      /\ n_add_slot' = nslot /\ UNCHANGED client
      /\ "insert kernel" \in client
      /\ NBlock <= Len(vct_nadd_index)
      /\ inc => vct_nadd_index[b] < nslot
  BY <1>1, <1>2 DEF InsertKernel
<1>4. PICK S, T : S = ToSet(AddSlots) /\ T = ToSet(AddSlots')
  OBVIOUS
<1>5. PICK wi \in Seq(Nat), L \in Nat :
        wi = vct_add_index /\ L = Len(wi) /\ DOMAIN wi = 1 .. L
  BY DEF AddInv
<1>6. PICK wd \in Seq(Seq(Nat)) : wd = vct_add_data /\ Len(wd) = L /\ DOMAIN wd = 1 .. L
  BY <1>1, <1>5 DEF WaitInv
<1>7. PICK m \in Nat : m = next
  BY DEF PairInv
<1>8. device /\ device'
  BY <1>3, KernelOnDevice DEF PairInv, device
<1>9. PICK count \in Seq(Nat), n \in Nat : count = vct_nadd_index /\ n = Len(count) /\ DOMAIN count = 1 .. n
  BY DEF AddInv
<1>10. b \in DOMAIN count
  <2>1. PICK B \in Nat : B = NBlock
    BY PoolSize
  <2>2. b \in 1 .. B /\ B <= n
    BY <1>3, <1>9, <2>1
  <2>3. QED BY <1>9, <2>2
<1>11. WaitsIn(S, device, wi, count, nslot)
  BY <1>1, <1>4, <1>5, <1>9, SlotsWait
<1>12. WaitsIn(T, device', vct_add_index', Counted(count, b, inc), nslot)
  BY <1>3, <1>4, <1>9, SlotsWaitNext
<1>13. /\ \A s : s \in S <=> Taken(count, nslot, s)
       /\ \A s : s \in T <=> Taken(Counted(count, b, inc), nslot, s)
  BY <1>1, <1>8, <1>11, <1>12 DEF WaitsIn
<1>14. PICK last : last = nslot * NBlock
  OBVIOUS
<1>15. PICK wi2, wd2 : wi2 = Stored(wi, nslot, at, k, inc, NoKey) /\ wd2 = Stored(wd, nslot, at, <<m>>, inc, Junk)
  OBVIOUS
<1>16. /\ wi2 = [i \in 1 .. L |-> IF i = at THEN k ELSE IF inc \/ i > last THEN wi[i] ELSE NoKey]
       /\ wd2 = [i \in 1 .. L |-> IF i = at THEN <<m>> ELSE IF inc \/ i > last THEN wd[i] ELSE Junk]
  BY <1>5, <1>6, <1>14, <1>15 DEF Stored
<1>17. T \subseteq 1 .. L
  <2>1. vct_add_index' = wi2
    BY <1>3, <1>5, <1>15
  <2>2. DOMAIN wi2 = 1 .. L
    BY <1>16
  <2>3. QED BY <1>12, <2>1, <2>2 DEF WaitsIn
<1>18. \A s \in T : s = at \/ (s \in S /\ wi2[s] = wi[s] /\ wd2[s] = wd[s])
  <2>1. SUFFICES ASSUME NEW s \in T, s # at PROVE s \in S /\ wi2[s] = wi[s] /\ wd2[s] = wd[s]
    OBVIOUS
  <2>2. Taken(Counted(count, b, inc), nslot, s)
    BY <1>13
  <2>3. \/ s = TakenSlot(count, nslot, b, inc)
        \/ Taken(count, nslot, s) /\ (inc \/ s > nslot * NBlock)
    BY <2>2, TakenNext
  <2>4. at = TakenSlot(count, nslot, b, inc)
    BY <1>2, <1>9
  <2>5. s \in S /\ (inc \/ s > last)
    BY <1>13, <1>14, <2>1, <2>3, <2>4
  <2>6. QED BY <1>16, <1>17, <2>1, <2>5
<1>19. /\ Taken(Counted(count, b, inc), nslot, at)
       /\ inc => \A s : Taken(count, nslot, s) => Taken(Counted(count, b, inc), nslot, s)
  <2>1. at = TakenSlot(count, nslot, b, inc)
    BY <1>2, <1>9
  <2>2. QED BY <1>10, <2>1, KernelTakes
<1>20. at \in T /\ (inc => S \subseteq T)
  BY <1>13, <1>19
<1>21. wi2[at] = k /\ wd2[at] = <<m>>
  BY <1>16, <1>17, <1>20
<1>22. inc => at \notin S
  <2>1. SUFFICES ASSUME inc PROVE at \notin S
    OBVIOUS
  <2>2. PoolsFit(wi, count, nslot)
    BY <1>1, <1>5, <1>8, <1>9 DEF AddInv
  <2>3. at = TakenSlot(count, nslot, b, TRUE)
    BY <1>2, <1>9, <2>1
  <2>4. ~Taken(count, nslot, at)
    BY <1>3, <1>9, <1>10, <2>1, <2>2, <2>3, SlotIsFree
  <2>5. QED BY <1>13, <2>4
<1>a. Gains(wi, wd, S, wi2, wd2, T, at, k, m)
  BY <1>18, <1>20, <1>21 DEF Gains
<1>23. PICK p, P, Q : p = <<k, m>> /\ P = PairsOf(wi, wd, S) /\ Q = PairsOf(wi2, wd2, T)
  OBVIOUS
<1>24. Q \subseteq P \cup {p} /\ p \in Q /\ (inc => P \subseteq Q)
  BY <1>20, <1>22, <1>23, <1>a, PairsGrow
<1>25. Pending = PairsOf(wi, wd, S) /\ Pending' = PairsOf(wi2, wd2, T)
  BY <1>3, <1>4, <1>5, <1>6, <1>7, <1>15, PendingIs
<1>26. QED BY <1>7, <1>23, <1>24, <1>25

\* preFlush: what the client wrote into the buffer waits, and nothing else.
LEMMA PreFlushWaits ==
  ASSUME AddInv', PairInv, NEW j \in Key, NEW k \in Key, PreFlush(j, k)
  PROVE  Pending' = {<<j, next>>, <<k, next + 1>>}
<1>1. /\ vct_add_index' = <<j, k>> /\ vct_add_data' = <<<<next>>, <<next + 1>>>>
      /\ vct_nadd_index' = [i \in 1 .. 2 |-> 1] /\ n_add_slot' = 1
      /\ "preFlush" \in client /\ client' = client
  BY DEF PreFlush
<1>2. PICK T : T = ToSet(AddSlots')
  OBVIOUS
<1>3. device'
  <2>1. {"insert kernel", "preFlush"} \cap client # {}
    BY <1>1
  <2>2. QED BY <1>1, <2>1, SidesApart DEF PairInv, device
<1>4. PICK count : count = [i \in 1 .. 2 |-> 1]
  OBVIOUS
<1>5. \A s : s \in T <=> Taken(count, 1, s)
  BY <1>1, <1>2, <1>3, <1>4, SlotsWaitNext DEF WaitsIn
<1>6. DOMAIN count = 1 .. 2 /\ count[1] = 1 /\ count[2] = 1
  BY <1>4
<1>7. T = {1, 2}
  <2>1. Taken(count, 1, 1) /\ Taken(count, 1, 2)
    BY <1>6 DEF Taken
  <2>2. \A s : Taken(count, 1, s) => s = 1 \/ s = 2
    BY <1>6 DEF Taken
  <2>3. QED BY <1>5, <2>1, <2>2
<1>8. PICK m \in Nat : m = next
  BY DEF PairInv
<1>9. PICK wi, wd : wi = <<j, k>> /\ wd = <<<<m>>, <<m + 1>>>>
  OBVIOUS
<1>10. wi[1] = j /\ wi[2] = k /\ wd[1][1] = m /\ wd[2][1] = m + 1
  <2>1. wd[1] = <<m>> /\ wd[2] = <<m + 1>>
    BY <1>9
  <2>2. QED BY <1>9, <2>1, FirstIs
<1>11. PairsOf(wi, wd, T) = {<<j, m>>, <<k, m + 1>>}
  BY <1>7, <1>10 DEF PairsOf
<1>12. QED BY <1>1, <1>2, <1>8, <1>9, <1>11, PendingIs

\* The steps after which an insertion may wait no longer.
Dropping ==
  \/ FlushOnHost \/ FlushOnDevice \/ Clear \/ Swap \/ SetGPUInsertBuffer
  \/ \E j, k \in Key : PreFlush(j, k)
  \/ \E b \in 1 .. NBlock, k \in Key : InsertKernel(b, k, FALSE)

LEMMA NothingDropped ==
  ASSUME AddInv, AddInv', WaitInv, PairInv, [Next]_vars, ~Dropping
  PROVE  Pending \subseteq Pending'
<1>1. CASE UNCHANGED <<adds, client>>
  BY <1>1, PendingStays
<1>2. ASSUME NEW k \in Key, Insert(k) PROVE Pending \subseteq Pending'
  BY <1>2, HostInsertWaits
<1>3. ASSUME NEW b \in 1 .. NBlock, NEW k \in Key, NEW inc \in BOOLEAN, InsertKernel(b, k, inc)
      PROVE  Pending \subseteq Pending'
  BY <1>3, KernelInsertWaits DEF Dropping
<1>4. CASE FlushOnDeviceNothing
  <2>1. PICK S : S = ToSet(AddSlots) /\ S = ToSet(AddSlots')
    BY <1>4, NothingSlots
  <2>2. UNCHANGED <<vct_add_index, vct_add_data>>
    BY <1>4 DEF FlushOnDeviceNothing
  <2>3. QED BY <2>1, <2>2, PendingIs
<1>5. CASE RemoveUnusedBuffers
  <2>1. ToSet(AddSlots) = {}
    BY <1>5, NoSlots DEF RemoveUnusedBuffers, AddSlots
  <2>2. QED BY <2>1, PendingIs DEF PairsOf
<1>6. \/ UNCHANGED <<adds, client>> \/ (\E k \in Key : Insert(k))
      \/ (\E b \in 1 .. NBlock, k \in Key, inc \in BOOLEAN : InsertKernel(b, k, inc))
      \/ FlushOnDeviceNothing \/ RemoveUnusedBuffers
  BY DEF Dropping, Next, vars, InsertFlush, RemoveKernel, SetBackground, SetGPURemoveBuffer, FlushRemove
<1>7. QED BY <1>1, <1>2, <1>3, <1>4, <1>5, <1>6

\* insert on the host, in a kernel and before preFlush leaves its key and its
\* number waiting; what waited stays, but for the steps that drop it: a kernel
\* that goes on counting (init_ins_inc) writes over no slot that is taken.
InsertionWaits ==
  /\ \A k \in Key : Insert(k) /\ ~device => Pending' = Pending \cup {<<k, next>>}
  /\ \A b \in 1 .. NBlock, k \in Key, inc \in BOOLEAN :
       InsertKernel(b, k, inc) => <<k, next>> \in Pending' /\ Pending' \subseteq Pending \cup {<<k, next>>}
  /\ \A j, k \in Key : PreFlush(j, k) => Pending' = {<<j, next>>, <<k, next + 1>>}
  /\ Pending \subseteq Pending' \/ Dropping

-----------------------------------------------------------------------------
(* The theorems.                                                           *)

\* An insertion is reduced once: in this vector and in the one it is swapped
\* with no value has a number twice, no number waits in two slots, and none
\* that waits is in a value already (flush_on_cpu, flush_on_gpu_insert, swap).
THEOREM NumbersApart == Spec => []PairInv
<1>1. SvInv /\ ValuesInv /\ WaitInv /\ [Next]_vars => ValuesInv' /\ WaitInv'
  BY ValuesStep, WaitStep
<1>2. QED BY <1>1, PairStep, PairInit, ValuesInit, VectorInvariant, PTL DEF Spec

\* Every variable has its type, for any keys, pools and clients: the merge and
\* the compaction in thread blocks leave no slot unwritten, every value is made
\* of insertions (solve_conflicts, realign), and no counter passes its pool.
THEOREM TypeCorrect == Spec => []TypeOK
<1>1. ASSUME SvInv, PairInv, AddTyped, CountTyped, RemTyped, NextTyped PROVE TypeOK
  <2>1. PICK n \in Nat :
          /\ n = Len(vct_index) /\ Len(vct_data) = n + 1 /\ vct_data[n + 1] = bck
          /\ DOMAIN vct_index = 1 .. n
    BY <1>1, MainIs DEF SvInv, MainInv, Rising
  <2>2. Filled(vct_index, vct_data, next)
    BY <1>1, FilledKeys DEF PairInv, MainPair
  <2>3. vct_index \in Seq(Key)
    <3>1. \A i \in 1 .. n : vct_index[i] \in Key
      BY <2>1, <2>2 DEF Filled
    <3>2. vct_index \in Seq(Nat)
      BY <1>1, MainIs DEF SvInv
    <3>3. QED BY <2>1, <3>1, <3>2
  <2>4. PICK V : V = Value \cup Backgrounds
    OBVIOUS
  <2>5. \A i \in 1 .. n + 1 : vct_data[i] \in V
    <3>1. SUFFICES ASSUME NEW i \in 1 .. n PROVE vct_data[i] \in Value
      BY <1>1, <2>1, <2>4 DEF NextTyped
    <3>2. Plain(vct_data[i]) /\ vct_data[i] # <<>> /\ ToSet(vct_data[i]) \subseteq 1 .. next - 1
      BY <2>1, <2>2 DEF Filled
    <3>3. 1 .. next - 1 \subseteq Ins
      BY <1>1, SparseVectorAssumption DEF NextTyped, Ins
    <3>4. QED BY <3>2, <3>3, PlainIsValue
  <2>6. vct_data \in Seq(V)
    <3>1. PICK S : vct_data \in Seq(S)
      BY <1>1 DEF SvInv, MainInv, Vector
    <3>2. QED BY <2>1, <2>5, <3>1
  <2>7. vct_data \in Seq(Value \cup Backgrounds) /\ Len(vct_data) = Len(vct_index) + 1
    BY <2>1, <2>4, <2>6
  <2>8. client \in Clients
    BY <1>1 DEF PairInv
  <2>9. QED BY <1>1, <2>3, <2>7, <2>8 DEF TypeOK, AddTyped, CountTyped, RemTyped, NextTyped
<1>2. QED
  BY <1>1, TypeInit, AddTypeStep, CountTypeStep, RemTypeStep, NextTypeStep, NumbersApart, VectorInvariant,
     PTL DEF Spec

\* The vector is a map in which every flushed insertion counts once
\* (map_vector_sparse.hpp, map_vector_sparse_cuda_kernels.cuh): a flush on the
\* host or the device, a flush_remove, insertFlush, setBackground, clear and
\* swap do to its contents what their names say, and every other call nothing,
\* for any size of a thread block, keys, pools and clients.
THEOREM VectorImplementsMap == Spec => ImplementsMap
<1>1. SvInv /\ RemoveInv /\ [Next]_vars => RemoveInv'
  BY RemoveStep
<1>2. SvInv /\ ValuesInv /\ WaitInv /\ [Next]_vars => ValuesInv' /\ WaitInv'
  BY ValuesStep, WaitStep
<1>3. Init => ValuesInv /\ WaitInv
  BY ValuesInit
<1>4. Init => NextTyped
  BY TypeInit
<1>5. Spec => []MapInv
  <2>1. MapInv <=> SvInv /\ ValuesInv /\ WaitInv /\ PairInv /\ RemoveInv /\ NextTyped
    BY DEF MapInv
  <2>2. QED
    BY <1>1, <1>2, <1>3, <1>4, <2>1, RemoveInit, NextTypeStep, NumbersApart, VectorInvariant, PTL DEF Spec
<1>6. QED BY <1>5, MapInit, MapStep, PTL DEF Spec, ImplementsMap, Map!Spec

\* No insertion is lost before the flush (vector_sparse::insert, preFlush,
\* vector_sparse_gpu_ker::insert), for any pools and blocks: it waits until a
\* flush, clear, swap, a new buffer or a kernel that begins the pools anew.
THEOREM InsertionsWait == Spec => [][InsertionWaits]_vars
<1>1. ASSUME SvInv, SvInv', WaitInv, PairInv, [Next]_vars
      PROVE  InsertionWaits
  <2>0. AddInv /\ AddInv'
    BY <1>1 DEF SvInv
  <2>1. ASSUME NEW k \in Key, Insert(k), ~device PROVE Pending' = Pending \cup {<<k, next>>}
    BY <1>1, <2>0, <2>1, HostInsertWaits
  <2>2. ASSUME NEW b \in 1 .. NBlock, NEW k \in Key, NEW inc \in BOOLEAN, InsertKernel(b, k, inc)
        PROVE  <<k, next>> \in Pending' /\ Pending' \subseteq Pending \cup {<<k, next>>}
    BY <1>1, <2>0, <2>2, KernelInsertWaits
  <2>3. ASSUME NEW j \in Key, NEW k \in Key, PreFlush(j, k)
        PROVE  Pending' = {<<j, next>>, <<k, next + 1>>}
    BY <1>1, <2>0, <2>3, PreFlushWaits
  <2>4. Pending \subseteq Pending' \/ Dropping
    BY <1>1, <2>0, NothingDropped
  <2>5. QED BY <2>1, <2>2, <2>3, <2>4 DEF InsertionWaits
<1>2. SvInv /\ ValuesInv /\ WaitInv /\ [Next]_vars => ValuesInv' /\ WaitInv'
  BY ValuesStep, WaitStep
<1>3. QED BY <1>1, <1>2, ValuesInit, NumbersApart, VectorInvariant, PTL DEF Spec

=============================================================================
