------------------------- MODULE CellListGpu_proof -------------------------
(***************************************************************************)
(* Proofs about CellListGpu, for any grids, particles, ranges and options, *)
(* whatever the order in which the threads of the kernels run: construct   *)
(* sorts exactly its particles, and the iterators of the finished list     *)
(* return every particle near enough, and none twice.                      *)
(***************************************************************************)
EXTENDS CellListGpu, FiniteSetTheorems, TLAPS

-----------------------------------------------------------------------------
(* Counting.                                                               *)

LEMMA LeastNat ==
  ASSUME NEW S, S \subseteq Nat, S # {}
  PROVE  \E n \in S : \A m \in S : n <= m
<1> DEFINE R == OpToRel(<, Nat)
<1>1. R = {ss \in Nat \X Nat : ss[1] < ss[2]}
  BY DEF OpToRel
<1>2. IsWellFoundedOn(R, Nat)
  BY NatLessThanWellFounded
<1> HIDE DEF R
<1>3. PICK n \in S : \A m \in S : ~(<<m, n>> \in R)
  BY <1>2, WFMin
<1>4. \A m \in S : <<m, n>> \in Nat \X Nat
  OBVIOUS
<1>5. \A m \in S : ~(m < n)
  BY <1>1, <1>3, <1>4
<1>6. QED BY <1>5

\* A set in two parts has as many elements as the parts together.
LEMMA PartsCount ==
  ASSUME NEW A, NEW B, NEW C, IsFiniteSet(C), C = A \cup B, A \cap B = {}
  PROVE  /\ Cardinality(A) \in Nat /\ Cardinality(B) \in Nat
         /\ Cardinality(C) = Cardinality(A) + Cardinality(B)
<1>1. A \in SUBSET C /\ B \in SUBSET C
  OBVIOUS
<1>2. IsFiniteSet(A) /\ IsFiniteSet(B)
  BY <1>1, FS_Subset
<1>3. Cardinality(C) = Cardinality(A) + Cardinality(B) - Cardinality({})
  BY <1>2, FS_Union
<1>4. Cardinality(A) \in Nat /\ Cardinality(B) \in Nat
  BY <1>2, FS_CardinalityType
<1>5. QED BY <1>3, <1>4, FS_EmptySet

\* The scan of f is what begins with 0 and grows by f.
LEMMA ScanIs ==
  ASSUME NEW m \in Nat, NEW f, DOMAIN f = 0 .. m, NEW B, B[0] = 0,
         \A i \in 0 .. m - 1 : B[i + 1] = B[i] + f[i]
  PROVE  DOMAIN Scan(f) = 0 .. m /\ \A i \in 0 .. m : Scan(f)[i] = B[i]
<1> DEFINE Is(s) == s = [i \in 0 .. m |-> IF i = 0 THEN 0 ELSE s[i - 1] + f[i - 1]]
           S == CHOOSE s : Is(s)
<1>1. Scan(f) = S
  BY DEF Scan
<1>2. \E s : Is(s)
  <2>1. PICK s : s = [i \in 0 .. m |-> B[i]]
    OBVIOUS
  <2>2. ASSUME NEW i \in 0 .. m PROVE s[i] = IF i = 0 THEN 0 ELSE s[i - 1] + f[i - 1]
    <3>1. CASE i = 0
      BY <2>1, <3>1
    <3>2. CASE i # 0
      <4>1. i - 1 \in 0 .. m - 1 /\ (i - 1) + 1 = i
        BY <3>2
      <4>2. B[i] = B[i - 1] + f[i - 1]
        BY <4>1
      <4>3. s[i] = B[i] /\ s[i - 1] = B[i - 1]
        BY <2>1, <4>1
      <4>4. QED BY <3>2, <4>2, <4>3
    <3>3. QED BY <3>1, <3>2
  <2>3. Is(s)
    BY <2>1, <2>2
  <2>4. QED BY <2>3
<1>3. Is(S)
  <2> HIDE DEF Is
  <2>1. QED BY <1>2
<1> HIDE DEF S
<1>4. DOMAIN S = 0 .. m /\ \A i \in 0 .. m : S[i] = IF i = 0 THEN 0 ELSE S[i - 1] + f[i - 1]
  BY <1>3
<1>5. \A i \in 0 .. m : S[i] = B[i]
  <2> DEFINE Bad == {i \in 0 .. m : S[i] # B[i]}
  <2>1. SUFFICES ASSUME Bad # {} PROVE FALSE
    OBVIOUS
  <2>2. PICK i \in Bad : \A j \in Bad : i <= j
    <3>1. Bad \subseteq Nat
      OBVIOUS
    <3> HIDE DEF Bad
    <3>2. QED BY <2>1, <3>1, LeastNat
  <2>3. i \in 0 .. m /\ S[i] # B[i]
    OBVIOUS
  <2>4. i # 0
    BY <1>4, <2>3
  <2>5. i - 1 \in 0 .. m - 1 /\ i - 1 \in 0 .. m /\ (i - 1) + 1 = i /\ ~(i <= i - 1)
    BY <2>3, <2>4
  <2>6. S[i - 1] = B[i - 1]
    <3>1. i - 1 \notin Bad
      <4> HIDE DEF Bad
      <4>1. QED BY <2>2, <2>5
    <3>2. QED BY <2>5, <3>1
  <2>7. B[i] = B[i - 1] + f[i - 1]
    BY <2>5
  <2>8. QED BY <1>4, <2>3, <2>4, <2>6, <2>7
<1>6. QED BY <1>1, <1>4, <1>5

\* Of the particles S with cells K: those in cell c, and those in cells below.
On(S, K, c) == {p \in S : K[p] = c}
Under(S, K, c) == {p \in S : K[p] < c}

\* With P the places in the cells, those of a cell follow those of the cells
\* below.
At(S, K, P, p) == Cardinality(Under(S, K, K[p])) + P[p]

LEMMA CellsCount ==
  ASSUME NEW S, IsFiniteSet(S), NEW T \in Nat, NEW K \in [S -> 0 .. T - 1]
  PROVE  /\ \A c : /\ IsFiniteSet(On(S, K, c)) /\ IsFiniteSet(Under(S, K, c))
                   /\ Cardinality(On(S, K, c)) \in Nat /\ Cardinality(Under(S, K, c)) \in Nat
                   /\ Cardinality(Under(S, K, c)) <= Cardinality(S)
         /\ Cardinality(Under(S, K, 0)) = 0
         /\ \A c \in Nat : Cardinality(Under(S, K, c + 1)) =
                             Cardinality(Under(S, K, c)) + Cardinality(On(S, K, c))
         /\ \A c, d \in Nat : c < d =>
              Cardinality(Under(S, K, c)) + Cardinality(On(S, K, c)) <= Cardinality(Under(S, K, d))
<1>1. ASSUME NEW c
      PROVE  /\ IsFiniteSet(On(S, K, c)) /\ IsFiniteSet(Under(S, K, c))
             /\ Cardinality(On(S, K, c)) \in Nat /\ Cardinality(Under(S, K, c)) \in Nat
             /\ Cardinality(Under(S, K, c)) <= Cardinality(S)
  <2>1. On(S, K, c) \in SUBSET S /\ Under(S, K, c) \in SUBSET S
    BY DEF On, Under
  <2>2. QED BY <2>1, FS_Subset, FS_CardinalityType
<1>2. Cardinality(Under(S, K, 0)) = 0
  <2>1. Under(S, K, 0) = {}
    BY DEF Under
  <2>2. QED BY <2>1, FS_EmptySet
<1>3. ASSUME NEW c \in Nat
      PROVE  Cardinality(Under(S, K, c + 1)) = Cardinality(Under(S, K, c)) + Cardinality(On(S, K, c))
  <2>1. \A p \in S : K[p] \in Int
    OBVIOUS
  <2>2. Under(S, K, c + 1) = Under(S, K, c) \cup On(S, K, c)
    BY <2>1 DEF Under, On
  <2>3. Under(S, K, c) \cap On(S, K, c) = {}
    BY <2>1 DEF Under, On
  <2>4. IsFiniteSet(Under(S, K, c + 1))
    BY <1>1
  <2>5. QED BY <2>2, <2>3, <2>4, PartsCount
<1>4. ASSUME NEW c \in Nat, NEW d \in Nat, c < d
      PROVE  Cardinality(Under(S, K, c)) + Cardinality(On(S, K, c)) <= Cardinality(Under(S, K, d))
  <2>1. Under(S, K, c + 1) \in SUBSET Under(S, K, d)
    <3>1. \A p \in S : K[p] \in Int
      OBVIOUS
    <3>2. QED BY <1>4, <3>1 DEF Under
  <2>2. Cardinality(Under(S, K, c + 1)) <= Cardinality(Under(S, K, d))
    BY <1>1, <2>1, FS_Subset
  <2>3. QED BY <1>3, <2>2
<1>5. QED BY <1>1, <1>2, <1>3, <1>4

\* Places that differ within a cell give each particle a place of its own, in
\* the order of the cells, and there is no other.
Places(S, K, P) ==
  /\ \A p \in S : P[p] \in Nat /\ P[p] < Cardinality(On(S, K, K[p]))
  /\ \A p, q \in S : p # q /\ K[p] = K[q] => P[p] # P[q]

LEMMA PlacesFit ==
  ASSUME NEW S, NEW n \in Nat, IsFiniteSet(S), Cardinality(S) = n,
         NEW T \in Nat, NEW K \in [S -> 0 .. T - 1], NEW P, Places(S, K, P)
  PROVE  /\ \A p \in S : At(S, K, P, p) \in 0 .. n - 1
         /\ \A p, q \in S : p # q => At(S, K, P, p) # At(S, K, P, q)
         /\ \A p, q \in S : At(S, K, P, p) < At(S, K, P, q) => K[p] <= K[q]
         /\ \A i \in 0 .. n - 1 : \E p \in S : At(S, K, P, p) = i
<1>1. ASSUME NEW p \in S
      PROVE  /\ K[p] \in Nat /\ P[p] \in Nat /\ At(S, K, P, p) \in 0 .. n - 1
             /\ At(S, K, P, p) < Cardinality(Under(S, K, K[p])) + Cardinality(On(S, K, K[p]))
             /\ Cardinality(Under(S, K, K[p])) <= At(S, K, P, p)
  <2>1. PICK c \in Nat : c = K[p]
    OBVIOUS
  <2>2. PICK u \in Nat, o \in Nat : u = Cardinality(Under(S, K, c)) /\ o = Cardinality(On(S, K, c))
    BY CellsCount
  <2>3. P[p] \in Nat /\ P[p] < o
    BY <2>1, <2>2 DEF Places
  <2>4. u + o <= n
    BY <2>1, <2>2, CellsCount
  <2>5. At(S, K, P, p) = u + P[p]
    BY <2>1, <2>2 DEF At
  <2>6. QED BY <2>1, <2>2, <2>3, <2>4, <2>5
<1>2. ASSUME NEW p \in S, NEW q \in S, K[p] < K[q]
      PROVE  At(S, K, P, p) < At(S, K, P, q)
  <2>1. Cardinality(Under(S, K, K[p])) + Cardinality(On(S, K, K[p])) <= Cardinality(Under(S, K, K[q]))
    BY <1>1, <1>2, CellsCount
  <2>2. /\ Cardinality(Under(S, K, K[p])) \in Nat /\ Cardinality(On(S, K, K[p])) \in Nat
        /\ Cardinality(Under(S, K, K[q])) \in Nat
    BY CellsCount
  <2>3. QED BY <1>1, <2>1, <2>2
<1>3. ASSUME NEW p \in S, NEW q \in S, p # q
      PROVE  At(S, K, P, p) # At(S, K, P, q)
  <2>1. K[p] = K[q] => P[p] # P[q]
    BY <1>3 DEF Places
  <2>2. Cardinality(Under(S, K, K[p])) \in Nat
    BY CellsCount
  <2>3. CASE K[p] = K[q]
    BY <1>1, <2>1, <2>2, <2>3 DEF At
  <2>4. CASE K[p] # K[q]
    <3>1. K[p] < K[q] \/ K[q] < K[p]
      BY <1>1, <2>4
    <3>2. QED BY <1>1, <1>2, <3>1
  <2>5. QED BY <2>3, <2>4
<1>4. ASSUME NEW p \in S, NEW q \in S, At(S, K, P, p) < At(S, K, P, q)
      PROVE  K[p] <= K[q]
  <2>1. ~(K[q] < K[p])
    BY <1>1, <1>2, <1>4
  <2>2. QED BY <1>1, <2>1
<1>5. \A i \in 0 .. n - 1 : \E p \in S : At(S, K, P, p) = i
  <2> DEFINE f == [p \in S |-> At(S, K, P, p)]
  <2>1. \A p \in S : f[p] = At(S, K, P, p)
    OBVIOUS
  <2>2. f \in [S -> 0 .. n - 1]
    BY <1>1
  <2> HIDE DEF f
  <2>3. f \in Injection(S, 0 .. n - 1)
    BY <1>3, <2>1, <2>2 DEF Injection, IsInjective
  <2>4. IsFiniteSet(0 .. n - 1) /\ Cardinality(0 .. n - 1) = n
    BY FS_Interval
  <2>5. f \in Surjection(S, 0 .. n - 1)
    BY <2>3, <2>4, FS_Injection
  <2>6. QED BY <2>1, <2>5 DEF Surjection
<1>6. QED BY <1>1, <1>3, <1>4, <1>5

-----------------------------------------------------------------------------
(* Whole numbers.                                                          *)

\* Division rounds down.
LEMMA DivBounds ==
  ASSUME NEW x \in Int, NEW u \in Nat \ {0}
  PROVE  /\ x \div u \in Int
         /\ u * (x \div u) <= x /\ x < u * (x \div u) + u
BY SMT

\* The part below one, so that products of u are compared by their factors.
LEMMA TimesCancels ==
  ASSUME NEW a \in Int, NEW b \in Int, NEW u \in Nat \ {0}, u * a < u * b
  PROVE  a < b
<1>1. SUFFICES ASSUME b <= a PROVE FALSE
  BY SMT
<1>2. u * (a - b) \in Nat /\ u * (a - b) = u * a - u * b
  BY <1>1, SMT
<1>3. QED BY <1>2, SMT

LEMMA TimesSum ==
  ASSUME NEW a \in Int, NEW b \in Int, NEW u \in Nat \ {0}
  PROVE  /\ u * a \in Int /\ u * b \in Int
         /\ u * (a + b) = u * a + u * b /\ u * (a - b) = u * a - u * b
BY SMT

\* The square of a distance is no smaller than that of a shorter one.
LEMMA SquareGrows ==
  ASSUME NEW a \in Nat, NEW b \in Int, a <= b \/ a <= -b
  PROVE  a * a <= b * b /\ a * a \in Nat
<1>1. CASE a <= b
  <2>1. a * (b - a) \in Nat /\ a * (b - a) = a * b - a * a
    BY <1>1, SMT
  <2>2. b * (b - a) \in Nat /\ b * (b - a) = b * b - a * b
    BY <1>1, SMT
  <2>3. a * a \in Nat /\ a * b \in Int /\ b * b \in Int
    BY SMT
  <2>4. QED BY <2>1, <2>2, <2>3, SMT
<1>2. CASE a <= -b
  <2>1. a * (-b - a) \in Nat /\ a * (-b - a) = -(a * b) - a * a
    BY <1>2, SMT
  <2>2. -b * (-b - a) \in Nat /\ -b * (-b - a) = b * b + a * b
    BY <1>2, SMT
  <2>3. a * a \in Nat /\ a * b \in Int /\ b * b \in Int
    BY SMT
  <2>4. QED BY <2>1, <2>2, <2>3, SMT
<1>3. QED BY <1>1, <1>2

\* The floor of a negative coordinate is one below the last cell.
LEMMA FloorBounds ==
  ASSUME NEW x \in Int, NEW u \in Nat \ {0}
  PROVE  /\ SizeTFloor(x, u) \in Int
         /\ u * SizeTFloor(x, u) <= x /\ x <= u * SizeTFloor(x, u) + u
         /\ x >= 0 => x < u * SizeTFloor(x, u) + u
         /\ x < 0 => u * SizeTFloor(x, u) < x
<1>1. CASE x >= 0
  <2>1. SizeTFloor(x, u) = x \div u
    BY <1>1 DEF SizeTFloor
  <2>2. QED BY <2>1, <1>1, DivBounds, SMT
<1>2. CASE x < 0
  <2> DEFINE m == (-x) \div u
  <2>1. SizeTFloor(x, u) = -m - 1
    BY <1>2, SMT DEF SizeTFloor
  <2>2. -x \in Int
    BY SMT
  <2>3. m \in Int /\ u * m <= -x /\ -x < u * m + u
    BY <2>2, DivBounds
  <2> HIDE DEF m
  <2>4. u * (-m - 1) = -(u * m) - u /\ u * m \in Int
    BY <2>3, SMT
  <2>5. QED BY <2>1, <2>3, <2>4, <1>2, SMT
<1>3. QED BY <1>1, <1>2, SMT

\* The ceiling is the first multiple that is not below.
LEMMA CeilBounds ==
  ASSUME NEW x \in Int, NEW u \in Nat \ {0}
  PROVE  /\ Ceil(x, u) \in Int
         /\ x <= u * Ceil(x, u) /\ u * Ceil(x, u) < x + u
<1> DEFINE m == (-x) \div u
<1>1. -x \in Int
  BY SMT
<1>2. m \in Int /\ u * m <= -x /\ -x < u * m + u
  BY <1>1, DivBounds
<1>3. Ceil(x, u) = -m
  BY DEF Ceil
<1> HIDE DEF m
<1>4. u * (-m) = -(u * m) /\ u * m \in Int
  BY <1>2, SMT
<1>5. QED BY <1>2, <1>3, <1>4, SMT

\* Coordinates in a grid of width w and height v give a cell of it.
LEMMA LinIdInGrid ==
  ASSUME NEW w \in Nat, NEW v \in Nat, NEW i \in 0 .. w - 1, NEW j \in 0 .. v - 1
  PROVE  i + w * j \in 0 .. w * v - 1 /\ w * v \in Nat
<1>1. w \in Nat \ {0} /\ i \in Nat /\ j \in Nat /\ j + 1 <= v
  BY SMT
<1>2. w * j \in Nat /\ w * v \in Nat /\ w * (j + 1) = w * j + w
  BY <1>1, SMT
<1>3. w * (j + 1) <= w * v
  <2>1. w * (v - (j + 1)) \in Nat /\ w * (v - (j + 1)) = w * v - w * (j + 1)
    BY <1>1, SMT
  <2>2. QED BY <1>2, <2>1, SMT
<1>4. QED BY <1>1, <1>2, <1>3, SMT

-----------------------------------------------------------------------------
(* The inductive invariant: what each kernel has done so far.              *)

\* The cell of each particle of the range.
Cid == [p \in InRange |-> GetCid(geo, Particle(p))]
NCell == TotNCell(geo)

\* The particles whose threads have ended.
Seen == {p \in InRange : p - call.start \in done}
PlaceIn(p) == part_ids[p - call.start][2]

Phases == {"none", "subindex", "fill", "sorted", "neighbours", "reorder", "mark", "collect", "built"}

Typed ==
  /\ geo \in Geometries /\ client \in Client /\ is_sparse = client.sparse
  /\ \A k \in DOMAIN client.calls : GoodCall(client.calls[k], is_sparse)
  /\ call \in Call /\ GoodCall(call, is_sparse)
  /\ phase \in Phases /\ done \subseteq SortedIds

\* The particles S are counted, each has a place of its own in its cell.
Counted(S) ==
  /\ DOMAIN cl_n = 0 .. NCell /\ DOMAIN part_ids = SortedIds
  /\ \A c \in 0 .. NCell : cl_n[c] = Cardinality(On(S, Cid, c))
  /\ \A p \in S : /\ part_ids[p - call.start][1] = Cid[p]
                  /\ PlaceIn(p) \in Nat /\ PlaceIn(p) < Cardinality(On(S, Cid, Cid[p]))
  /\ \A p, q \in S : p # q /\ Cid[p] = Cid[q] => PlaceIn(p) # PlaceIn(q)

Celled(S) ==
  DOMAIN starts = SortedIds /\ \A p \in S : starts[p - call.start] = Cid[p]

Begins ==
  ~is_sparse => /\ DOMAIN starts = 0 .. NCell
                /\ \A c \in 0 .. NCell : starts[c] = Cardinality(Under(InRange, Cid, c))

Filled(S) ==
  DOMAIN cells = SortedIds /\ \A p \in S : cells[starts[Cid[p]] + PlaceIn(p)] = p

\* cells is a permutation of the range, by cell.
Sorted ==
  /\ DOMAIN cells = SortedIds /\ \A i \in SortedIds : cells[i] \in InRange
  /\ \A p \in InRange : \E i \in SortedIds : cells[i] = p
  /\ \A i, j \in SortedIds : i < j => cells[i] # cells[j] /\ Cid[cells[i]] <= Cid[cells[j]]

Reordered(S) ==
  /\ DOMAIN sorted_to_not_sorted = SortedIds
  /\ DOMAIN non_sorted_to_sorted = 0 .. Len(call.pl) - 1
  /\ \A t \in S : /\ sorted_to_not_sorted[t] = cells[t] /\ pl_out[t] = Particle(cells[t])
                  /\ non_sorted_to_sorted[cells[t]] = t

Marked(S) ==
  /\ DOMAIN sorted_domain_particles_dg = 0 .. N
  /\ \A t \in S : sorted_domain_particles_dg[t] = IF t \in DomainIds THEN 1 ELSE 0

IdsUnder(i) == {t \in DomainIds : t < i}
Collected(S) ==
  /\ DOMAIN sorted_domain_particles_dg = 0 .. N
  /\ \A i \in 0 .. N : sorted_domain_particles_dg[i] = Cardinality(IdsUnder(i))
  /\ DOMAIN sorted_domain_particles_ids = 0 .. Cardinality(DomainIds) - 1
  /\ \A t \in S : t \in DomainIds => sorted_domain_particles_ids[sorted_domain_particles_dg[t]] = t

OutSized == DOMAIN pl_out = 0 .. Len(call.pl) - 1

KernelInv ==
  /\ phase = "subindex" => OutSized /\ IF is_sparse THEN Celled(Seen) /\ DOMAIN part_ids = SortedIds ELSE Counted(Seen)
  /\ phase = "fill" => OutSized /\ ~is_sparse /\ Counted(InRange) /\ Begins /\ Filled(Seen)
  /\ phase \in {"sorted", "neighbours"} => OutSized /\ is_sparse /\ Sorted /\ done = {}
  /\ phase = "reorder" => OutSized /\ Begins /\ Sorted /\ Reordered(done)
  /\ phase \in {"mark", "collect", "built"} => Begins /\ SortedByCell
  /\ phase = "mark" => call.full /\ Marked(done)
  /\ phase = "collect" => call.full /\ Collected(done)
  /\ phase = "built" /\ call.full /\ N > 0 => DomainIdsExact

IInv == Typed /\ KernelInv
-----------------------------------------------------------------------------
(* The range of a call.                                                    *)

LEMMA TwoDims == 1 \in Dims /\ 2 \in Dims /\ \A s \in Dims : s = 1 \/ s = 2
BY DEF Dims

\* A grid has a layer of cells around its box.
LEMMA GridIs ==
  ASSUME NEW g \in Geometries
  PROVE  /\ g.off \in Nat \ {0}
         /\ \A s \in Dims : /\ g.low[s] \in Int /\ g.unit[s] \in Nat \ {0} /\ g.div[s] \in Nat \ {0}
                           /\ Size(g, s) \in Nat /\ Size(g, s) >= 3
         /\ TotNCell(g) \in Nat
<1>1. /\ g.off \in Nat \ {0}
      /\ \A s \in Dims : g.low[s] \in Int /\ g.unit[s] \in Nat \ {0} /\ g.div[s] \in Nat \ {0}
  BY CellListGpuAssumption DEF Padded
<1>2. ASSUME NEW s \in Dims PROVE Size(g, s) \in Nat /\ Size(g, s) >= 3
  BY <1>1 DEF Size
<1>3. PICK w \in Nat, v \in Nat : w = Size(g, 1) /\ v = Size(g, 2)
  BY <1>2, TwoDims
<1>4. w * v \in Nat
  BY SMT
<1>5. QED BY <1>1, <1>2, <1>3, <1>4 DEF TotNCell

LEMMA InGridHas ==
  ASSUME NEW g \in Geometries, NEW pt, InGrid(g, pt)
  PROVE  GetCid(g, pt) \in 0 .. TotNCell(g) - 1
<1>1. PICK w \in Nat, v \in Nat : w = Size(g, 1) /\ v = Size(g, 2)
  BY GridIs, TwoDims
<1>2. PICK i, j : i = GetCidKey(g, pt)[1] /\ j = GetCidKey(g, pt)[2]
  OBVIOUS
<1>3. i \in 0 .. w - 1 /\ j \in 0 .. v - 1
  BY <1>1, <1>2, TwoDims DEF InGrid
<1>4. i + w * j \in 0 .. w * v - 1
  BY <1>3, LinIdInGrid
<1>5. QED BY <1>1, <1>2, <1>4 DEF GetCid, TotNCell, LinId

LEMMA RangeIs ==
  ASSUME Typed
  PROVE  /\ N \in Nat /\ call.start \in Nat /\ call.stop = call.start + N /\ NCell \in Nat
         /\ Len(call.pl) \in Nat /\ call.stop <= Len(call.pl)
         /\ InRange = call.start .. call.start + N - 1
         /\ IsFiniteSet(InRange) /\ Cardinality(InRange) = N
         /\ Cid \in [InRange -> 0 .. NCell - 1]
<1>1. /\ call.start \in Nat /\ call.stop \in Nat /\ call.start <= call.stop
      /\ call.pl \in Seq(Int \X Int) /\ call.stop <= Len(call.pl)
      /\ \A g \in Geometries : \A i \in call.start + 1 .. call.stop : InGrid(g, call.pl[i])
  BY DEF Typed, GoodCall, Call
<1>2. N \in Nat /\ call.stop = call.start + N /\ Len(call.pl) \in Nat
  BY <1>1 DEF N
<1>0. PICK a \in Int, b \in Int : a = call.start /\ b = call.stop - 1
  BY <1>1
<1>3. InRange = a .. b /\ N = b - a + 1 /\ call.start + N - 1 = b
  <2>1. InRange = a .. b
    BY <1>0, Zenon DEF InRange
  <2>2. N = call.stop - call.start
    BY DEF N
  <2>3. QED BY <1>0, <1>1, <2>1, <2>2
<1>4. IsFiniteSet(InRange) /\ Cardinality(InRange) = N
  <2>2. IsFiniteSet(a .. b) /\ Cardinality(a .. b) = IF a > b THEN 0 ELSE b - a + 1
    BY FS_Interval
  <2>4. QED BY <1>2, <1>3, <2>2
<1>8. InRange = call.start .. call.start + N - 1
  BY <1>0, <1>3
<1>5. NCell \in Nat
  BY GridIs DEF Typed, NCell
<1>6. Cid \in [InRange -> 0 .. NCell - 1]
  <2>1. ASSUME NEW p \in InRange PROVE GetCid(geo, Particle(p)) \in 0 .. NCell - 1
    <3>1. p + 1 \in call.start + 1 .. call.stop
      <4>1. p \in a .. b
        BY <1>3
      <4>2. QED BY <1>0, <1>1, <4>1
    <3>2. InGrid(geo, Particle(p))
      BY <1>1, <3>1 DEF Typed, Particle
    <3>3. QED BY <3>2, InGridHas DEF Typed, NCell
  <2>2. QED BY <2>1 DEF Cid
<1>7. QED BY <1>1, <1>2, <1>4, <1>5, <1>6, <1>8

\* What belongs to the call stays with it.
Kept == UNCHANGED <<geo, is_sparse, call>>

LEMMA KeptIs ==
  ASSUME Kept
  PROVE  /\ geo' = geo /\ is_sparse' = is_sparse /\ call' = call
         /\ N' = N /\ InRange' = InRange /\ Cid' = Cid /\ NCell' = NCell /\ SortedIds' = SortedIds
         /\ \A p : Particle(p)' = Particle(p)
<1>1. geo' = geo /\ is_sparse' = is_sparse /\ call' = call
  BY DEF Kept
<1>2. N' = N /\ InRange' = InRange /\ NCell' = NCell /\ \A p : Particle(p)' = Particle(p)
  BY <1>1 DEF N, InRange, NCell, Particle
<1>3. QED BY <1>1, <1>2 DEF Cid, SortedIds

LEMMA TypedKept ==
  ASSUME Typed, Kept, client' = client, phase' \in Phases, done' \subseteq SortedIds
  PROVE  Typed'
<1>1. SortedIds' = SortedIds /\ geo' = geo /\ is_sparse' = is_sparse /\ call' = call
  BY KeptIs
<1>2. (geo \in Geometries /\ client \in Client /\ is_sparse = client.sparse)'
  BY <1>1 DEF Typed
<1>3. (\A k \in DOMAIN client.calls : GoodCall(client.calls[k], is_sparse))'
  BY <1>1 DEF Typed, GoodCall
<1>4. (call \in Call /\ GoodCall(call, is_sparse))'
  BY <1>1 DEF Typed, GoodCall
<1>5. (phase \in Phases /\ done \subseteq SortedIds)'
  BY <1>1
<1>6. QED BY <1>2, <1>3, <1>4, <1>5, Zenon DEF Typed

\* The particle of a thread.
LEMMA ThreadIs ==
  ASSUME Typed, NEW t \in SortedIds
  PROVE  t \in Nat /\ t + call.start \in InRange /\ (t + call.start) - call.start = t
BY RangeIs DEF SortedIds

LEMMA ParticleIs ==
  ASSUME Typed, NEW p \in InRange
  PROVE  p \in Nat /\ p - call.start \in SortedIds /\ (p - call.start) + call.start = p
BY RangeIs DEF SortedIds

\* When all the threads have ended, all the particles are seen.
LEMMA AllSeen ==
  ASSUME Typed, Todo = {}
  PROVE  Seen = InRange /\ done = SortedIds
<1>1. done = SortedIds
  BY DEF Typed, Todo, SortedIds
<1>2. QED BY <1>1, ParticleIs DEF Seen

LEMMA NothingSeen ==
  ASSUME done = {}
  PROVE  Seen = {}
BY DEF Seen

\* A step of a thread.
LEMMA ThreadStep ==
  ASSUME Typed, NEW kernel \in Phases, NEW t \in SortedIds, Thread(kernel, t), Kept, client' = client
  PROVE  /\ Typed' /\ phase = kernel /\ phase' = kernel
         /\ t \notin done /\ done' = done \cup {t}
         /\ t + call.start \in InRange \ Seen
         /\ Seen' = Seen \cup {t + call.start}
         /\ \A p \in Seen : p - call.start # t
<1>1. phase = kernel /\ phase' = kernel /\ t \notin done /\ done' = done \cup {t}
  BY DEF Thread, Todo
<1>2. done' \subseteq SortedIds /\ phase' \in Phases
  BY <1>1 DEF Typed
<1>3. Typed'
  BY <1>2, TypedKept
<1>4. call' = call /\ InRange' = InRange
  BY KeptIs
<1>5. t + call.start \in InRange \ Seen
  BY <1>1, ThreadIs DEF Seen
<1>6. ASSUME NEW p \in InRange PROVE p - call.start = t <=> p = t + call.start
  BY RangeIs, ThreadIs, ParticleIs, <1>6
<1>7. Seen' = Seen \cup {t + call.start}
  BY <1>1, <1>4, <1>5, <1>6 DEF Seen
<1>8. \A p \in Seen : p - call.start # t
  BY <1>1 DEF Seen
<1>9. QED BY <1>1, <1>3, <1>5, <1>7, <1>8

\* The end of a kernel.
LEMMA AfterStep ==
  ASSUME Typed, NEW kernel \in Phases, NEW next \in Phases, After(kernel, next), Kept, client' = client
  PROVE  /\ Typed' /\ phase = kernel /\ phase' = next /\ Seen = InRange /\ done = SortedIds
         /\ Seen' = {} /\ done' = {}
<1>1. phase = kernel /\ phase' = next /\ Todo = {} /\ done' = {}
  BY DEF After
<1>2. Typed'
  BY <1>1, TypedKept
<1>3. QED BY <1>1, <1>2, AllSeen DEF Seen

-----------------------------------------------------------------------------
(* subindex counts, the scan and fill_cells sort.                          *)

LEMMA OneMore ==
  ASSUME NEW S, IsFiniteSet(S), NEW K, NEW p, p \notin S
  PROVE  \A c : Cardinality(On(S \cup {p}, K, c)) =
                  IF K[p] = c THEN Cardinality(On(S, K, c)) + 1 ELSE Cardinality(On(S, K, c))
<1>1. SUFFICES ASSUME NEW c
               PROVE  Cardinality(On(S \cup {p}, K, c)) =
                        IF K[p] = c THEN Cardinality(On(S, K, c)) + 1 ELSE Cardinality(On(S, K, c))
  OBVIOUS
<1>2. On(S, K, c) \in SUBSET S
  BY DEF On
<1>3. IsFiniteSet(On(S, K, c)) /\ p \notin On(S, K, c)
  BY <1>2, FS_Subset
<1>4. On(S \cup {p}, K, c) = IF K[p] = c THEN On(S, K, c) \cup {p} ELSE On(S, K, c)
  BY DEF On
<1>5. QED BY <1>3, <1>4, FS_AddElement

LEMMA SeenFinite ==
  ASSUME Typed
  PROVE  /\ Seen \subseteq InRange /\ IsFiniteSet(Seen)
         /\ \A c : Cardinality(On(Seen, Cid, c)) \in Nat
<1>1. Seen \in SUBSET InRange
  BY DEF Seen
<1>2. IsFiniteSet(Seen)
  BY <1>1, RangeIs, FS_Subset
<1>3. ASSUME NEW c PROVE Cardinality(On(Seen, Cid, c)) \in Nat
  <2>1. On(Seen, Cid, c) \in SUBSET Seen
    BY DEF On
  <2>2. QED BY <1>2, <2>1, FS_Subset, FS_CardinalityType
<1>4. QED BY <1>1, <1>2, <1>3

LEMMA SubIndexKeeps ==
  ASSUME IInv, NEW t \in SortedIds, SubIndex(t)
  PROVE  IInv'
<1>a. PICK p : p = t + call.start
  OBVIOUS
<1>b. PICK cid : cid = GetCid(geo, Particle(p))
  OBVIOUS
<1>1. Typed /\ Kept /\ client' = client /\ Thread("subindex", t) /\ "subindex" \in Phases
  BY DEF IInv, SubIndex, fixed, Kept, Phases
<1>2. /\ Typed' /\ phase = "subindex" /\ phase' = "subindex"
      /\ p \in InRange \ Seen /\ Seen' = Seen \cup {p} /\ \A q \in Seen : q - call.start # t
  BY <1>1, <1>a, ThreadStep
<1>3. /\ geo' = geo /\ is_sparse' = is_sparse /\ call' = call
      /\ N' = N /\ InRange' = InRange /\ Cid' = Cid /\ NCell' = NCell /\ SortedIds' = SortedIds
  BY <1>1, KeptIs
<1>4. p - call.start = t /\ Cid[p] = cid /\ cid \in 0 .. NCell - 1
  <2>1. p - call.start = t
    BY <1>1, <1>a, ThreadIs
  <2>2. Cid[p] = cid
    BY <1>2, <1>b DEF Cid
  <2>3. QED BY <1>1, <1>2, <2>1, <2>2, RangeIs
<1>5. OutSized'
  <2>1. OutSized /\ pl_out' = pl_out
    BY <1>2 DEF IInv, KernelInv, SubIndex, order
  <2>2. QED BY <1>3, <2>1 DEF OutSized
<1>6. CASE is_sparse
  <2>1. /\ Celled(Seen) /\ DOMAIN part_ids = SortedIds
        /\ part_ids' = [part_ids EXCEPT ![t] = <<cid, Unset>>]
        /\ starts' = [starts EXCEPT ![t] = cid]
    BY <1>2, <1>6, <1>a, <1>b DEF IInv, KernelInv, SubIndex
  <2>2. DOMAIN starts' = SortedIds /\ DOMAIN part_ids' = SortedIds
    BY <2>1 DEF Celled
  <2>3. ASSUME NEW q \in Seen' PROVE starts'[q - call.start] = Cid[q]
    <3>1. CASE q = p
      BY <1>4, <2>1, <3>1 DEF Celled
    <3>2. CASE q \in Seen
      <4>1. q - call.start # t /\ starts[q - call.start] = Cid[q]
        BY <1>2, <2>1, <3>2 DEF Celled
      <4>2. QED BY <2>1, <4>1 DEF Celled
    <3>3. QED BY <1>2, <3>1, <3>2
  <2>4. Celled(Seen)'
    BY <1>3, <2>2, <2>3 DEF Celled
  <2>5. QED BY <1>2, <1>3, <1>5, <1>6, <2>2, <2>4 DEF IInv, KernelInv
<1>7. CASE ~is_sparse
  <2>1. /\ Counted(Seen)
        /\ part_ids' = [part_ids EXCEPT ![t] = <<cid, cl_n[cid]>>]
        /\ cl_n' = [cl_n EXCEPT ![cid] = @ + 1]
    BY <1>2, <1>7, <1>a, <1>b DEF IInv, KernelInv, SubIndex
  <2>2. DOMAIN cl_n' = 0 .. NCell /\ DOMAIN part_ids' = SortedIds
    BY <2>1 DEF Counted
  <2>3. \A c : /\ Cardinality(On(Seen, Cid, c)) \in Nat
               /\ Cardinality(On(Seen', Cid, c)) =
                    IF cid = c THEN Cardinality(On(Seen, Cid, c)) + 1 ELSE Cardinality(On(Seen, Cid, c))
    <3>1. IsFiniteSet(Seen) /\ \A c : Cardinality(On(Seen, Cid, c)) \in Nat
      BY <1>1, SeenFinite
    <3>2. \A c : Cardinality(On(Seen \cup {p}, Cid, c)) =
                   IF Cid[p] = c THEN Cardinality(On(Seen, Cid, c)) + 1 ELSE Cardinality(On(Seen, Cid, c))
      BY <1>2, <3>1, OneMore
    <3>3. QED BY <1>2, <1>4, <3>1, <3>2
  <2>4. ASSUME NEW c \in 0 .. NCell PROVE cl_n'[c] = Cardinality(On(Seen', Cid, c))
    <3>1. cl_n[c] = Cardinality(On(Seen, Cid, c)) /\ c \in DOMAIN cl_n
      BY <2>1 DEF Counted
    <3>2. QED BY <2>1, <2>3, <3>1
  <2>5. cl_n[cid] = Cardinality(On(Seen, Cid, cid))
    <3>1. cid \in 0 .. NCell
      BY <1>1, <1>4, RangeIs
    <3>2. QED BY <2>1, <3>1 DEF Counted
  <2>6. part_ids'[t] = <<cid, Cardinality(On(Seen, Cid, cid))>>
    BY <2>1, <2>5 DEF Counted
  <2>7. ASSUME NEW q \in Seen
        PROVE  /\ part_ids'[q - call.start] = part_ids[q - call.start]
               /\ part_ids[q - call.start][1] = Cid[q]
               /\ PlaceIn(q) = part_ids[q - call.start][2]
               /\ PlaceIn(q) \in Nat /\ PlaceIn(q) < Cardinality(On(Seen, Cid, Cid[q]))
    <3>1. q - call.start # t
      BY <1>2
    <3>2. QED BY <2>1, <3>1 DEF Counted, PlaceIn
  <2>8. \A q : PlaceIn(q)' = part_ids'[q - call.start][2]
    BY <1>3 DEF PlaceIn
  <2>9. ASSUME NEW q \in Seen'
        PROVE  /\ part_ids'[q - call.start][1] = Cid[q]
               /\ PlaceIn(q)' \in Nat /\ PlaceIn(q)' < Cardinality(On(Seen', Cid, Cid[q]))
    <3>1. CASE q = p
      BY <1>4, <2>3, <2>6, <2>8, <3>1
    <3>2. CASE q \in Seen
      BY <2>3, <2>7, <2>8, <3>2
    <3>3. QED BY <1>2, <3>1, <3>2
  <2>10. ASSUME NEW q \in Seen', NEW r \in Seen', q # r, Cid[q] = Cid[r]
         PROVE  PlaceIn(q)' # PlaceIn(r)'
    <3>1. PlaceIn(p)' = Cardinality(On(Seen, Cid, cid))
      BY <1>4, <2>6, <2>8
    <3>2. \A s \in Seen : PlaceIn(s)' = PlaceIn(s)
      BY <2>7, <2>8
    <3>3. \A s \in Seen : Cid[s] = cid => PlaceIn(s)' # PlaceIn(p)'
      BY <2>3, <2>7, <3>1, <3>2
    <3>4. CASE q \in Seen /\ r \in Seen
      <4>1. PlaceIn(q) # PlaceIn(r)
        BY <2>1, <2>10, <3>4 DEF Counted
      <4>2. QED BY <3>2, <3>4, <4>1
    <3>5. CASE q = p /\ r \in Seen
      BY <1>4, <2>10, <3>3, <3>5
    <3>6. CASE q \in Seen /\ r = p
      BY <1>4, <2>10, <3>3, <3>6
    <3>7. QED BY <1>2, <2>10, <3>4, <3>5, <3>6
  <2>11. Counted(Seen)'
    BY <1>3, <2>2, <2>4, <2>9, <2>10 DEF Counted
  <2>12. QED BY <1>2, <1>3, <1>5, <1>7, <2>11 DEF IInv, KernelInv
<1>8. QED BY <1>6, <1>7

LEMMA ResizeIs ==
  ASSUME NEW v, NEW n
  PROVE  DOMAIN Resize(v, n) = 0 .. n - 1
BY DEF Resize

LEMMA ScanCellsKeeps ==
  ASSUME IInv, ScanCells
  PROVE  IInv'
<1>1. /\ Typed /\ Kept /\ client' = client /\ After("subindex", "fill")
      /\ "subindex" \in Phases /\ "fill" \in Phases /\ ~is_sparse
  BY DEF IInv, ScanCells, fixed, Kept, Phases
<1>2. Typed' /\ phase = "subindex" /\ phase' = "fill" /\ Seen = InRange /\ Seen' = {}
  BY <1>1, AfterStep
<1>3. /\ geo' = geo /\ is_sparse' = is_sparse /\ call' = call
      /\ N' = N /\ InRange' = InRange /\ Cid' = Cid /\ NCell' = NCell /\ SortedIds' = SortedIds
  BY <1>1, KeptIs
<1>4. /\ Counted(InRange) /\ OutSized /\ starts' = Scan(cl_n) /\ cells' = Resize(cells, N)
      /\ cl_n' = cl_n /\ part_ids' = part_ids /\ pl_out' = pl_out
  BY <1>1, <1>2 DEF IInv, KernelInv, ScanCells, dense, order
<1>5. Counted(InRange)' /\ OutSized'
  BY <1>3, <1>4 DEF Counted, OutSized, PlaceIn
<1>6. Begins'
  <2>1. PICK m \in Nat : m = NCell
    BY <1>1, RangeIs
  <2>2. PICK S, K : S = InRange /\ K = Cid
    OBVIOUS
  <2>3. IsFiniteSet(S) /\ K \in [S -> 0 .. m - 1]
    BY <1>1, <2>1, <2>2, RangeIs
  <2>4. PICK B : B = [c \in 0 .. m |-> Cardinality(Under(S, K, c))]
    OBVIOUS
  <2>5. PICK f : f = cl_n
    OBVIOUS
  <2>6. DOMAIN f = 0 .. m /\ \A c \in 0 .. m : f[c] = Cardinality(On(S, K, c))
    BY <1>4, <2>1, <2>2, <2>5 DEF Counted
  <2>7. B[0] = 0
    BY <2>3, <2>4, CellsCount
  <2>8. ASSUME NEW c \in 0 .. m - 1 PROVE B[c + 1] = B[c] + f[c]
    <3>1. c \in Nat /\ c \in 0 .. m /\ c + 1 \in 0 .. m
      OBVIOUS
    <3>2. Cardinality(Under(S, K, c + 1)) = Cardinality(Under(S, K, c)) + Cardinality(On(S, K, c))
      BY <2>3, <3>1, CellsCount
    <3>3. QED BY <2>4, <2>6, <3>1, <3>2
  <2>9. DOMAIN Scan(f) = 0 .. m /\ \A c \in 0 .. m : Scan(f)[c] = B[c]
    BY <2>6, <2>7, <2>8, ScanIs
  <2>10. DOMAIN starts' = 0 .. m /\ \A c \in 0 .. m : starts'[c] = Cardinality(Under(S, K, c))
    BY <1>4, <2>4, <2>5, <2>9
  <2>11. QED BY <1>3, <2>1, <2>2, <2>10 DEF Begins
<1>7. Filled(Seen)'
  <2>1. DOMAIN cells' = SortedIds
    BY <1>4, ResizeIs DEF SortedIds
  <2>2. QED BY <1>2, <1>3, <2>1 DEF Filled
<1>8. QED BY <1>1, <1>2, <1>3, <1>5, <1>6, <1>7 DEF IInv, KernelInv

\* Where fill_cells puts a particle.
PlaceAt(p) == starts[Cid[p]] + PlaceIn(p)

LEMMA Placed ==
  ASSUME Typed, ~is_sparse, Counted(InRange), Begins
  PROVE  /\ \A p \in InRange : PlaceAt(p) \in SortedIds
         /\ \A p, q \in InRange : p # q => PlaceAt(p) # PlaceAt(q)
         /\ \A p, q \in InRange : PlaceAt(p) < PlaceAt(q) => Cid[p] <= Cid[q]
         /\ \A i \in SortedIds : \E p \in InRange : PlaceAt(p) = i
<1>1. PICK n \in Nat, m \in Nat : n = N /\ m = NCell
  BY RangeIs
<1>2. PICK S, K : S = InRange /\ K = Cid
  OBVIOUS
<1>3. PICK P : P = [p \in S |-> PlaceIn(p)]
  OBVIOUS
<1>4. IsFiniteSet(S) /\ Cardinality(S) = n /\ K \in [S -> 0 .. m - 1]
  BY <1>1, <1>2, RangeIs
<1>5. Places(S, K, P)
  BY <1>2, <1>3 DEF Counted, Places
<1>6. /\ \A p \in S : At(S, K, P, p) \in 0 .. n - 1
      /\ \A p, q \in S : p # q => At(S, K, P, p) # At(S, K, P, q)
      /\ \A p, q \in S : At(S, K, P, p) < At(S, K, P, q) => K[p] <= K[q]
      /\ \A i \in 0 .. n - 1 : \E p \in S : At(S, K, P, p) = i
  BY <1>4, <1>5, PlacesFit
<1>7. ASSUME NEW p \in S PROVE PlaceAt(p) = At(S, K, P, p)
  <2>1. K[p] \in 0 .. m
    BY <1>4
  <2>2. starts[K[p]] = Cardinality(Under(S, K, K[p]))
    BY <1>1, <1>2, <2>1 DEF Begins
  <2>3. QED BY <1>2, <1>3, <2>2 DEF PlaceAt, At
<1>8. SortedIds = 0 .. n - 1
  BY <1>1 DEF SortedIds
<1>9. QED BY <1>2, <1>6, <1>7, <1>8

LEMMA FillCellsKeeps ==
  ASSUME IInv, NEW t \in SortedIds, FillCells(t)
  PROVE  IInv'
<1>a. PICK p : p = t + call.start
  OBVIOUS
<1>1. Typed /\ Kept /\ client' = client /\ Thread("fill", t) /\ "fill" \in Phases
  BY DEF IInv, FillCells, fixed, Kept, Phases
<1>2. /\ Typed' /\ phase = "fill" /\ phase' = "fill"
      /\ p \in InRange \ Seen /\ Seen' = Seen \cup {p} /\ p - call.start = t
  BY <1>1, <1>a, ThreadStep, ThreadIs
<1>3. /\ geo' = geo /\ is_sparse' = is_sparse /\ call' = call
      /\ N' = N /\ InRange' = InRange /\ Cid' = Cid /\ NCell' = NCell /\ SortedIds' = SortedIds
  BY <1>1, KeptIs
<1>4. /\ OutSized /\ ~is_sparse /\ Counted(InRange) /\ Begins /\ Filled(Seen)
      /\ cl_n' = cl_n /\ part_ids' = part_ids /\ pl_out' = pl_out /\ starts' = starts
      /\ cells' = [cells EXCEPT ![starts[part_ids[t][1]] + part_ids[t][2]] = t + call.start]
  BY <1>2 DEF IInv, KernelInv, FillCells, dense, order
<1>5. OutSized' /\ Counted(InRange)' /\ Begins'
  BY <1>3, <1>4 DEF Counted, OutSized, PlaceIn, Begins
<1>6. cells' = [cells EXCEPT ![PlaceAt(p)] = p]
  BY <1>2, <1>4, <1>a DEF PlaceAt, Counted, PlaceIn
<1>7. \A q \in InRange : PlaceAt(q) \in SortedIds /\ (q # p => PlaceAt(q) # PlaceAt(p))
  BY <1>1, <1>2, <1>4, Placed
<1>8. \A q : PlaceAt(q) = starts[Cid[q]] + PlaceIn(q) /\ PlaceIn(q)' = PlaceIn(q)
  BY <1>3, <1>4 DEF PlaceAt, PlaceIn
<1>9. DOMAIN cells' = SortedIds /\ DOMAIN cells = SortedIds
  BY <1>4, <1>6 DEF Filled
<1>10. ASSUME NEW q \in Seen' PROVE cells'[PlaceAt(q)] = q
  <2>1. CASE q = p
    BY <1>2, <1>6, <1>7, <1>9, <2>1
  <2>2. CASE q \in Seen
    <3>1. q \in InRange /\ q # p
      BY <1>2, <2>2 DEF Seen
    <3>2. cells[PlaceAt(q)] = q
      BY <1>4, <1>8, <2>2 DEF Filled
    <3>3. QED BY <1>6, <1>7, <3>1, <3>2, <1>9
  <2>3. QED BY <1>2, <2>1, <2>2
<1>11. Filled(Seen)'
  BY <1>3, <1>4, <1>8, <1>9, <1>10 DEF Filled
<1>12. QED BY <1>2, <1>3, <1>4, <1>5, <1>11 DEF IInv, KernelInv

\* What fill_cells has filled is sorted.
LEMMA FilledSorts ==
  ASSUME Typed, ~is_sparse, Counted(InRange), Begins, Filled(InRange)
  PROVE  Sorted
<1>1. /\ \A p \in InRange : PlaceAt(p) \in SortedIds
      /\ \A p, q \in InRange : PlaceAt(p) < PlaceAt(q) => Cid[p] <= Cid[q]
      /\ \A i \in SortedIds : \E p \in InRange : PlaceAt(p) = i
  BY Placed
<1>2. DOMAIN cells = SortedIds /\ \A p \in InRange : cells[PlaceAt(p)] = p
  BY DEF Filled, PlaceAt
<1>3. \A i \in SortedIds : cells[i] \in InRange /\ PlaceAt(cells[i]) = i
  BY <1>1, <1>2
<1>4. ASSUME NEW i \in SortedIds, NEW j \in SortedIds, i < j
      PROVE  cells[i] # cells[j] /\ Cid[cells[i]] <= Cid[cells[j]]
  <2>1. PlaceAt(cells[i]) = i /\ PlaceAt(cells[j]) = j /\ i # j
    BY <1>3, <1>4 DEF SortedIds
  <2>2. QED BY <1>1, <1>3, <1>4, <2>1
<1>5. QED BY <1>1, <1>2, <1>3, <1>4 DEF Sorted

-----------------------------------------------------------------------------
(* A sparse list is sorted by flush_vd.                                    *)

\* An injection of 0 .. n-1 into itself reaches every number.
LEMMA Reaches ==
  ASSUME NEW n \in Nat, NEW f \in [0 .. n - 1 -> 0 .. n - 1],
         \A i, j \in 0 .. n - 1 : i < j => f[i] # f[j]
  PROVE  \A k \in 0 .. n - 1 : \E i \in 0 .. n - 1 : f[i] = k
<1>1. ASSUME NEW i \in 0 .. n - 1, NEW j \in 0 .. n - 1, f[i] = f[j] PROVE i = j
  BY <1>1
<1>2. PICK S : S = 0 .. n - 1
  OBVIOUS
<1>3. f \in Injection(S, S)
  BY <1>1, <1>2 DEF Injection, IsInjective
<1>4. IsFiniteSet(S)
  BY <1>2, FS_Interval
<1>5. f \in Surjection(S, S)
  BY <1>3, <1>4, FS_Injection
<1>6. QED BY <1>2, <1>5 DEF Surjection

LEMMA SortSparseKeeps ==
  ASSUME IInv, SortSparse
  PROVE  IInv'
<1>1. /\ Typed /\ Kept /\ client' = client /\ After("subindex", "sorted")
      /\ "subindex" \in Phases /\ "sorted" \in Phases /\ is_sparse
  BY DEF IInv, SortSparse, fixed, Kept, Phases
<1>2. Typed' /\ phase = "subindex" /\ phase' = "sorted" /\ Seen = InRange /\ done' = {}
  BY <1>1, AfterStep
<1>3. /\ geo' = geo /\ is_sparse' = is_sparse /\ call' = call
      /\ N' = N /\ InRange' = InRange /\ Cid' = Cid /\ NCell' = NCell /\ SortedIds' = SortedIds
  BY <1>1, KeptIs
<1>4. OutSized /\ Celled(InRange) /\ cells' \in SortedBy(starts) /\ pl_out' = pl_out
  BY <1>1, <1>2 DEF IInv, KernelInv, SortSparse, order
<1>5. call.start = 0 /\ InRange = SortedIds
  <2>1. call.start = 0
    BY <1>1 DEF Typed, GoodCall
  <2>2. InRange = 0 .. 0 + N - 1 /\ N \in Nat
    BY <1>1, <2>1, RangeIs
  <2>3. QED BY <2>1, <2>2 DEF SortedIds
<1>6. PICK n \in Nat, m \in Nat : n = N /\ m = NCell
  BY <1>1, RangeIs
<1>7. SortedIds = 0 .. n - 1 /\ Cid \in [0 .. n - 1 -> 0 .. m - 1]
  BY <1>1, <1>5, <1>6, RangeIs DEF SortedIds
<1>8. DOMAIN starts = 0 .. n - 1 /\ \A i \in 0 .. n - 1 : starts[i] = Cid[i]
  BY <1>4, <1>5, <1>7 DEF Celled
<1>9. PICK f : f = cells'
  OBVIOUS
<1>10. /\ f \in [0 .. n - 1 -> 0 .. n - 1]
       /\ \A i, j \in 0 .. n - 1 : i < j => f[i] # f[j] /\ Cid[f[i]] <= Cid[f[j]]
  BY <1>4, <1>8, <1>9 DEF SortedBy
<1>11. \A k \in 0 .. n - 1 : \E i \in 0 .. n - 1 : f[i] = k
  <2>1. f \in [0 .. n - 1 -> 0 .. n - 1] /\ \A i, j \in 0 .. n - 1 : i < j => f[i] # f[j]
    BY <1>10
  <2>2. QED BY <2>1, Reaches
<1>12. Sorted'
  <2>1. DOMAIN f = SortedIds /\ \A i \in SortedIds : f[i] \in InRange
    BY <1>5, <1>7, <1>10
  <2>2. \A p \in InRange : \E i \in SortedIds : f[i] = p
    BY <1>5, <1>7, <1>11
  <2>3. \A i, j \in SortedIds : i < j => f[i] # f[j] /\ Cid[f[i]] <= Cid[f[j]]
    BY <1>7, <1>10
  <2>4. QED BY <1>3, <1>9, <2>1, <2>2, <2>3 DEF Sorted
<1>13. OutSized'
  BY <1>3, <1>4 DEF OutSized
<1>14. QED BY <1>1, <1>2, <1>3, <1>12, <1>13 DEF IInv, KernelInv

LEMMA CountFillCellsKeeps ==
  ASSUME IInv, CountFillCells
  PROVE  IInv'
<1>1. /\ Typed /\ Kept /\ client' = client /\ done' = done
      /\ phase = "sorted" /\ phase' = "neighbours" /\ cells' = cells /\ pl_out' = pl_out
  BY DEF IInv, CountFillCells, fixed, Kept, order
<1>2. phase' \in Phases /\ done' \subseteq SortedIds
  BY <1>1 DEF Typed, Phases
<1>3. Typed'
  BY <1>1, <1>2, TypedKept
<1>4. /\ geo' = geo /\ is_sparse' = is_sparse /\ call' = call
      /\ N' = N /\ InRange' = InRange /\ Cid' = Cid /\ NCell' = NCell /\ SortedIds' = SortedIds
  BY <1>1, KeptIs
<1>5. OutSized /\ is_sparse /\ Sorted /\ done = {}
  BY <1>1 DEF IInv, KernelInv
<1>6. Sorted' /\ OutSized'
  BY <1>1, <1>4, <1>5 DEF Sorted, OutSized
<1>7. QED BY <1>1, <1>3, <1>4, <1>5, <1>6 DEF IInv, KernelInv

-----------------------------------------------------------------------------
(* reorder_parts.                                                          *)

LEMMA StartReorderKeeps ==
  ASSUME IInv, StartReorder
  PROVE  IInv'
<1>1. /\ Typed /\ Kept /\ client' = client /\ pl_out' = pl_out /\ cells' = cells /\ starts' = starts
      /\ sorted_to_not_sorted' = Resize(sorted_to_not_sorted, N)
      /\ non_sorted_to_sorted' = Resize(non_sorted_to_sorted, Len(call.pl))
  BY DEF IInv, StartReorder, fixed, Kept
<1>2. /\ geo' = geo /\ is_sparse' = is_sparse /\ call' = call
      /\ N' = N /\ InRange' = InRange /\ Cid' = Cid /\ NCell' = NCell /\ SortedIds' = SortedIds
  BY <1>1, KeptIs
<1>3. /\ Typed' /\ phase' = "reorder" /\ done' = {} /\ OutSized /\ Begins /\ Sorted
  <2>1. "fill" \in Phases /\ "reorder" \in Phases
    BY DEF Phases
  <2>2. CASE After("fill", "reorder")
    <3>1. Typed' /\ phase = "fill" /\ phase' = "reorder" /\ Seen = InRange /\ done' = {}
      BY <1>1, <2>1, <2>2, AfterStep
    <3>2. OutSized /\ ~is_sparse /\ Counted(InRange) /\ Begins /\ Filled(InRange)
      BY <3>1 DEF IInv, KernelInv
    <3>3. Sorted
      BY <1>1, <3>2, FilledSorts
    <3>4. QED BY <3>1, <3>2, <3>3
  <2>3. CASE phase = "neighbours" /\ phase' = "reorder" /\ UNCHANGED done
    <3>1. OutSized /\ is_sparse /\ Sorted /\ done = {}
      BY <2>3 DEF IInv, KernelInv
    <3>2. done' = {} /\ done' \subseteq SortedIds /\ phase' \in Phases
      BY <2>1, <2>3, <3>1
    <3>3. Typed'
      BY <1>1, <3>2, TypedKept
    <3>4. QED BY <2>3, <3>1, <3>2, <3>3 DEF Begins
  <2>4. QED BY <2>2, <2>3 DEF StartReorder
<1>4. OutSized' /\ Begins' /\ Sorted'
  BY <1>1, <1>2, <1>3 DEF OutSized, Begins, Sorted
<1>5. Reordered(done)'
  <2>1. DOMAIN sorted_to_not_sorted' = SortedIds
    BY <1>1, ResizeIs DEF SortedIds
  <2>2. DOMAIN non_sorted_to_sorted' = 0 .. Len(call.pl) - 1
    BY <1>1, ResizeIs
  <2>3. QED BY <1>2, <1>3, <2>1, <2>2 DEF Reordered
<1>6. QED BY <1>3, <1>4, <1>5 DEF IInv, KernelInv

LEMMA ReorderPartsKeeps ==
  ASSUME IInv, NEW t \in SortedIds, ReorderParts(t)
  PROVE  IInv'
<1>1. Typed /\ Kept /\ client' = client /\ Thread("reorder", t) /\ "reorder" \in Phases
  BY DEF IInv, ReorderParts, fixed, Kept, Phases
<1>2. Typed' /\ phase = "reorder" /\ phase' = "reorder" /\ t \notin done /\ done' = done \cup {t}
  BY <1>1, ThreadStep
<1>3. /\ geo' = geo /\ is_sparse' = is_sparse /\ call' = call
      /\ N' = N /\ InRange' = InRange /\ Cid' = Cid /\ NCell' = NCell /\ SortedIds' = SortedIds
      /\ \A p : Particle(p)' = Particle(p)
  BY <1>1, KeptIs
<1>4. /\ OutSized /\ Begins /\ Sorted /\ Reordered(done) /\ starts' = starts /\ cells' = cells
      /\ pl_out' = [pl_out EXCEPT ![t] = Particle(cells[t])]
      /\ sorted_to_not_sorted' = [sorted_to_not_sorted EXCEPT ![t] = cells[t]]
      /\ non_sorted_to_sorted' = [non_sorted_to_sorted EXCEPT ![cells[t]] = t]
  BY <1>2 DEF IInv, KernelInv, ReorderParts
<1>5. OutSized' /\ Begins' /\ Sorted'
  BY <1>3, <1>4 DEF OutSized, Begins, Sorted
<1>6. done \subseteq SortedIds /\ SortedIds \subseteq Nat
  BY <1>1, RangeIs DEF Typed, SortedIds
<1>7. \A i \in SortedIds : cells[i] \in DOMAIN non_sorted_to_sorted /\ i \in DOMAIN pl_out
  <2>1. ASSUME NEW i \in SortedIds PROVE cells[i] \in 0 .. Len(call.pl) - 1 /\ i \in 0 .. Len(call.pl) - 1
    <3>1. cells[i] \in InRange
      BY <1>4 DEF Sorted
    <3>2. PICK n \in Nat, a \in Nat : n = N /\ a = call.start
      BY <1>1, RangeIs
    <3>3. PICK l \in Nat : l = Len(call.pl)
      BY <1>1, RangeIs
    <3>4. a + n <= l
      BY <1>1, <3>2, <3>3, RangeIs
    <3>5. cells[i] \in a .. a + n - 1
      BY <1>1, <3>1, <3>2, RangeIs
    <3>6. i \in 0 .. n - 1
      BY <3>2 DEF SortedIds
    <3>7. cells[i] \in 0 .. l - 1 /\ i \in 0 .. l - 1
      BY <3>4, <3>5, <3>6
    <3>8. QED BY <3>3, <3>7
  <2>2. QED BY <1>4, <2>1 DEF Reordered, OutSized
<1>8. \A i \in done : cells[i] # cells[t]
  <2>1. ASSUME NEW i \in done PROVE cells[i] # cells[t]
    <3>1. i < t \/ t < i
      BY <1>2, <1>6
    <3>2. QED BY <1>4, <1>6, <3>1 DEF Sorted
  <2>2. QED BY <2>1
<1>9. ASSUME NEW i \in done'
      PROVE  /\ sorted_to_not_sorted'[i] = cells[i] /\ pl_out'[i] = Particle(cells[i])
             /\ non_sorted_to_sorted'[cells[i]] = i
  <2>1. CASE i = t
    BY <1>4, <1>7, <2>1 DEF Reordered
  <2>2. CASE i \in done
    BY <1>2, <1>4, <1>6, <1>7, <1>8, <2>2 DEF Reordered
  <2>3. QED BY <1>2, <2>1, <2>2
<1>10. Reordered(done)'
  <2>1. /\ DOMAIN sorted_to_not_sorted' = SortedIds
        /\ DOMAIN non_sorted_to_sorted' = 0 .. Len(call.pl) - 1
    BY <1>4 DEF Reordered
  <2>2. QED BY <1>3, <1>4, <1>9, <2>1 DEF Reordered
<1>11. QED BY <1>2, <1>5, <1>10 DEF IInv, KernelInv

-----------------------------------------------------------------------------
(* The domain ids.                                                         *)

Below(D, i) == {t \in D : t < i}

UpTo(D, n) == D \subseteq 0 .. n - 1

\* The numbers of D, by how many are below.
LEMMA Ascending ==
  ASSUME NEW n \in Nat, NEW D, UpTo(D, n)
  PROVE  /\ IsFiniteSet(D) /\ Cardinality(D) \in Nat
         /\ Cardinality(Below(D, 0)) = 0 /\ Below(D, n) = D
         /\ \A i \in 0 .. n - 1 :
              Cardinality(Below(D, i + 1)) = Cardinality(Below(D, i)) + IF i \in D THEN 1 ELSE 0
         /\ \A i : Cardinality(Below(D, i)) \in Nat
         /\ \A t \in D : Cardinality(Below(D, t)) \in 0 .. Cardinality(D) - 1
         /\ \A t, u \in D : Cardinality(Below(D, t)) < Cardinality(Below(D, u)) => t < u
         /\ \A t, u \in D : t # u => Cardinality(Below(D, t)) # Cardinality(Below(D, u))
         /\ \A k \in 0 .. Cardinality(D) - 1 : \E t \in D : Cardinality(Below(D, t)) = k
<1>0. D \subseteq 0 .. n - 1
  BY DEF UpTo
<1>1. IsFiniteSet(D)
  <2>1. IsFiniteSet(0 .. n - 1)
    BY FS_Interval
  <2>2. QED BY <1>0, <2>1, FS_Subset
<1>2. PICK m \in Nat : m = Cardinality(D)
  BY <1>1, FS_CardinalityType
<1>3. PICK K, P : K = [t \in D |-> t] /\ P = [t \in D |-> 0]
  OBVIOUS
<1>4. K \in [D -> 0 .. n - 1]
  BY <1>0, <1>3
<1>5. \A c : Under(D, K, c) = Below(D, c)
  BY <1>3 DEF Under, Below
<1>6. \A c : Cardinality(On(D, K, c)) = IF c \in D THEN 1 ELSE 0
  <2>1. ASSUME NEW c PROVE On(D, K, c) = IF c \in D THEN {c} ELSE {}
    BY <1>3 DEF On
  <2>2. QED BY <2>1, FS_Singleton, FS_EmptySet
<1>7. Places(D, K, P)
  BY <1>3, <1>6 DEF Places
<1>8. \A c : Cardinality(Below(D, c)) \in Nat
  <2>1. \A c : Cardinality(Under(D, K, c)) \in Nat
    BY <1>1, <1>4, CellsCount
  <2>2. QED BY <1>5, <2>1
<1>9. Cardinality(Below(D, 0)) = 0
  BY <1>1, <1>4, <1>5, CellsCount
<1>10. ASSUME NEW i \in 0 .. n - 1
       PROVE  Cardinality(Below(D, i + 1)) = Cardinality(Below(D, i)) + IF i \in D THEN 1 ELSE 0
  <2>1. i \in Nat
    OBVIOUS
  <2>2. Cardinality(Under(D, K, i + 1)) = Cardinality(Under(D, K, i)) + Cardinality(On(D, K, i))
    BY <1>1, <1>4, <2>1, CellsCount
  <2>3. QED BY <1>5, <1>6, <2>2
<1>11. \A t \in D : At(D, K, P, t) = Cardinality(Below(D, t))
  BY <1>3, <1>5, <1>8 DEF At
<1>12. /\ \A t \in D : At(D, K, P, t) \in 0 .. m - 1
       /\ \A t, u \in D : t # u => At(D, K, P, t) # At(D, K, P, u)
       /\ \A t, u \in D : At(D, K, P, t) < At(D, K, P, u) => K[t] <= K[u]
       /\ \A k \in 0 .. m - 1 : \E t \in D : At(D, K, P, t) = k
  <2>1. Cardinality(D) = m
    BY <1>2
  <2>2. PICK T \in Nat : T = n
    OBVIOUS
  <2>3. K \in [D -> 0 .. T - 1]
    BY <1>4, <2>2
  <2>4. QED BY <1>1, <1>7, <2>1, <2>3, PlacesFit
<1>13. ASSUME NEW t \in D, NEW u \in D, Cardinality(Below(D, t)) < Cardinality(Below(D, u))
       PROVE  t < u
  <2>1. t <= u
    BY <1>3, <1>11, <1>12, <1>13
  <2>2. t # u
    BY <1>8, <1>13
  <2>3. QED BY <1>0, <2>1, <2>2
<1>14. Below(D, n) = D
  <2>1. \A t \in D : t < n
    BY <1>0
  <2>2. QED BY <2>1 DEF Below
<1>15. QED BY <1>1, <1>2, <1>8, <1>9, <1>10, <1>11, <1>12, <1>13, <1>14

LEMMA IdsAre ==
  ASSUME Typed
  PROVE  /\ N \in Nat /\ SortedIds = 0 .. N - 1 /\ UpTo(DomainIds, N)
         /\ \A i : IdsUnder(i) = Below(DomainIds, i)
BY RangeIs DEF SortedIds, DomainIds, IdsUnder, Below, UpTo

\* The maps and the sorted vector do not change any more.
LEMMA OrderKept ==
  ASSUME Kept, SortedByCell, Begins, starts' = starts, UNCHANGED order
  PROVE  SortedByCell' /\ Begins' /\ DomainIds' = DomainIds /\ \A i : IdsUnder(i)' = IdsUnder(i)
<1>1. /\ geo' = geo /\ is_sparse' = is_sparse /\ call' = call
      /\ N' = N /\ InRange' = InRange /\ Cid' = Cid /\ NCell' = NCell /\ SortedIds' = SortedIds
      /\ \A p : Particle(p)' = Particle(p)
  BY KeptIs
<1>2. /\ sorted_to_not_sorted' = sorted_to_not_sorted
      /\ non_sorted_to_sorted' = non_sorted_to_sorted /\ pl_out' = pl_out
  BY DEF order
<1>3. DomainIds' = DomainIds
  BY <1>1, <1>2 DEF DomainIds
<1>4. Begins'
  BY <1>1 DEF Begins
<1>5. SortedByCell'
  BY <1>1, <1>2 DEF SortedByCell
<1>6. QED BY <1>3, <1>4, <1>5 DEF IdsUnder

\* reorder_parts leaves the particles sorted by cell.
LEMMA ReorderedSorts ==
  ASSUME Typed, Sorted, Reordered(SortedIds)
  PROVE  SortedByCell
<1>1. /\ \A i \in SortedIds : /\ cells[i] \in InRange
                              /\ sorted_to_not_sorted[i] = cells[i] /\ pl_out[i] = Particle(cells[i])
                              /\ non_sorted_to_sorted[cells[i]] = i
      /\ \A p \in InRange : \E i \in SortedIds : cells[i] = p
      /\ \A i, j \in SortedIds : i < j => Cid[cells[i]] <= Cid[cells[j]]
  BY DEF Sorted, Reordered
<1>2. \A i \in SortedIds : GetCid(geo, pl_out[i]) = Cid[cells[i]]
  BY <1>1 DEF Cid
<1>3. {sorted_to_not_sorted[i] : i \in SortedIds} = InRange
  BY <1>1
<1>4. QED BY <1>1, <1>2, <1>3 DEF SortedByCell

LEMMA StartDomainIdsKeeps ==
  ASSUME IInv, StartDomainIds
  PROVE  IInv'
<1>1. PICK next \in {"mark", "built"} : next = (IF call.full THEN "mark" ELSE "built")
  OBVIOUS
<1>2. /\ Typed /\ Kept /\ client' = client /\ After("reorder", next) /\ "reorder" \in Phases
      /\ next \in Phases /\ UNCHANGED order /\ starts' = starts
      /\ call.full => sorted_domain_particles_dg' = Resize(sorted_domain_particles_dg, N + 1)
  BY <1>1 DEF IInv, StartDomainIds, fixed, Kept, Phases
<1>3. Typed' /\ phase = "reorder" /\ phase' = next /\ done = SortedIds /\ done' = {}
  BY <1>2, AfterStep
<1>4. Begins /\ Sorted /\ Reordered(SortedIds)
  BY <1>3 DEF IInv, KernelInv
<1>5. SortedByCell
  BY <1>2, <1>4, ReorderedSorts
<1>6. SortedByCell' /\ Begins'
  BY <1>2, <1>4, <1>5, OrderKept
<1>7. call' = call /\ call.full \in BOOLEAN /\ N' = N /\ N \in Nat
  BY <1>2, KeptIs, RangeIs DEF Typed, Call
<1>8. CASE call.full
  <2>1. DOMAIN sorted_domain_particles_dg' = 0 .. N
    <3>1. PICK k \in Nat : k = N + 1 /\ k - 1 = N
      BY <1>7
    <3>2. sorted_domain_particles_dg' = Resize(sorted_domain_particles_dg, k)
      BY <1>2, <1>8, <3>1
    <3>3. QED BY <3>1, <3>2, ResizeIs
  <2>2. Marked(done)'
    BY <1>3, <1>7, <2>1 DEF Marked
  <2>3. QED BY <1>1, <1>3, <1>6, <1>7, <1>8, <2>2 DEF IInv, KernelInv
<1>9. CASE ~call.full
  BY <1>1, <1>3, <1>6, <1>7, <1>9 DEF IInv, KernelInv
<1>10. QED BY <1>8, <1>9

LEMMA MarkKeeps ==
  ASSUME IInv, NEW t \in SortedIds, MarkDomainParticles(t)
  PROVE  IInv'
<1>1. /\ Typed /\ Kept /\ client' = client /\ Thread("mark", t) /\ "mark" \in Phases
      /\ UNCHANGED order /\ starts' = starts
  BY DEF IInv, MarkDomainParticles, fixed, Kept, Phases
<1>2. Typed' /\ phase = "mark" /\ phase' = "mark" /\ t \notin done /\ done' = done \cup {t}
  BY <1>1, ThreadStep
<1>3. /\ Begins /\ SortedByCell /\ call.full /\ Marked(done)
      /\ sorted_domain_particles_dg' =
           [sorted_domain_particles_dg EXCEPT ![t] = IF sorted_to_not_sorted[t] < call.g_m THEN 1 ELSE 0]
  BY <1>2 DEF IInv, KernelInv, MarkDomainParticles
<1>4. SortedByCell' /\ Begins' /\ DomainIds' = DomainIds
  BY <1>1, <1>3, OrderKept
<1>5. call' = call /\ N' = N /\ N \in Nat /\ SortedIds \subseteq 0 .. N
  BY <1>1, KeptIs, RangeIs DEF SortedIds
<1>6. done \subseteq SortedIds
  BY <1>1 DEF Typed
<1>7. sorted_domain_particles_dg'[t] = IF t \in DomainIds THEN 1 ELSE 0
  BY <1>3, <1>5 DEF Marked, DomainIds
<1>8. \A i \in done : sorted_domain_particles_dg'[i] = sorted_domain_particles_dg[i]
  BY <1>2, <1>3, <1>5, <1>6 DEF Marked
<1>9. Marked(done)'
  <2>1. DOMAIN sorted_domain_particles_dg' = 0 .. N
    BY <1>3 DEF Marked
  <2>2. ASSUME NEW i \in done' PROVE sorted_domain_particles_dg'[i] = IF i \in DomainIds THEN 1 ELSE 0
    BY <1>2, <1>3, <1>7, <1>8 DEF Marked
  <2>3. QED BY <1>4, <1>5, <2>1, <2>2 DEF Marked
<1>10. QED BY <1>2, <1>3, <1>4, <1>5, <1>9 DEF IInv, KernelInv

LEMMA ScanDomainKeeps ==
  ASSUME IInv, ScanDomain
  PROVE  IInv'
<1>1. /\ Typed /\ Kept /\ client' = client /\ After("mark", "collect")
      /\ "mark" \in Phases /\ "collect" \in Phases /\ UNCHANGED order /\ starts' = starts
      /\ sorted_domain_particles_dg' = Scan(sorted_domain_particles_dg)
      /\ sorted_domain_particles_ids' = Resize(sorted_domain_particles_ids, sorted_domain_particles_dg'[N])
  BY DEF IInv, ScanDomain, fixed, Kept, Phases
<1>2. Typed' /\ phase = "mark" /\ phase' = "collect" /\ done = SortedIds /\ done' = {}
  BY <1>1, AfterStep
<1>3. Begins /\ SortedByCell /\ call.full /\ Marked(SortedIds)
  BY <1>2 DEF IInv, KernelInv
<1>4. SortedByCell' /\ Begins' /\ DomainIds' = DomainIds /\ \A i : IdsUnder(i)' = IdsUnder(i)
  BY <1>1, <1>3, OrderKept
<1>5. call' = call /\ N' = N
  BY <1>1, KeptIs
<1>6. PICK n \in Nat : n = N
  BY <1>1, IdsAre
<1>a. PICK D : D = DomainIds
  OBVIOUS
<1>7. UpTo(D, n) /\ SortedIds = 0 .. n - 1 /\ \A i : IdsUnder(i) = Below(D, i)
  BY <1>1, <1>6, <1>a, IdsAre
<1>8. PICK f : f = sorted_domain_particles_dg
  OBVIOUS
<1>9. DOMAIN f = 0 .. n /\ \A i \in 0 .. n - 1 : f[i] = IF i \in D THEN 1 ELSE 0
  BY <1>3, <1>6, <1>7, <1>8, <1>a DEF Marked
<1>10. PICK B : B = [i \in 0 .. n |-> Cardinality(Below(D, i))]
  OBVIOUS
<1>11. B[0] = 0
  BY <1>7, <1>10, Ascending
<1>12. ASSUME NEW i \in 0 .. n - 1 PROVE B[i + 1] = B[i] + f[i]
  <2>1. i \in 0 .. n /\ i + 1 \in 0 .. n
    OBVIOUS
  <2>2. Cardinality(Below(D, i + 1)) = Cardinality(Below(D, i)) + IF i \in D THEN 1 ELSE 0
    BY <1>7, Ascending
  <2>3. QED BY <1>9, <1>10, <2>1, <2>2
<1>13. DOMAIN Scan(f) = 0 .. n /\ \A i \in 0 .. n : Scan(f)[i] = Cardinality(Below(D, i))
  <2>1. DOMAIN Scan(f) = 0 .. n /\ \A i \in 0 .. n : Scan(f)[i] = B[i]
    BY <1>9, <1>11, <1>12, ScanIs
  <2>2. QED BY <1>10, <2>1
<1>14. Scan(f)[n] = Cardinality(D)
  <2>1. n \in 0 .. n /\ Below(D, n) = D
    BY <1>7, Ascending
  <2>2. QED BY <1>13, <2>1
<1>15. DOMAIN sorted_domain_particles_ids' = 0 .. Cardinality(D) - 1
  BY <1>1, <1>6, <1>8, <1>14, ResizeIs
<1>16. Collected(done)'
  BY <1>1, <1>2, <1>4, <1>5, <1>6, <1>7, <1>8, <1>13, <1>15, <1>a DEF Collected
<1>17. QED BY <1>2, <1>3, <1>4, <1>5, <1>16 DEF IInv, KernelInv

LEMMA CollectKeeps ==
  ASSUME IInv, NEW t \in SortedIds, CollectDomainIds(t)
  PROVE  IInv'
<1>1. /\ Typed /\ Kept /\ client' = client /\ Thread("collect", t) /\ "collect" \in Phases
      /\ UNCHANGED order /\ starts' = starts
  BY DEF IInv, CollectDomainIds, fixed, Kept, Phases
<1>2. Typed' /\ phase = "collect" /\ phase' = "collect" /\ t \notin done /\ done' = done \cup {t}
  BY <1>1, ThreadStep
<1>3. Begins /\ SortedByCell /\ call.full /\ Collected(done)
  BY <1>2 DEF IInv, KernelInv
<1>4. SortedByCell' /\ Begins' /\ DomainIds' = DomainIds /\ \A i : IdsUnder(i)' = IdsUnder(i)
  BY <1>1, <1>3, OrderKept
<1>5. call' = call /\ N' = N
  BY <1>1, KeptIs
<1>6. PICK n \in Nat : n = N
  BY <1>1, IdsAre
<1>7. PICK D : D = DomainIds
  OBVIOUS
<1>8. UpTo(D, n) /\ SortedIds = 0 .. n - 1 /\ (\A i : IdsUnder(i) = Below(D, i)) /\ done \subseteq 0 .. n - 1
  BY <1>1, <1>6, <1>7, IdsAre DEF Typed
<1>9. PICK dg, ids : dg = sorted_domain_particles_dg /\ ids = sorted_domain_particles_ids
  OBVIOUS
<1>10. /\ DOMAIN dg = 0 .. n /\ \A i \in 0 .. n : dg[i] = Cardinality(Below(D, i))
       /\ DOMAIN ids = 0 .. Cardinality(D) - 1
       /\ \A i \in done : i \in D => ids[dg[i]] = i
  BY <1>3, <1>6, <1>7, <1>8, <1>9 DEF Collected
<1>11. t \in 0 .. n /\ t + 1 \in 0 .. n /\ t \in 0 .. n - 1
  BY <1>8
<1>12. Cardinality(Below(D, t + 1)) = Cardinality(Below(D, t)) + IF t \in D THEN 1 ELSE 0
  <2>1. \A i \in 0 .. n - 1 :
          Cardinality(Below(D, i + 1)) = Cardinality(Below(D, i)) + IF i \in D THEN 1 ELSE 0
    BY <1>8, Ascending
  <2>2. QED BY <1>11, <2>1
<1>13. Cardinality(Below(D, t)) \in Nat
  BY <1>8, Ascending
<1>14. dg[t + 1] # dg[t] <=> t \in D
  BY <1>10, <1>11, <1>12, <1>13
<1>15. PICK new : new = IF t \in D THEN [ids EXCEPT ![dg[t]] = t] ELSE ids
  OBVIOUS
<1>16. sorted_domain_particles_ids' = new /\ sorted_domain_particles_dg' = dg
  BY <1>9, <1>14, <1>15 DEF CollectDomainIds
<1>17. DOMAIN new = 0 .. Cardinality(D) - 1
  BY <1>10, <1>15
<1>18. ASSUME NEW i \in done', i \in D PROVE new[dg[i]] = i
  <2>1. i \in 0 .. n - 1 /\ i \in 0 .. n
    BY <1>2, <1>8, <1>11, <1>18
  <2>2. dg[i] = Cardinality(Below(D, i)) /\ dg[t] = Cardinality(Below(D, t))
    BY <1>10, <1>11, <2>1
  <2>3. CASE i = t
    <3>1. dg[t] \in 0 .. Cardinality(D) - 1
      BY <1>8, <1>18, <2>2, <2>3, Ascending
    <3>2. QED BY <1>10, <1>15, <1>18, <2>3, <3>1
  <2>4. CASE i # t
    <3>1. i \in done /\ ids[dg[i]] = i
      BY <1>2, <1>10, <1>18, <2>4
    <3>2. t \in D => dg[i] # dg[t]
      <4>1. \A u, v \in D : u # v => Cardinality(Below(D, u)) # Cardinality(Below(D, v))
        BY <1>8, Ascending
      <4>2. QED BY <1>18, <2>2, <2>4, <4>1
    <3>3. QED BY <1>15, <3>1, <3>2
  <2>5. QED BY <2>3, <2>4
<1>19. Collected(done)'
  BY <1>4, <1>5, <1>6, <1>7, <1>8, <1>10, <1>16, <1>17, <1>18 DEF Collected
<1>20. QED BY <1>2, <1>3, <1>4, <1>5, <1>19 DEF IInv, KernelInv

\* What was collected are the domain ids, ascending.
LEMMA CollectedIsExact ==
  ASSUME Typed, Collected(SortedIds)
  PROVE  DomainIdsExact
<1>1. PICK n \in Nat : n = N
  BY IdsAre
<1>2. PICK D : D = DomainIds
  OBVIOUS
<1>3. UpTo(D, n) /\ SortedIds = 0 .. n - 1 /\ \A i : IdsUnder(i) = Below(D, i)
  BY <1>1, <1>2, IdsAre
<1>4. D \subseteq 0 .. n - 1 /\ D \subseteq 0 .. n
  BY <1>3 DEF UpTo
<1>5. PICK dg, ids : dg = sorted_domain_particles_dg /\ ids = sorted_domain_particles_ids
  OBVIOUS
<1>6. PICK m \in Nat : m = Cardinality(D)
  BY <1>3, Ascending
<1>7. /\ \A t \in D : dg[t] = Cardinality(Below(D, t)) /\ ids[dg[t]] = t
      /\ DOMAIN ids = 0 .. m - 1
  BY <1>1, <1>2, <1>3, <1>4, <1>5, <1>6 DEF Collected
<1>8. /\ \A t \in D : dg[t] \in 0 .. m - 1
      /\ \A t, u \in D : dg[t] < dg[u] => t < u
      /\ \A k \in 0 .. m - 1 : \E t \in D : dg[t] = k
  BY <1>3, <1>6, <1>7, Ascending
<1>9. \A k \in 0 .. m - 1 : \E t \in D : dg[t] = k /\ ids[k] = t
  BY <1>7, <1>8
<1>10. {ids[k] : k \in 0 .. m - 1} = D
  BY <1>7, <1>8, <1>9
<1>11. ASSUME NEW k \in 0 .. m - 1, NEW l \in 0 .. m - 1, k < l PROVE ids[k] < ids[l]
  BY <1>8, <1>9, <1>11
<1>12. QED BY <1>2, <1>5, <1>6, <1>7, <1>10, <1>11 DEF DomainIdsExact

LEMMA EndConstructKeeps ==
  ASSUME IInv, EndConstruct
  PROVE  IInv'
<1>1. /\ Typed /\ Kept /\ client' = client /\ After("collect", "built")
      /\ "collect" \in Phases /\ "built" \in Phases /\ UNCHANGED order /\ starts' = starts
      /\ sorted_domain_particles_ids' = sorted_domain_particles_ids
  BY DEF IInv, EndConstruct, fixed, domain, Kept, Phases
<1>2. Typed' /\ phase = "collect" /\ phase' = "built" /\ done = SortedIds
  BY <1>1, AfterStep
<1>3. Begins /\ SortedByCell /\ Collected(SortedIds)
  BY <1>2 DEF IInv, KernelInv
<1>4. SortedByCell' /\ Begins' /\ DomainIds' = DomainIds
  BY <1>1, <1>3, OrderKept
<1>5. DomainIdsExact
  BY <1>1, <1>3, CollectedIsExact
<1>6. DomainIdsExact'
  BY <1>1, <1>4, <1>5 DEF DomainIdsExact
<1>7. QED BY <1>2, <1>4, <1>6 DEF IInv, KernelInv

-----------------------------------------------------------------------------
(* What the client calls.                                                  *)

LEMMA ConstructKeeps ==
  ASSUME IInv, Construct
  PROVE  IInv'
<1>1. /\ Typed /\ client.calls # <<>> /\ call' = Head(client.calls)
      /\ client' = [client EXCEPT !.calls = Tail(@)] /\ done' = {}
      /\ geo' = geo /\ is_sparse' = is_sparse
      /\ pl_out' = Resize(Empty, Len(call'.pl)) /\ part_ids' = Resize(part_ids, N')
  BY DEF IInv, Construct, fixed
<1>2. PICK calls \in Seq(Call) : calls = client.calls
  BY <1>1 DEF Typed, Client
<1>3. calls # <<>> /\ \A k \in DOMAIN calls : GoodCall(calls[k], is_sparse)
  BY <1>1, <1>2 DEF Typed
<1>4. /\ Head(calls) = calls[1] /\ 1 \in DOMAIN calls /\ Tail(calls) \in Seq(Call) /\ calls[1] \in Call
      /\ \A k \in DOMAIN Tail(calls) : k + 1 \in DOMAIN calls /\ Tail(calls)[k] = calls[k + 1]
  BY <1>3
<1>5. call' \in Call /\ GoodCall(call', is_sparse)
  BY <1>1, <1>2, <1>3, <1>4
<1>6. /\ client' \in Client /\ client'.sparse = client.sparse
      /\ \A k \in DOMAIN client'.calls : GoodCall(client'.calls[k], is_sparse)
  <2>1. client' = [client EXCEPT !.calls = Tail(calls)] /\ client \in Client
    BY <1>1, <1>2 DEF Typed
  <2>2. client' \in Client /\ client'.sparse = client.sparse /\ client'.calls = Tail(calls)
    BY <1>4, <2>1 DEF Client
  <2>3. QED BY <1>3, <1>4, <2>2
<1>7. phase' \in {"subindex", "built"}
  BY DEF Construct
<1>8. Typed'
  BY <1>1, <1>5, <1>6, <1>7 DEF Typed, GoodCall, Phases
<1>9. NCell' = NCell /\ NCell \in Nat /\ N' \in Nat
  <2>1. NCell' = NCell
    BY <1>1 DEF NCell
  <2>2. NCell \in Nat
    BY <1>1, RangeIs
  <2>3. call'.start \in Nat /\ call'.stop \in Nat /\ call'.start <= call'.stop
    BY <1>5 DEF Call, GoodCall
  <2>4. QED BY <2>1, <2>2, <2>3 DEF N
<1>10. OutSized' /\ DOMAIN part_ids' = SortedIds' /\ Seen' = {}
  <2>1. Seen' = {}
    BY <1>1 DEF Seen
  <2>2. QED BY <1>1, <2>1, ResizeIs DEF OutSized, SortedIds
<1>11. CASE is_sparse
  <2>1. phase' = "subindex" /\ starts' = Resize(starts, N')
    BY <1>11 DEF Construct
  <2>2. Celled(Seen)'
    BY <1>10, <2>1, ResizeIs DEF Celled, SortedIds
  <2>3. QED BY <1>1, <1>8, <1>10, <1>11, <2>1, <2>2 DEF IInv, KernelInv
<1>12. CASE ~is_sparse
  <2>1. cl_n' = Fill(NCell + 1, 0)
    BY <1>12 DEF Construct, NCell
  <2>2. DOMAIN Fill(NCell + 1, 0) = 0 .. NCell /\ \A c \in 0 .. NCell : Fill(NCell + 1, 0)[c] = 0
    <3>1. PICK k \in Nat : k = NCell + 1 /\ k - 1 = NCell
      BY <1>9
    <3>2. QED BY <3>1 DEF Fill
  <2>3. CASE call'.stop # 0
    <3>1. phase' = "subindex"
      BY <1>12, <2>3 DEF Construct
    <3>2. \A c : On({}, Cid', c) = {}
      BY DEF On
    <3>3. Counted(Seen)'
      BY <1>9, <1>10, <2>1, <2>2, <3>2, FS_EmptySet DEF Counted
    <3>4. QED BY <1>1, <1>8, <1>10, <1>12, <3>1, <3>3 DEF IInv, KernelInv
  <2>4. CASE call'.stop = 0
    <3>1. phase' = "built" /\ starts' = Fill(NCell + 1, 0)
      BY <1>12, <2>4 DEF Construct, NCell
    <3>2. call'.start = 0
      BY <1>5, <2>4 DEF Call, GoodCall
    <3>3. N' = 0 /\ InRange' = {} /\ SortedIds' = {}
      BY <2>4, <3>2 DEF N, InRange, SortedIds
    <3>4. \A c : Under({}, Cid', c) = {}
      BY DEF Under
    <3>5. Begins'
      BY <1>9, <2>2, <3>1, <3>3, <3>4, FS_EmptySet DEF Begins
    <3>6. SortedByCell'
      BY <3>3 DEF SortedByCell
    <3>7. QED BY <1>8, <3>1, <3>3, <3>5, <3>6 DEF IInv, KernelInv
  <2>5. QED BY <2>3, <2>4
<1>13. QED BY <1>11, <1>12

LEMMA InitializeKeeps ==
  ASSUME IInv, NEW g \in Geometries, Initialize(g)
  PROVE  IInv'
<1>1. /\ Typed /\ geo' = g /\ phase' = "none" /\ call' = call /\ done' = done
      /\ client' = [client EXCEPT !.inits = @ - 1] /\ client.inits > 0 /\ is_sparse' = is_sparse
  BY DEF IInv, Initialize
<1>2. client' \in Client /\ client'.sparse = client.sparse /\ client'.calls = client.calls
  <2>1. client \in Client
    BY <1>1 DEF Typed
  <2>2. QED BY <1>1, <2>1 DEF Client
<1>3. SortedIds' = SortedIds
  BY <1>1 DEF SortedIds, N
<1>4. Typed'
  BY <1>1, <1>2, <1>3 DEF Typed, GoodCall, Phases
<1>5. QED BY <1>1, <1>4 DEF IInv, KernelInv

LEMMA SetRadiusKeeps ==
  ASSUME IInv, NEW r \in Radii, SetRadius(r)
  PROVE  IInv'
<1>1. /\ Typed /\ Kept /\ client' = client /\ phase' = phase /\ done' = done /\ Idle
      /\ UNCHANGED order /\ starts' = starts
      /\ sorted_domain_particles_ids' = sorted_domain_particles_ids
  BY DEF IInv, SetRadius, Kept, domain
<1>2. Typed'
  <2>1. phase' \in Phases /\ done' \subseteq SortedIds
    BY <1>1 DEF Typed
  <2>2. QED BY <1>1, <2>1, TypedKept
<1>3. CASE phase = "none"
  BY <1>1, <1>2, <1>3 DEF IInv, KernelInv
<1>4. CASE phase = "built"
  <2>1. Begins /\ SortedByCell /\ (call.full /\ N > 0 => DomainIdsExact)
    BY <1>4 DEF IInv, KernelInv
  <2>2. SortedByCell' /\ Begins' /\ DomainIds' = DomainIds
    BY <1>1, <2>1, OrderKept
  <2>3. call' = call /\ N' = N
    BY <1>1, KeptIs
  <2>4. call'.full /\ N' > 0 => DomainIdsExact'
    BY <1>1, <2>1, <2>2, <2>3 DEF DomainIdsExact
  <2>5. QED BY <1>1, <1>2, <1>4, <2>2, <2>4 DEF IInv, KernelInv
<1>5. QED BY <1>1, <1>3, <1>4 DEF Idle

LEMMA ClearKeeps ==
  ASSUME IInv, Clear
  PROVE  IInv'
<1>1. /\ Typed /\ Kept /\ client' = client /\ phase' = "none" /\ done' = done
  BY DEF IInv, Clear, fixed, Kept
<1>2. phase' \in Phases /\ done' \subseteq SortedIds
  BY <1>1 DEF Typed, Phases
<1>3. Typed'
  BY <1>1, <1>2, TypedKept
<1>4. QED BY <1>1, <1>3 DEF IInv, KernelInv

-----------------------------------------------------------------------------
(* What construct has done, at its end.                                    *)

LEMMA InitIInv ==
  ASSUME Init
  PROVE  IInv
<1>1. /\ client \in Client /\ is_sparse = client.sparse /\ geo \in Geometries
      /\ \A k \in DOMAIN client.calls : GoodCall(client.calls[k], is_sparse)
  BY CellListGpuAssumption DEF Init
<1>2. PICK pl : pl = <<>> /\ pl \in Seq(Int \X Int) /\ Len(pl) = 0
  <2>1. PICK A : A = Int \X Int
    OBVIOUS
  <2>2. <<>> \in Seq(A) /\ Len(<<>>) = 0
    OBVIOUS
  <2>3. QED BY <2>1, <2>2
<1>3. call = [pl |-> pl, start |-> 0, stop |-> 0, g_m |-> 0, full |-> FALSE]
  BY <1>2 DEF Init
<1>4. call \in Call
  BY <1>2, <1>3 DEF Call
<1>5. GoodCall(call, is_sparse)
  BY <1>2, <1>3 DEF GoodCall
<1>6. phase = "none" /\ done = {}
  BY DEF Init
<1>7. QED BY <1>1, <1>4, <1>5, <1>6 DEF IInv, Typed, KernelInv, Phases

LEMMA NextIInv ==
  ASSUME IInv, [Next]_vars
  PROVE  IInv'
<1>1. CASE \E g \in Geometries : Initialize(g)
  BY <1>1, InitializeKeeps
<1>2. CASE \E r \in Radii : SetRadius(r)
  BY <1>2, SetRadiusKeeps
<1>3. CASE Clear
  BY <1>3, ClearKeeps
<1>4. CASE Construct
  BY <1>4, ConstructKeeps
<1>5. CASE ScanCells
  BY <1>5, ScanCellsKeeps
<1>6. CASE SortSparse
  BY <1>6, SortSparseKeeps
<1>7. CASE CountFillCells
  BY <1>7, CountFillCellsKeeps
<1>8. CASE StartReorder
  BY <1>8, StartReorderKeeps
<1>9. CASE StartDomainIds
  BY <1>9, StartDomainIdsKeeps
<1>10. CASE ScanDomain
  BY <1>10, ScanDomainKeeps
<1>11. CASE EndConstruct
  BY <1>11, EndConstructKeeps
<1>12. ASSUME NEW t \in 0 .. N - 1,
              SubIndex(t) \/ FillCells(t) \/ ReorderParts(t)
                \/ MarkDomainParticles(t) \/ CollectDomainIds(t)
       PROVE  IInv'
  <2>1. t \in SortedIds
    BY <1>12 DEF SortedIds
  <2>2. CASE SubIndex(t)
    BY <2>1, <2>2, SubIndexKeeps
  <2>3. CASE FillCells(t)
    BY <2>1, <2>3, FillCellsKeeps
  <2>4. CASE ReorderParts(t)
    BY <2>1, <2>4, ReorderPartsKeeps
  <2>5. CASE MarkDomainParticles(t)
    BY <2>1, <2>5, MarkKeeps
  <2>6. CASE CollectDomainIds(t)
    BY <2>1, <2>6, CollectKeeps
  <2>7. QED BY <1>12, <2>2, <2>3, <2>4, <2>5, <2>6
<1>13. CASE UNCHANGED vars
  <2>1. /\ geo' = geo /\ is_sparse' = is_sparse /\ call' = call /\ client' = client
        /\ phase' = phase /\ done' = done /\ cl_n' = cl_n /\ part_ids' = part_ids
        /\ starts' = starts /\ cells' = cells /\ pl_out' = pl_out
        /\ sorted_to_not_sorted' = sorted_to_not_sorted
        /\ non_sorted_to_sorted' = non_sorted_to_sorted
        /\ sorted_domain_particles_dg' = sorted_domain_particles_dg
        /\ sorted_domain_particles_ids' = sorted_domain_particles_ids
    BY <1>13 DEF vars, dense, lists, order, domain, fixed
  <2>2. Kept
    BY <2>1 DEF Kept
  <2>3. Typed'
    <3>1. Typed /\ phase' \in Phases /\ done' \subseteq SortedIds
      BY <2>1 DEF IInv, Typed
    <3>2. QED BY <2>1, <2>2, <3>1, TypedKept
  <2>4. /\ N' = N /\ InRange' = InRange /\ Cid' = Cid /\ NCell' = NCell /\ SortedIds' = SortedIds
        /\ \A p : Particle(p)' = Particle(p)
    BY <2>2, KeptIs
  <2>5. Seen' = Seen /\ DomainIds' = DomainIds /\ \A p : PlaceIn(p)' = PlaceIn(p)
    BY <2>1, <2>4 DEF Seen, DomainIds, PlaceIn
  <2>6. \A i : IdsUnder(i)' = IdsUnder(i)
    BY <2>5 DEF IdsUnder
  <2>7. /\ OutSized' = OutSized /\ Celled(Seen)' = Celled(Seen) /\ Begins' = Begins
        /\ Filled(Seen)' = Filled(Seen) /\ Sorted' = Sorted /\ Reordered(done)' = Reordered(done)
    BY <2>1, <2>4, <2>5 DEF OutSized, Celled, Begins, Filled, Sorted, Reordered
  <2>8. Counted(Seen)' = Counted(Seen) /\ Counted(InRange)' = Counted(InRange)
    BY <2>1, <2>4, <2>5 DEF Counted
  <2>9. /\ SortedByCell' = SortedByCell /\ Marked(done)' = Marked(done)
        /\ Collected(done)' = Collected(done) /\ DomainIdsExact' = DomainIdsExact
    BY <2>1, <2>4, <2>5, <2>6 DEF SortedByCell, Marked, Collected, DomainIdsExact
  <2>10. KernelInv'
    BY <2>1, <2>4, <2>7, <2>8, <2>9 DEF IInv, KernelInv
  <2>11. QED BY <2>3, <2>10 DEF IInv
<1>14. QED
  BY <1>1, <1>2, <1>3, <1>4, <1>5, <1>6, <1>7, <1>8, <1>9, <1>10, <1>11, <1>12, <1>13 DEF Next

LEMMA IInvHolds == Spec => []IInv
<1>1. Init => IInv
  BY InitIInv
<1>2. IInv /\ [Next]_vars => IInv'
  BY NextIInv
<1>3. QED BY <1>1, <1>2, PTL DEF Spec

\* Whether or not the call is sparse, and whatever came before it, a construct
\* that has ended has sorted exactly the particles of its range by cell; and
\* the domain ids, if the client wants them, are those below the ghost marker.
THEOREM ConstructIsExact == Spec => []ConstructedExactly
<1>1. IInv => ConstructedExactly
  <2>1. SUFFICES ASSUME IInv, phase = "built"
                 PROVE  SortedByCell /\ StartsCount /\ (call.full /\ N > 0 => DomainIdsExact)
    BY DEF ConstructedExactly
  <2>2. Begins /\ SortedByCell /\ (call.full /\ N > 0 => DomainIdsExact)
    BY <2>1 DEF IInv, KernelInv
  <2>3. \A c : {p \in InRange : GetCid(geo, Particle(p)) < c} = Under(InRange, Cid, c)
    BY DEF Under, Cid
  <2>4. StartsCount
    BY <2>2, <2>3 DEF StartsCount, Begins, NCell
  <2>5. QED BY <2>2, <2>4
<1>2. QED BY <1>1, IInvHolds, PTL

-----------------------------------------------------------------------------
(* Sequences without repeats.                                              *)

Once(s) == \A a, b \in DOMAIN s : s[a] = s[b] => a = b
Has(s, x) == \E a \in DOMAIN s : s[a] = x
Apart(s, t) == \A x : ~(Has(s, x) /\ Has(t, x))

LEMMA ConcatOnce ==
  ASSUME NEW A, NEW s \in Seq(A), NEW t \in Seq(A), Once(s), Once(t), Apart(s, t)
  PROVE  /\ s \o t \in Seq(A) /\ Once(s \o t)
         /\ \A x : Has(s \o t, x) <=> Has(s, x) \/ Has(t, x)
<1>1. PICK m \in Nat : m = Len(s) /\ DOMAIN s = 1 .. m
  OBVIOUS
<1>2. PICK n \in Nat : n = Len(t) /\ DOMAIN t = 1 .. n
  OBVIOUS
<1>3. PICK r : r = s \o t
  OBVIOUS
<1>4. /\ r \in Seq(A) /\ DOMAIN r = 1 .. m + n
      /\ \A a \in 1 .. m : r[a] = s[a]
      /\ \A a \in m + 1 .. m + n : r[a] = t[a - m]
  BY <1>1, <1>2, <1>3
<1>5. ASSUME NEW a \in 1 .. m + n
      PROVE  \/ a \in 1 .. m /\ r[a] = s[a]
             \/ a - m \in 1 .. n /\ r[a] = t[a - m]
  BY <1>4
<1>6. ASSUME NEW a \in 1 .. m + n, NEW b \in 1 .. m + n, r[a] = r[b] PROVE a = b
  <2>1. CASE a \in 1 .. m /\ r[a] = s[a]
    <3>1. CASE b \in 1 .. m /\ r[b] = s[b]
      BY <1>1, <1>6, <2>1, <3>1 DEF Once
    <3>2. CASE b - m \in 1 .. n /\ r[b] = t[b - m]
      <4>1. Has(s, r[a]) /\ Has(t, r[a])
        BY <1>1, <1>2, <1>6, <2>1, <3>2 DEF Has
      <4>2. QED BY <4>1 DEF Apart
    <3>3. QED BY <1>5, <3>1, <3>2
  <2>2. CASE a - m \in 1 .. n /\ r[a] = t[a - m]
    <3>1. CASE b \in 1 .. m /\ r[b] = s[b]
      <4>1. Has(s, r[a]) /\ Has(t, r[a])
        BY <1>1, <1>2, <1>6, <2>2, <3>1 DEF Has
      <4>2. QED BY <4>1 DEF Apart
    <3>2. CASE b - m \in 1 .. n /\ r[b] = t[b - m]
      <4>1. a - m = b - m
        BY <1>2, <1>6, <2>2, <3>2 DEF Once
      <4>2. QED BY <4>1
    <3>3. QED BY <1>5, <3>1, <3>2
  <2>3. QED BY <1>5, <2>1, <2>2
<1>7. Once(r)
  BY <1>4, <1>6 DEF Once
<1>8. ASSUME NEW x PROVE Has(r, x) <=> Has(s, x) \/ Has(t, x)
  <2>1. ASSUME Has(r, x) PROVE Has(s, x) \/ Has(t, x)
    <3>1. PICK a \in 1 .. m + n : r[a] = x
      BY <1>4, <2>1 DEF Has
    <3>2. QED BY <1>1, <1>2, <1>5, <3>1 DEF Has
  <2>2. ASSUME Has(s, x) PROVE Has(r, x)
    <3>1. PICK a \in 1 .. m : s[a] = x
      BY <1>1, <2>2 DEF Has
    <3>2. a \in 1 .. m + n /\ r[a] = x
      BY <1>4, <3>1
    <3>3. QED BY <1>4, <3>2 DEF Has
  <2>3. ASSUME Has(t, x) PROVE Has(r, x)
    <3>1. PICK a \in 1 .. n : t[a] = x
      BY <1>2, <2>3 DEF Has
    <3>2. a + m \in m + 1 .. m + n /\ (a + m) - m = a
      OBVIOUS
    <3>3. a + m \in 1 .. m + n /\ r[a + m] = x
      BY <1>4, <3>1, <3>2
    <3>4. QED BY <1>4, <3>3 DEF Has
  <2>4. QED BY <2>1, <2>2, <2>3
<1>9. QED BY <1>3, <1>4, <1>7, <1>8

\* One after the other, sequences that have nothing in common.
LEMMA FlattenOnce ==
  ASSUME NEW A, NEW seqs \in Seq(Seq(A)),
         \A k \in DOMAIN seqs : Once(seqs[k]),
         \A k, l \in DOMAIN seqs : k # l => Apart(seqs[k], seqs[l])
  PROVE  /\ FlattenSeq(seqs) \in Seq(A) /\ Once(FlattenSeq(seqs))
         /\ \A x : Has(FlattenSeq(seqs), x) <=> \E k \in DOMAIN seqs : Has(seqs[k], x)
<1> DEFINE Is(f, n) == f = [i \in 1 .. n |-> IF i = 1 THEN seqs[i] ELSE f[i - 1] \o seqs[i]]
<1>1. PICK L \in Nat : L = Len(seqs) /\ DOMAIN seqs = 1 .. L /\ \A i \in 1 .. L : seqs[i] \in Seq(A)
  OBVIOUS
<1>2. \A n \in 0 .. L : \E f : Is(f, n)
  <2> DEFINE Bad == {n \in 0 .. L : ~\E f : Is(f, n)}
  <2>1. SUFFICES ASSUME Bad # {} PROVE FALSE
    OBVIOUS
  <2>2. PICK n \in Bad : \A m \in Bad : n <= m
    <3>1. Bad \subseteq Nat
      <4> HIDE DEF Is
      <4>1. QED OBVIOUS
    <3> HIDE DEF Bad
    <3>2. QED BY <2>1, <3>1, LeastNat
  <2>3. n \in 0 .. L /\ ~\E f : Is(f, n)
    OBVIOUS
  <2>4. n # 0
    <3>1. PICK f : f = [i \in 1 .. 0 |-> <<>>]
      OBVIOUS
    <3>2. Is(f, 0)
      BY <3>1
    <3>3. QED BY <2>3, <3>2
  <2>5. n - 1 \in 0 .. L /\ n - 1 \notin Bad
    <3>1. n - 1 \in 0 .. L /\ ~(n <= n - 1)
      BY <2>3, <2>4
    <3> HIDE DEF Bad
    <3>2. QED BY <2>2, <3>1
  <2>6. PICK f : Is(f, n - 1)
    BY <2>5
  <2>7. PICK g : g = [i \in 1 .. n |-> IF i < n THEN f[i]
                                        ELSE IF i = 1 THEN seqs[i] ELSE f[i - 1] \o seqs[i]]
    OBVIOUS
  <2>8. \A i \in 1 .. n : g[i] = IF i = 1 THEN seqs[i] ELSE g[i - 1] \o seqs[i]
    <3>1. SUFFICES ASSUME NEW i \in 1 .. n
                   PROVE  g[i] = IF i = 1 THEN seqs[i] ELSE g[i - 1] \o seqs[i]
      OBVIOUS
    <3>2. i # 1 => g[i - 1] = f[i - 1]
      BY <2>3, <2>7
    <3>3. CASE i < n
      <4>1. i \in 1 .. n - 1
        BY <2>3, <3>3
      <4>2. f[i] = IF i = 1 THEN seqs[i] ELSE f[i - 1] \o seqs[i]
        BY <2>6, <4>1
      <4>3. g[i] = f[i]
        BY <2>7, <3>3
      <4>4. QED BY <3>2, <4>2, <4>3
    <3>4. CASE ~(i < n)
      BY <2>7, <3>2, <3>4
    <3>5. QED BY <3>3, <3>4
  <2>9. Is(g, n)
    <3>1. PICK h : h = [i \in 1 .. n |-> IF i = 1 THEN seqs[i] ELSE g[i - 1] \o seqs[i]]
      OBVIOUS
    <3>2. \A i \in 1 .. n : g[i] = h[i]
      BY <2>8, <3>1
    <3>3. g = h
      BY <2>7, <3>1, <3>2
    <3>4. QED BY <3>1, <3>3
  <2>10. QED BY <2>3, <2>9
<1>3. PICK f : Is(f, L)
  <2> HIDE DEF Is
  <2>1. L \in 0 .. L
    BY <1>1
  <2>2. QED BY <1>2, <2>1
<1> DEFINE F == CHOOSE g : Is(g, L)
<1>4. Is(F, L)
  <2> HIDE DEF Is
  <2>1. QED BY <1>3
<1>5. L # 0 => FlattenSeq(seqs) = F[L]
  BY <1>1 DEF FlattenSeq
<1>6. \A i \in 1 .. L : F[i] = IF i = 1 THEN seqs[i] ELSE F[i - 1] \o seqs[i]
  <2> HIDE DEF F
  <2>1. QED BY <1>4
<1> HIDE DEF F, Is
<1> DEFINE Upto(i) == /\ F[i] \in Seq(A) /\ Once(F[i])
                      /\ \A x : Has(F[i], x) <=> \E k \in 1 .. i : Has(seqs[k], x)
<1>7. \A i \in 1 .. L : Upto(i)
  <2> DEFINE Bad == {i \in 1 .. L : ~Upto(i)}
  <2>1. SUFFICES ASSUME Bad # {} PROVE FALSE
    OBVIOUS
  <2>2. PICK i \in Bad : \A m \in Bad : i <= m
    <3>1. Bad \subseteq Nat
      <4> HIDE DEF Upto
      <4>1. QED OBVIOUS
    <3> HIDE DEF Bad
    <3>2. QED BY <2>1, <3>1, LeastNat
  <2>3. i \in 1 .. L /\ ~Upto(i)
    OBVIOUS
  <2>4. seqs[i] \in Seq(A) /\ Once(seqs[i])
    BY <1>1, <2>3
  <2>5. i # 1
    <3>1. ASSUME i = 1 PROVE FALSE
      <4>1. F[i] = seqs[i]
        BY <1>6, <2>3, <3>1
      <4>2. \A x : Has(F[i], x) <=> \E k \in 1 .. i : Has(seqs[k], x)
        <5>1. 1 .. i = {i}
          BY <3>1
        <5>2. QED BY <4>1, <5>1, Zenon
      <4>3. QED BY <2>3, <2>4, <4>1, <4>2
    <3>2. QED BY <3>1
  <2>6. PICK j \in 1 .. L : j = i - 1 /\ 1 .. i = 1 .. j \cup {i} /\ i \notin 1 .. j /\ ~(i <= j)
                            /\ 1 .. j \subseteq 1 .. L
    <3>1. i - 1 \in 1 .. L /\ 1 .. i = 1 .. i - 1 \cup {i} /\ i \notin 1 .. i - 1 /\ ~(i <= i - 1)
          /\ 1 .. i - 1 \subseteq 1 .. L
      BY <2>3, <2>5
    <3>2. QED BY <3>1
  <2>7. Upto(j)
    <3>1. j \notin Bad
      <4> HIDE DEF Bad
      <4>1. QED BY <2>2, <2>6
    <3>2. QED BY <2>6, <3>1
  <2>8. F[i] = F[j] \o seqs[i]
    BY <1>6, <2>3, <2>5, <2>6
  <2>9. Apart(F[j], seqs[i])
    <3>1. ASSUME NEW x, Has(F[j], x), Has(seqs[i], x) PROVE FALSE
      <4>1. PICK k \in 1 .. j : Has(seqs[k], x)
        BY <2>7, <3>1
      <4>2. Apart(seqs[k], seqs[i])
        BY <1>1, <2>3, <2>6, <4>1
      <4>3. QED BY <3>1, <4>1, <4>2 DEF Apart
    <3>2. QED BY <3>1 DEF Apart
  <2>10. /\ F[i] \in Seq(A) /\ Once(F[i])
         /\ \A x : Has(F[i], x) <=> Has(F[j], x) \/ Has(seqs[i], x)
    <3>1. F[j] \in Seq(A) /\ Once(F[j])
      BY <2>7
    <3>2. QED BY <2>4, <2>8, <2>9, <3>1, ConcatOnce
  <2>11. \A x : Has(F[i], x) <=> \E k \in 1 .. i : Has(seqs[k], x)
    BY <2>6, <2>7, <2>10, Zenon
  <2>12. QED BY <2>3, <2>10, <2>11
<1>8. CASE L = 0
  <2>1. FlattenSeq(seqs) = seqs
    <3>1. Len(seqs) = 0
      BY <1>1, <1>8
    <3>2. QED BY <3>1, Zenon DEF FlattenSeq
  <2>2. seqs = <<>> /\ DOMAIN seqs = {}
    BY <1>1, <1>8
  <2>3. seqs \in Seq(A)
    BY <2>2
  <2>4. QED BY <2>1, <2>2, <2>3 DEF Once, Has
<1>9. CASE L # 0
  <2>1. L \in 1 .. L
    BY <1>9
  <2>2. Upto(L)
    BY <1>7, <2>1
  <2>3. QED BY <1>1, <1>5, <1>9, <2>2
<1>10. QED BY <1>8, <1>9

\* A range of indexes, as the iterators return it.
LEMMA FromOnce ==
  ASSUME NEW a \in Nat, NEW b \in Nat, a <= b
  PROVE  /\ From(a, b) \in Seq(Nat) /\ Once(From(a, b))
         /\ \A x : Has(From(a, b), x) <=> x \in a .. b - 1
<1>1. PICK s : s = From(a, b)
  OBVIOUS
<1>2. s = [k \in 1 .. b - a |-> a + k - 1] /\ b - a \in Nat
  BY <1>1 DEF From
<1>3. \A k \in 1 .. b - a : s[k] = a + k - 1 /\ s[k] \in Nat
  BY <1>2
<1>4. s \in Seq(Nat)
  <2>1. PICK n \in Nat : n = b - a
    BY <1>2
  <2>2. s \in [1 .. n -> Nat]
    BY <1>2, <1>3, <2>1
  <2>3. QED BY <2>2
<1>5. Once(s)
  BY <1>2, <1>3 DEF Once
<1>6. ASSUME NEW x PROVE Has(s, x) <=> x \in a .. b - 1
  <2>1. ASSUME Has(s, x) PROVE x \in a .. b - 1
    BY <1>2, <1>3, <2>1 DEF Has
  <2>2. ASSUME x \in a .. b - 1 PROVE Has(s, x)
    <3>1. x - a + 1 \in 1 .. b - a /\ a + (x - a + 1) - 1 = x
      BY <2>2
    <3>2. QED BY <1>2, <1>3, <3>1 DEF Has
  <2>3. QED BY <2>1, <2>2
<1>7. QED BY <1>1, <1>4, <1>5, <1>6

-----------------------------------------------------------------------------
(* Sums, and the members of a set in their order.                          *)

LEMMA ScanSteps ==
  ASSUME NEW m \in Nat, NEW f, DOMAIN f = 0 .. m, \A i \in 0 .. m : f[i] \in Nat
  PROVE  /\ DOMAIN Scan(f) = 0 .. m /\ Scan(f)[0] = 0
         /\ \A i \in 0 .. m : Scan(f)[i] \in Nat
         /\ \A i \in 0 .. m - 1 : Scan(f)[i + 1] = Scan(f)[i] + f[i]
<1> DEFINE Is(s, n) == s = [i \in 0 .. n |-> IF i = 0 THEN 0 ELSE s[i - 1] + f[i - 1]]
<1>1. \A n \in 0 .. m : \E s : Is(s, n)
  <2> DEFINE Bad == {n \in 0 .. m : ~\E s : Is(s, n)}
  <2>1. SUFFICES ASSUME Bad # {} PROVE FALSE
    OBVIOUS
  <2>2. PICK n \in Bad : \A k \in Bad : n <= k
    <3>1. Bad \subseteq Nat
      <4> HIDE DEF Is
      <4>1. QED OBVIOUS
    <3> HIDE DEF Bad
    <3>2. QED BY <2>1, <3>1, LeastNat
  <2>3. n \in 0 .. m /\ ~\E s : Is(s, n)
    OBVIOUS
  <2>4. n # 0
    <3>1. PICK s : s = [i \in 0 .. 0 |-> 0]
      OBVIOUS
    <3>2. Is(s, 0)
      BY <3>1
    <3>3. QED BY <2>3, <3>2
  <2>5. n - 1 \in 0 .. m /\ n - 1 \notin Bad
    <3>1. n - 1 \in 0 .. m /\ ~(n <= n - 1)
      BY <2>3, <2>4
    <3> HIDE DEF Bad
    <3>2. QED BY <2>2, <3>1
  <2>6. PICK s : Is(s, n - 1)
    BY <2>5
  <2>7. PICK t : t = [i \in 0 .. n |-> IF i < n THEN s[i] ELSE s[i - 1] + f[i - 1]]
    OBVIOUS
  <2>8. \A i \in 0 .. n : t[i] = IF i = 0 THEN 0 ELSE t[i - 1] + f[i - 1]
    <3>1. SUFFICES ASSUME NEW i \in 0 .. n
                   PROVE  t[i] = IF i = 0 THEN 0 ELSE t[i - 1] + f[i - 1]
      OBVIOUS
    <3>2. i # 0 => t[i - 1] = s[i - 1]
      BY <2>3, <2>7
    <3>3. CASE i < n
      <4>1. i \in 0 .. n - 1
        BY <2>3, <3>3
      <4>2. s[i] = IF i = 0 THEN 0 ELSE s[i - 1] + f[i - 1]
        BY <2>6, <4>1
      <4>3. t[i] = s[i]
        BY <2>7, <3>3
      <4>4. QED BY <3>2, <4>2, <4>3
    <3>4. CASE ~(i < n)
      BY <2>4, <2>7, <3>2, <3>4
    <3>5. QED BY <3>3, <3>4
  <2>9. Is(t, n)
    BY <2>7, <2>8
  <2>10. QED BY <2>3, <2>9
<1>2. PICK s : Is(s, m)
  <2> HIDE DEF Is
  <2>1. m \in 0 .. m
    OBVIOUS
  <2>2. QED BY <1>1, <2>1
<1> DEFINE S == CHOOSE s0 : Is(s0, m)
<1>3. Scan(f) = S
  BY DEF Scan
<1>4. Is(S, m)
  <2> HIDE DEF Is
  <2>1. QED BY <1>2
<1> HIDE DEF S
<1>5. DOMAIN S = 0 .. m /\ \A i \in 0 .. m : S[i] = IF i = 0 THEN 0 ELSE S[i - 1] + f[i - 1]
  BY <1>4
<1> HIDE DEF Is
<1>6. S[0] = 0
  BY <1>5
<1>7. ASSUME NEW i \in 0 .. m - 1 PROVE S[i + 1] = S[i] + f[i]
  <2>1. i + 1 \in 0 .. m /\ i + 1 # 0 /\ (i + 1) - 1 = i
    OBVIOUS
  <2>2. S[i + 1] = S[(i + 1) - 1] + f[(i + 1) - 1]
    BY <1>5, <2>1
  <2>3. QED BY <2>1, <2>2
<1>8. \A i \in 0 .. m : S[i] \in Nat
  <2> DEFINE Bad == {i \in 0 .. m : S[i] \notin Nat}
  <2>1. SUFFICES ASSUME Bad # {} PROVE FALSE
    OBVIOUS
  <2>2. PICK i \in Bad : \A k \in Bad : i <= k
    <3>1. Bad \subseteq Nat
      OBVIOUS
    <3> HIDE DEF Bad
    <3>2. QED BY <2>1, <3>1, LeastNat
  <2>3. i \in 0 .. m /\ S[i] \notin Nat
    OBVIOUS
  <2>4. i # 0
    BY <1>6, <2>3
  <2>5. PICK j \in 0 .. m - 1 : i = j + 1 /\ ~(i <= j) /\ j \in 0 .. m
    <3>1. i - 1 \in 0 .. m - 1 /\ i = (i - 1) + 1 /\ ~(i <= i - 1) /\ i - 1 \in 0 .. m
      BY <2>3, <2>4
    <3>2. QED BY <3>1
  <2>6. S[j] \in Nat
    <3>1. j \notin Bad
      <4> HIDE DEF Bad
      <4>1. QED BY <2>2, <2>5
    <3>2. QED BY <2>5, <3>1
  <2>7. S[i] = S[j] + f[j] /\ f[j] \in Nat
    BY <1>7, <2>5
  <2>8. QED BY <2>3, <2>6, <2>7
<1>9. QED BY <1>3, <1>5, <1>6, <1>7, <1>8

\* What is summed up to a place does not pass what is summed up to a later one.
LEMMA SumsGrow ==
  ASSUME NEW m \in Nat, NEW S, NEW f, \A i \in 0 .. m : S[i] \in Nat,
         \A i \in 0 .. m - 1 : f[i] \in Nat /\ S[i + 1] = S[i] + f[i]
  PROVE  \A i, j \in 0 .. m : i <= j => S[i] <= S[j]
<1>1. SUFFICES ASSUME NEW i \in 0 .. m PROVE \A j \in 0 .. m : i <= j => S[i] <= S[j]
  OBVIOUS
<1> DEFINE Bad == {j \in 0 .. m : i <= j /\ ~(S[i] <= S[j])}
<1>2. SUFFICES ASSUME Bad # {} PROVE FALSE
  OBVIOUS
<1>3. PICK j \in Bad : \A k \in Bad : j <= k
  <2>1. Bad \subseteq Nat
    OBVIOUS
  <2> HIDE DEF Bad
  <2>2. QED BY <1>2, <2>1, LeastNat
<1>4. j \in 0 .. m /\ i <= j /\ ~(S[i] <= S[j])
  OBVIOUS
<1>5. i # j
  BY <1>4
<1>6. PICK k \in 0 .. m - 1 : j = k + 1 /\ ~(j <= k) /\ i <= k /\ k \in 0 .. m
  <2>1. /\ j - 1 \in 0 .. m - 1 /\ j = (j - 1) + 1 /\ ~(j <= j - 1)
        /\ i <= j - 1 /\ j - 1 \in 0 .. m
    BY <1>4, <1>5
  <2>2. QED BY <2>1
<1>7. S[i] <= S[k]
  <2>1. k \notin Bad
    <3> HIDE DEF Bad
    <3>1. QED BY <1>3, <1>6
  <2>2. QED BY <1>6, <2>1
<1>8. S[j] = S[k] + f[k] /\ f[k] \in Nat /\ S[k] \in Nat /\ S[j] \in Nat /\ S[i] \in Nat
  BY <1>4, <1>6
<1>9. QED BY <1>4, <1>7, <1>8

\* The members of a finite set of indexes, by how many are below.
Rank(D, x) == Cardinality(Below(D, x))

LEMMA NthIs ==
  ASSUME NEW n \in Nat, NEW D, UpTo(D, n)
  PROVE  /\ Cardinality(D) \in Nat
         /\ \A i \in 0 .. Cardinality(D) - 1 : Nth(D, i) \in D /\ Rank(D, Nth(D, i)) = i
         /\ \A x \in D : Rank(D, x) \in 0 .. Cardinality(D) - 1 /\ Nth(D, Rank(D, x)) = x
<1>1. PICK m \in Nat : m = Cardinality(D)
  BY Ascending
<1>2. /\ \A x \in D : Rank(D, x) \in 0 .. m - 1
      /\ \A x, y \in D : x # y => Rank(D, x) # Rank(D, y)
      /\ \A i \in 0 .. m - 1 : \E x \in D : Rank(D, x) = i
  BY <1>1, Ascending DEF Rank
<1>3. \A i : Nth(D, i) = CHOOSE x \in D : Rank(D, x) = i
  BY Zenon DEF Nth, Rank, Below
<1>4. ASSUME NEW i \in 0 .. m - 1 PROVE Nth(D, i) \in D /\ Rank(D, Nth(D, i)) = i
  BY <1>2, <1>3
<1>5. ASSUME NEW x \in D PROVE Nth(D, Rank(D, x)) = x
  <2>1. PICK i \in 0 .. m - 1 : i = Rank(D, x)
    BY <1>2
  <2>2. Nth(D, i) \in D /\ Rank(D, Nth(D, i)) = i
    BY <1>4
  <2>3. QED BY <1>2, <2>1, <2>2
<1>6. QED BY <1>1, <1>2, <1>4, <1>5

-----------------------------------------------------------------------------
(* Where the particles of a cell are.                                      *)

\* g is an order of all of S by cell.
ByCell(n, S, g, T, K) ==
  /\ g \in [0 .. n - 1 -> S] /\ K \in [S -> 0 .. T - 1]
  /\ \A p \in S : \E i \in 0 .. n - 1 : g[i] = p
  /\ \A i, j \in 0 .. n - 1 : i # j => g[i] # g[j]
  /\ \A i, j \in 0 .. n - 1 : i < j => K[g[i]] <= K[g[j]]

\* In it, the particles of the cells below c come first.
LEMMA BelowFirst ==
  ASSUME NEW n \in Nat, NEW S, NEW g, NEW T \in Nat, NEW K, ByCell(n, S, g, T, K), NEW c \in Nat
  PROVE  \A i \in 0 .. n - 1 : K[g[i]] < c <=> i < Cardinality(Under(S, K, c))
<1>0. /\ g \in [0 .. n - 1 -> S] /\ K \in [S -> 0 .. T - 1]
      /\ \A p \in S : \E i \in 0 .. n - 1 : g[i] = p
      /\ \A i, j \in 0 .. n - 1 : i # j => g[i] # g[j]
      /\ \A i, j \in 0 .. n - 1 : i < j => K[g[i]] <= K[g[j]]
  BY DEF ByCell
<1> DEFINE D == {i \in 0 .. n - 1 : K[g[i]] < c}
<1>1. PICK m \in Nat : IsFiniteSet(D) /\ m = Cardinality(D)
  <2>1. IsFiniteSet(0 .. n - 1) /\ D \in SUBSET (0 .. n - 1)
    BY FS_Interval
  <2>2. IsFiniteSet(D)
    BY <2>1, FS_Subset
  <2>3. QED BY <2>2, FS_CardinalityType
<1>2. Cardinality(Under(S, K, c)) = m
  <2>1. PICK f : f = [i \in D |-> g[i]]
    OBVIOUS
  <2>2. f \in Surjection(D, Under(S, K, c))
    <3>1. f \in [D -> Under(S, K, c)]
      BY <1>0, <2>1 DEF Under
    <3>2. ASSUME NEW p \in Under(S, K, c) PROVE \E i \in D : f[i] = p
      <4>1. p \in S /\ K[p] < c
        BY DEF Under
      <4>2. PICK i \in 0 .. n - 1 : g[i] = p
        BY <1>0, <4>1
      <4>3. i \in D
        BY <4>1, <4>2
      <4>4. QED BY <2>1, <4>2, <4>3
    <3>3. QED BY <3>1, <3>2 DEF Surjection
  <2>3. f \in Injection(D, Under(S, K, c))
    <3>1. f \in [D -> Under(S, K, c)]
      BY <2>2 DEF Surjection
    <3>2. \A i, j \in D : f[i] = f[j] => i = j
      BY <1>0, <2>1
    <3> HIDE DEF D
    <3>3. QED BY <3>1, <3>2 DEF Injection, IsInjective
  <2>4. QED BY <1>1, <2>2, <2>3, FS_Surjection
<1>3. ASSUME NEW i \in 0 .. n - 1, i \in D PROVE i < m
  <2>1. \A j \in 0 .. i : j \in D
    <3>1. SUFFICES ASSUME NEW j \in 0 .. i, j # i PROVE j \in D
      BY <1>3
    <3>2. j \in 0 .. n - 1 /\ j < i
      BY <1>3, <3>1
    <3>3. K[g[j]] <= K[g[i]] /\ K[g[j]] \in Int /\ K[g[i]] \in Int
      BY <1>0, <3>2
    <3>4. QED BY <1>3, <3>2, <3>3
  <2>2. PICK a \in Int, b \in Int : a = 0 /\ b = i
    OBVIOUS
  <2>3. IsFiniteSet(a .. b) /\ Cardinality(a .. b) = IF a > b THEN 0 ELSE b - a + 1
    BY FS_Interval
  <2>4. (a .. b) \in SUBSET D
    <3> HIDE DEF D
    <3>1. QED BY <2>1, <2>2
  <2>5. Cardinality(a .. b) <= m
    <3> HIDE DEF D
    <3>1. QED BY <1>1, <2>4, FS_Subset
  <2>6. Cardinality(a .. b) = i + 1
    BY <2>2, <2>3
  <2>7. QED BY <2>5, <2>6
<1>4. ASSUME NEW i \in 0 .. n - 1, i \notin D PROVE ~(i < m)
  <2>1. \A j \in D : j \in 0 .. i - 1
    <3>1. SUFFICES ASSUME NEW j \in D PROVE j < i
      OBVIOUS
    <3>2. SUFFICES ASSUME i < j PROVE FALSE
      BY <1>4, <3>1
    <3>3. K[g[i]] <= K[g[j]] /\ K[g[j]] < c /\ K[g[j]] \in Int /\ K[g[i]] \in Int
      BY <1>0, <3>2
    <3>4. QED BY <1>4, <3>3
  <2>2. PICK a \in Int, b \in Int : a = 0 /\ b = i - 1
    OBVIOUS
  <2>3. IsFiniteSet(a .. b) /\ Cardinality(a .. b) = IF a > b THEN 0 ELSE b - a + 1
    BY FS_Interval
  <2>4. D \in SUBSET (a .. b)
    <3> HIDE DEF D
    <3>1. QED BY <2>1, <2>2
  <2>5. m <= Cardinality(a .. b)
    <3> HIDE DEF D
    <3>1. QED BY <1>1, <2>3, <2>4, FS_Subset
  <2>6. Cardinality(a .. b) = i
    BY <2>2, <2>3
  <2>7. QED BY <2>5, <2>6
<1>5. QED BY <1>2, <1>3, <1>4

\* The first sorted index of the cell c.
Start(c) == Cardinality(Under(InRange, Cid, c))

LEMMA StartIs ==
  ASSUME Typed
  PROVE  /\ \A c \in Nat : Start(c) \in Nat /\ Start(c) <= N /\ Start(c) <= Start(c + 1)
         /\ Start(NCell) = N
<1>1. PICK S, n : S = InRange /\ n = NCell
  OBVIOUS
<1>2. PICK K : K = Cid
  OBVIOUS
<1>3. n \in Nat /\ IsFiniteSet(S) /\ Cardinality(S) = N /\ K \in [S -> 0 .. n - 1]
  BY <1>1, <1>2, RangeIs
<1>4. \A c : Start(c) = Cardinality(Under(S, K, c))
  BY <1>1, <1>2, Zenon DEF Start
<1>5. \A c \in Nat : Start(c) \in Nat /\ Start(c) <= N
  BY <1>3, <1>4, CellsCount
<1>6. ASSUME NEW c \in Nat PROVE Start(c) <= Start(c + 1)
  <2>1. /\ Cardinality(Under(S, K, c + 1)) = Cardinality(Under(S, K, c)) + Cardinality(On(S, K, c))
        /\ Cardinality(On(S, K, c)) \in Nat
    BY <1>3, CellsCount
  <2>2. QED BY <1>4, <1>5, <2>1
<1>7. Start(n) = N
  <2>1. Under(S, K, n) = S
    BY <1>3 DEF Under
  <2>2. QED BY <1>3, <1>4, <2>1
<1>8. QED BY <1>1, <1>5, <1>6, <1>7

\* The cell of a sorted index.
CellAt(i) == Cid[sorted_to_not_sorted[i]]

LEMMA SortedIs ==
  ASSUME Typed, SortedByCell
  PROVE  /\ \A i \in SortedIds : sorted_to_not_sorted[i] \in InRange /\ CellAt(i) \in 0 .. NCell - 1
         /\ \A p \in InRange : \E i \in SortedIds : sorted_to_not_sorted[i] = p
         /\ \A i, j \in SortedIds : i # j => sorted_to_not_sorted[i] # sorted_to_not_sorted[j]
         /\ \A i, j \in SortedIds : i < j => CellAt(i) <= CellAt(j)
<1>1. /\ {sorted_to_not_sorted[i] : i \in SortedIds} = InRange
      /\ \A i \in SortedIds : /\ non_sorted_to_sorted[sorted_to_not_sorted[i]] = i
                              /\ pl_out[i] = Particle(sorted_to_not_sorted[i])
      /\ \A i, j \in SortedIds : i < j => GetCid(geo, pl_out[i]) <= GetCid(geo, pl_out[j])
  BY DEF SortedByCell
<1>2. \A i \in SortedIds : sorted_to_not_sorted[i] \in InRange
  BY <1>1
<1>3. \A i \in SortedIds : CellAt(i) = GetCid(geo, pl_out[i])
  BY <1>1, <1>2 DEF CellAt, Cid
<1>4. \A i \in SortedIds : CellAt(i) \in 0 .. NCell - 1
  <2>1. Cid \in [InRange -> 0 .. NCell - 1]
    BY RangeIs
  <2>2. QED BY <1>2, <2>1 DEF CellAt
<1>5. \A p \in InRange : \E i \in SortedIds : sorted_to_not_sorted[i] = p
  BY <1>1
<1>6. \A i, j \in SortedIds : i # j => sorted_to_not_sorted[i] # sorted_to_not_sorted[j]
  BY <1>1
<1>7. \A i, j \in SortedIds : i < j => CellAt(i) <= CellAt(j)
  BY <1>1, <1>3
<1>8. QED BY <1>2, <1>4, <1>5, <1>6, <1>7

LEMMA CellBegins ==
  ASSUME Typed, SortedByCell
  PROVE  \A c \in Nat : \A i \in SortedIds : CellAt(i) < c <=> i < Start(c)
<1>1. PICK n \in Nat : n = N
  BY RangeIs
<1>2. PICK S, T : S = InRange /\ T = NCell
  OBVIOUS
<1>3. PICK K : K = Cid
  OBVIOUS
<1>4. PICK g : g = [i \in 0 .. n - 1 |-> sorted_to_not_sorted[i]]
  OBVIOUS
<1>5. T \in Nat /\ K \in [S -> 0 .. T - 1]
  BY <1>2, <1>3, RangeIs
<1>6. SortedIds = 0 .. n - 1
  BY <1>1 DEF SortedIds
<1>7. \A i \in 0 .. n - 1 : K[g[i]] = CellAt(i)
  BY <1>3, <1>4 DEF CellAt
<1>8. /\ g \in [0 .. n - 1 -> S]
      /\ \A p \in S : \E i \in 0 .. n - 1 : g[i] = p
      /\ \A i, j \in 0 .. n - 1 : i # j => g[i] # g[j]
  BY <1>2, <1>4, <1>6, SortedIs
<1>9. \A i, j \in 0 .. n - 1 : i < j => K[g[i]] <= K[g[j]]
  BY <1>6, <1>7, SortedIs
<1>10. ASSUME NEW c \in Nat
       PROVE  \A i \in 0 .. n - 1 : K[g[i]] < c <=> i < Cardinality(Under(S, K, c))
  <2>1. ByCell(n, S, g, T, K)
    BY <1>5, <1>8, <1>9 DEF ByCell
  <2>2. QED BY <1>5, <2>1, BelowFirst
<1>11. \A c : Start(c) = Cardinality(Under(S, K, c))
  BY <1>2, <1>3, Zenon DEF Start
<1>12. QED BY <1>6, <1>7, <1>10, <1>11

\* So the particles of a cell are those from its first index to before the
\* first of the next cell.
LEMMA CellHas ==
  ASSUME Typed, SortedByCell, NEW c \in Nat
  PROVE  /\ From(Start(c), Start(c + 1)) \in Seq(Nat)
         /\ Once(From(Start(c), Start(c + 1)))
         /\ \A x : Has(From(Start(c), Start(c + 1)), x) <=> x \in SortedIds /\ CellAt(x) = c
<1>1. PICK a \in Nat, b \in Nat : a = Start(c) /\ b = Start(c + 1) /\ a <= b /\ b <= N
  BY StartIs
<1>2. From(a, b) \in Seq(Nat) /\ Once(From(a, b)) /\ \A x : Has(From(a, b), x) <=> x \in a .. b - 1
  BY <1>1, FromOnce
<1>3. ASSUME NEW x PROVE x \in a .. b - 1 <=> x \in SortedIds /\ CellAt(x) = c
  <2>1. x \in a .. b - 1 => x \in SortedIds
    <3>1. N \in Nat
      BY RangeIs
    <3>2. QED BY <1>1, <3>1 DEF SortedIds
  <2>2. ASSUME x \in SortedIds PROVE x \in a .. b - 1 <=> CellAt(x) = c
    <3>1. (CellAt(x) < c <=> x < a) /\ (CellAt(x) < c + 1 <=> x < b)
      <4>1. c + 1 \in Nat
        OBVIOUS
      <4>2. QED BY <1>1, <2>2, <4>1, CellBegins
    <3>2. CellAt(x) \in Int
      <4>1. NCell \in Nat /\ CellAt(x) \in 0 .. NCell - 1
        BY <2>2, RangeIs, SortedIs
      <4>2. QED BY <4>1
    <3>3. x \in Int
      BY <2>2, RangeIs DEF SortedIds
    <3>4. QED BY <3>1, <3>2, <3>3
  <2>3. QED BY <2>1, <2>2
<1>4. QED BY <1>1, <1>2, <1>3

-----------------------------------------------------------------------------
(* Near points are in near cells.                                          *)

\* In one dimension: how far apart the cells of two points at distance d are,
\* when d is within r.
StepBound(u, d, k, r) == k \in -Ceil(r, u) .. Ceil(r, u) /\ Gap(k, u) \in Nat /\ Gap(k, u) <= d

LEMMA MultipleMod ==
  ASSUME NEW m \in Int, NEW u \in Nat \ {0}
  PROVE  (u * m) % u = 0
<1>1. PICK c \in Int : c = u * m
  BY SMT
<1>2. PICK q \in Int, r \in 0 .. u - 1 : q = c \div u /\ r = c % u /\ c = u * q + r
  BY SMT
<1>3. u * q \in Int /\ u * (q + 1) = u * q + u /\ u * (m + 1) = u * m + u /\ q + 1 \in Int /\ m + 1 \in Int
  BY SMT
<1>4. m < q + 1
  BY <1>1, <1>2, <1>3, TimesCancels
<1>5. q < m + 1
  BY <1>1, <1>2, <1>3, TimesCancels
<1>6. q = m
  BY <1>4, <1>5
<1>7. QED BY <1>1, <1>2, <1>6

LEMMA FloorStep ==
  ASSUME NEW u \in Nat \ {0}, NEW x \in Nat, NEW y \in Int, NEW d \in Nat, NEW r \in Nat,
         x - y <= d, y - x <= d, d <= r,
         y < 0 /\ (-y) % u = 0 => d < r
  PROVE  StepBound(u, d, SizeTFloor(y, u) - SizeTFloor(x, u), r)
<1>0. x \in Int
  BY SMT
<1>1. PICK i \in Int, j \in Int : i = SizeTFloor(x, u) /\ j = SizeTFloor(y, u)
  BY <1>0, FloorBounds
<1>2. /\ u * i \in Int /\ u * j \in Int
      /\ u * i <= x /\ x < u * i + u
      /\ u * j <= y /\ y <= u * j + u /\ (y >= 0 => y < u * j + u)
  <2>1. u * i \in Int /\ u * j \in Int
    BY SMT
  <2>2. u * i <= x /\ x < u * i + u
    BY <1>0, <1>1, FloorBounds
  <2>3. u * j <= y /\ y <= u * j + u /\ (y >= 0 => y < u * j + u)
    BY <1>1, FloorBounds
  <2>4. QED BY <2>1, <2>2, <2>3
<1>3. PICK C \in Int : C = Ceil(r, u) /\ r <= u * C /\ u * C \in Int
  <2>1. r \in Int
    BY SMT
  <2>2. PICK C \in Int : C = Ceil(r, u) /\ r <= u * C
    BY <2>1, CeilBounds
  <2>3. u * C \in Int
    BY SMT
  <2>4. QED BY <2>2, <2>3
<1>4. u * (-1) < u * C
  BY <1>3, SMT
<1>5. -1 < C
  BY <1>3, <1>4, TimesCancels
<1>6. PICK k \in Int : k = j - i
  BY SMT
<1>7. u * k = u * j - u * i /\ u * (-k) = u * i - u * j /\ u * k \in Int
  <2>1. u * (j - i) = u * j - u * i /\ u * (i - j) = u * i - u * j
    BY TimesSum
  <2>2. -k = i - j
    BY <1>6, SMT
  <2>3. QED BY <1>2, <1>6, <2>1, <2>2
<1>8. CASE k > 0
  <2>1. Gap(k, u) = u * (k - 1) /\ u * (k - 1) = u * k - u /\ u * (k - 1) \in Nat
    BY <1>8, SMT DEF Gap
  <2>2. u * (k - 1) < y - x
    BY <1>2, <1>7, <2>1, SMT
  <2>3. u * (k - 1) < u * C
    BY <1>3, <2>1, <2>2, SMT
  <2>4. k - 1 < C
    <3>1. k - 1 \in Int
      BY SMT
    <3>2. QED BY <1>3, <2>3, <3>1, TimesCancels
  <2>5. Gap(k, u) \in Nat /\ Gap(k, u) <= d
    BY <2>1, <2>2, SMT
  <2>6. QED BY <1>1, <1>3, <1>6, <1>8, <2>4, <2>5, SMT DEF StepBound
<1>9. CASE k < 0
  <2>1. Gap(k, u) = u * (-k - 1) /\ u * (-k - 1) = u * (-k) - u /\ u * (-k - 1) \in Nat
    BY <1>9, SMT DEF Gap
  <2>2. u * (-k - 1) <= x - y
    BY <1>2, <1>7, <2>1, SMT
  <2>3. u * (-k - 1) < u * C
    <3>1. CASE d < r
      BY <1>3, <2>1, <2>2, <3>1, SMT
    <3>2. CASE ~(d < r)
      <4>1. y # u * j + u
        <5>1. ASSUME y = u * j + u PROVE FALSE
          <6>1. y < 0
            BY <1>2, <5>1, SMT
          <6>2. -y = u * (-j - 1) /\ -j - 1 \in Int
            BY <1>2, <5>1, SMT
          <6>3. (u * (-j - 1)) % u = 0
            BY <6>2, MultipleMod
          <6>4. QED BY <3>2, <6>1, <6>2, <6>3
        <5>2. QED BY <5>1
      <4>2. u * (-k - 1) < x - y
        BY <1>2, <1>7, <2>1, <4>1, SMT
      <4>3. QED BY <1>3, <2>1, <4>2, SMT
    <3>3. QED BY <3>1, <3>2
  <2>4. -k - 1 < C
    <3>1. -k - 1 \in Int
      BY SMT
    <3>2. QED BY <1>3, <2>3, <3>1, TimesCancels
  <2>5. Gap(k, u) \in Nat /\ Gap(k, u) <= d
    BY <2>1, <2>2, SMT
  <2>6. QED BY <1>1, <1>3, <1>6, <1>9, <2>4, <2>5, SMT DEF StepBound
<1>10. CASE k = 0
  <2>1. Gap(k, u) = 0
    BY <1>10, SMT DEF Gap
  <2>2. QED BY <1>1, <1>3, <1>5, <1>6, <1>10, <2>1, SMT DEF StepBound
<1>11. QED BY <1>8, <1>9, <1>10, SMT

\* The step between the cells of two points.
KeyStep(p, q, s) == GetCidKey(geo, q)[s] - GetCidKey(geo, p)[s]

LEMMA DistanceIs ==
  ASSUME NEW p \in Int \X Int, NEW q \in Int \X Int, NEW s \in Dims
  PROVE  /\ p[s] \in Int /\ q[s] \in Int /\ Distance(p, q, s) \in Nat
         /\ p[s] - q[s] <= Distance(p, q, s) /\ q[s] - p[s] <= Distance(p, q, s)
<1>1. p[s] \in Int /\ q[s] \in Int
  BY TwoDims
<1>2. QED BY <1>1, SMT DEF Distance

LEMMA KeyStepIs ==
  ASSUME Typed, NEW p \in Int \X Int, NEW q \in Int \X Int, NEW s \in Dims
  PROVE  GetCidKey(geo, p)[s] \in Int /\ GetCidKey(geo, q)[s] \in Int /\ KeyStep(p, q, s) \in Int
<1>1. PICK u \in Nat \ {0}, l \in Int, o \in Nat : u = geo.unit[s] /\ l = geo.low[s] /\ o = geo.off
  BY GridIs DEF Typed
<1>2. p[s] - l \in Int /\ q[s] - l \in Int
  BY DistanceIs
<1>3. SizeTFloor(p[s] - l, u) \in Int /\ SizeTFloor(q[s] - l, u) \in Int
  BY <1>2, FloorBounds
<1>4. /\ GetCidKey(geo, p)[s] = SizeTFloor(p[s] - l, u) + o
      /\ GetCidKey(geo, q)[s] = SizeTFloor(q[s] - l, u) + o
  BY <1>1 DEF GetCidKey
<1>5. QED BY <1>3, <1>4, SMT DEF KeyStep

LEMMA KeysNear ==
  ASSUME Typed, NEW p \in Int \X Int, NEW q \in Int \X Int, InDomain(p), NEW s \in Dims,
         NEW r \in Nat, Distance(p, q, s) <= r, Lowered(q) => Distance(p, q, s) < r
  PROVE  StepBound(geo.unit[s], Distance(p, q, s), KeyStep(p, q, s), r)
<1>1. PICK u \in Nat \ {0}, l \in Int, o \in Nat : u = geo.unit[s] /\ l = geo.low[s] /\ o = geo.off
  BY GridIs DEF Typed
<1>2. PICK x \in Int, y \in Int : x = p[s] - l /\ y = q[s] - l
  BY DistanceIs, SMT
<1>3. PICK d \in Nat : d = Distance(p, q, s) /\ x - y <= d /\ y - x <= d
  BY <1>2, DistanceIs, SMT
<1>4. x \in Nat
  <2>1. l <= p[s] /\ p[s] \in Int
    BY <1>1, DistanceIs DEF InDomain
  <2>2. QED BY <1>2, <2>1, SMT
<1>5. y < 0 /\ (-y) % u = 0 => d < r
  <2>1. SUFFICES ASSUME y < 0, (-y) % u = 0 PROVE d < r
    OBVIOUS
  <2>2. q[s] \in Int /\ -y = l - q[s] /\ q[s] < l
    BY <1>2, <2>1, DistanceIs, SMT
  <2>3. q[s] < geo.low[s] /\ (geo.low[s] - q[s]) % geo.unit[s] = 0
    BY <1>1, <2>1, <2>2
  <2>4. Lowered(q)
    BY <2>3 DEF Lowered
  <2>5. QED BY <1>3, <2>4
<1>6. d <= r
  BY <1>3
<1>7. StepBound(u, d, SizeTFloor(y, u) - SizeTFloor(x, u), r)
  BY <1>3, <1>4, <1>5, <1>6, FloorStep
<1>8. KeyStep(p, q, s) = SizeTFloor(y, u) - SizeTFloor(x, u)
  <2>1. PICK a \in Int, b \in Int : a = SizeTFloor(x, u) /\ b = SizeTFloor(y, u)
    BY FloorBounds
  <2>2. GetCidKey(geo, p)[s] = a + o /\ GetCidKey(geo, q)[s] = b + o
    BY <1>1, <1>2, <2>1 DEF GetCidKey
  <2>3. QED BY <2>1, <2>2, SMT DEF KeyStep
<1>9. QED BY <1>1, <1>3, <1>7, <1>8

\* Ids differ by the offset of the step.
LEMMA IdStep ==
  ASSUME Typed, NEW p \in Int \X Int, NEW q \in Int \X Int
  PROVE  /\ LinId(Size(geo, 1), GetCidKey(geo, p)) \in Int
         /\ GetCid(geo, q) - LinId(Size(geo, 1), GetCidKey(geo, p))
              = KeyStep(p, q, 1) + Size(geo, 1) * KeyStep(p, q, 2)
<1>1. PICK w \in Nat : w = Size(geo, 1)
  BY TwoDims, GridIs DEF Typed
<1>2. PICK a \in Int, b \in Int : a = GetCidKey(geo, p)[1] /\ b = GetCidKey(geo, p)[2]
  BY TwoDims, KeyStepIs
<1>3. PICK c \in Int, d \in Int : c = GetCidKey(geo, q)[1] /\ d = GetCidKey(geo, q)[2]
  BY TwoDims, KeyStepIs
<1>4. a + w * b \in Int /\ (c + w * d) - (a + w * b) = (c - a) + w * (d - b)
  BY SMT
<1>5. QED BY <1>1, <1>2, <1>3, <1>4 DEF GetCid, LinId, KeyStep

\* The offsets of the box of nine cells: all different, and all there.
LEMMA BoxOffsets ==
  ASSUME NEW g \in Geometries
  PROVE  /\ \A k \in 1 .. 9 : NNOffset(g, 1, k - 1) \in Int
         /\ \A k, l \in 1 .. 9 : NNOffset(g, 1, k - 1) = NNOffset(g, 1, l - 1) => k = l
         /\ \A a, b \in -1 .. 1 : \E k \in 1 .. 9 : NNOffset(g, 1, k - 1) = a + Size(g, 1) * b
<1>1. PICK w \in Nat : w = Size(g, 1) /\ w >= 3
  BY GridIs, TwoDims
<1>2. PICK X, Y : X = [k \in 1 .. 9 |-> ((k - 1) % 3) - 1] /\ Y = [k \in 1 .. 9 |-> ((k - 1) \div 3) - 1]
  OBVIOUS
<1>3. ASSUME NEW k \in 1 .. 9
      PROVE  X[k] \in -1 .. 1 /\ Y[k] \in -1 .. 1 /\ k = (X[k] + 1) + 3 * (Y[k] + 1) + 1
  BY <1>2
<1>4. ASSUME NEW k \in 1 .. 9 PROVE NNOffset(g, 1, k - 1) = X[k] + w * Y[k]
  <2>1. NNOffset(g, 1, k - 1) = LinId(w, <<((k - 1) % 3) - 1, ((k - 1) \div 3) - 1>>)
    BY <1>1 DEF NNOffset
  <2>2. QED BY <1>2, <2>1 DEF LinId
<1>5. ASSUME NEW y \in -1 .. 1
      PROVE  /\ y = -1 => w * y = -w
             /\ y = 0 => w * y = 0
             /\ y = 1 => w * y = w
  BY SMT
<1>6. \A k \in 1 .. 9 : X[k] + w * Y[k] \in Int
  BY <1>3, <1>5
<1>7. ASSUME NEW k \in 1 .. 9, NEW l \in 1 .. 9, X[k] + w * Y[k] = X[l] + w * Y[l]
      PROVE  k = l
  <2>1. PICK a \in -1 .. 1, b \in -1 .. 1 : a = X[k] /\ b = Y[k]
    BY <1>3
  <2>2. PICK c \in -1 .. 1, d \in -1 .. 1 : c = X[l] /\ d = Y[l]
    BY <1>3
  <2>3. PICK e \in Int, f \in Int : e = w * b /\ f = w * d
    BY <1>5
  <2>4. a + e = c + f
    BY <1>7, <2>1, <2>2, <2>3
  <2>7. (b = -1 /\ e = -w) \/ (b = 0 /\ e = 0) \/ (b = 1 /\ e = w)
    <3>1. b = -1 \/ b = 0 \/ b = 1
      OBVIOUS
    <3>2. QED BY <1>5, <2>3, <3>1
  <2>8. (d = -1 /\ f = -w) \/ (d = 0 /\ f = 0) \/ (d = 1 /\ f = w)
    <3>1. d = -1 \/ d = 0 \/ d = 1
      OBVIOUS
    <3>2. QED BY <1>5, <2>3, <3>1
  <2>5. a = c /\ b = d
    BY <1>1, <2>4, <2>7, <2>8
  <2>6. QED BY <1>3, <2>1, <2>2, <2>5
<1>8. ASSUME NEW a \in -1 .. 1, NEW b \in -1 .. 1
      PROVE  \E k \in 1 .. 9 : X[k] + w * Y[k] = a + w * b
  <2>1. PICK k \in 1 .. 9 : k = (a + 1) + 3 * (b + 1) + 1
    OBVIOUS
  <2>2. X[k] = a /\ Y[k] = b
    BY <1>3, <2>1
  <2>3. QED BY <2>2
<1>9. QED BY <1>1, <1>4, <1>6, <1>7, <1>8

\* A particle within one side of a cell is in the box of nine.
LEMMA NearInBox ==
  ASSUME Typed, NEW p \in Int \X Int, NEW q \in Int \X Int, InDomain(p), NearCell(p, q)
  PROVE  \E k \in 1 .. 9 :
           GetCid(geo, q) = LinId(Size(geo, 1), GetCidKey(geo, p)) + NNOffset(geo, 1, k - 1)
<1>1. ASSUME NEW s \in Dims PROVE KeyStep(p, q, s) \in -1 .. 1
  <2>1. PICK u \in Nat \ {0} : u = geo.unit[s]
    BY GridIs DEF Typed
  <2>2. PICK d \in Nat : d = Distance(p, q, s)
    BY DistanceIs
  <2>3. d <= u /\ (Lowered(q) => d < u)
    BY <2>1, <2>2 DEF NearCell, Within
  <2>4. StepBound(u, d, KeyStep(p, q, s), u)
    BY <2>1, <2>2, <2>3, KeysNear
  <2>5. PICK C \in Int : C = Ceil(u, u) /\ u * C < u + u /\ u * C \in Int
    <3>1. u \in Int
      BY SMT
    <3>2. PICK C \in Int : C = Ceil(u, u) /\ u * C < u + u
      BY <3>1, CeilBounds
    <3>3. u * C \in Int
      BY SMT
    <3>4. QED BY <3>2, <3>3
  <2>6. u * C < u * 2
    BY <2>5, SMT
  <2>7. C < 2
    BY <2>5, <2>6, TimesCancels
  <2>8. KeyStep(p, q, s) \in -C .. C
    BY <2>4, <2>5 DEF StepBound
  <2>9. PICK j \in Int : j = KeyStep(p, q, s) /\ -C <= j /\ j <= C
    BY <2>5, <2>8, KeyStepIs
  <2>10. j \in -1 .. 1
    BY <2>5, <2>7, <2>9, SMT
  <2>11. QED BY <2>9, <2>10
<1>2. PICK a \in -1 .. 1, b \in -1 .. 1 : a = KeyStep(p, q, 1) /\ b = KeyStep(p, q, 2)
  BY <1>1, TwoDims
<1>3. PICK k \in 1 .. 9 : NNOffset(geo, 1, k - 1) = a + Size(geo, 1) * b
  BY BoxOffsets DEF Typed
<1>4. PICK c \in Int, m \in Int : c = LinId(Size(geo, 1), GetCidKey(geo, p)) /\ m = NNOffset(geo, 1, k - 1)
  BY IdStep, BoxOffsets DEF Typed
<1>5. GetCid(geo, q) - c = m
  BY <1>2, <1>3, <1>4, IdStep
<1>6. GetCid(geo, q) \in Int
  <2>1. PICK w \in Nat : w = Size(geo, 1)
    BY TwoDims, GridIs DEF Typed
  <2>2. PICK x \in Int, y \in Int : x = GetCidKey(geo, q)[1] /\ y = GetCidKey(geo, q)[2]
    BY TwoDims, KeyStepIs
  <2>3. x + w * y \in Int
    BY SMT
  <2>4. QED BY <2>1, <2>2, <2>3 DEF GetCid, LinId
<1>7. GetCid(geo, q) = c + m
  BY <1>5, <1>6
<1>8. QED BY <1>4, <1>7

\* A particle within the radius is at one of its offsets.
LEMMA NearInRadius ==
  ASSUME Typed, NEW p \in Int \X Int, NEW q \in Int \X Int, InDomain(p),
         radius \in Nat, NearRadius(p, q)
  PROVE  GetCid(geo, q) - LinId(Size(geo, 1), GetCidKey(geo, p)) \in NNcalcRad(geo, radius)
<1>1. PICK r \in Nat : r = radius
  OBVIOUS
<1>2. PICK a \in Nat, b \in Nat : a = Distance(p, q, 1) /\ b = Distance(p, q, 2)
  BY DistanceIs, TwoDims
<1>3. /\ a * a + b * b <= r * r
      /\ Lowered(q) => a * a + b * b < r * r
      /\ a * a \in Nat /\ b * b \in Nat /\ r * r \in Nat
  <2>1. a * a \in Nat /\ b * b \in Nat /\ r * r \in Nat
    BY SMT
  <2>2. Within(q, a * a + b * b, r * r)
    BY <1>1, <1>2 DEF NearRadius, SquaredNorm
  <2>3. QED BY <2>1, <2>2 DEF Within
<1>4. ASSUME NEW d \in Nat, d * d <= r * r, Lowered(q) => d * d < r * r
      PROVE  d <= r /\ (Lowered(q) => d < r)
  <2>1. ASSUME r < d PROVE FALSE
    <3>1. r + 1 \in Nat /\ r + 1 <= d
      BY <2>1
    <3>2. (r + 1) * (r + 1) <= d * d
      BY <3>1, SquareGrows
    <3>3. (r + 1) * (r + 1) = r * r + r + r + 1 /\ r * r \in Nat /\ d * d \in Nat
      BY SMT
    <3>4. QED BY <1>4, <3>2, <3>3, SMT
  <2>2. Lowered(q) => d # r
    BY <1>3, <1>4
  <2>3. QED BY <2>1, <2>2
<1>5. a * a <= r * r /\ (Lowered(q) => a * a < r * r) /\ b * b <= r * r /\ (Lowered(q) => b * b < r * r)
  BY <1>3
<1>6. StepBound(geo.unit[1], a, KeyStep(p, q, 1), r) /\ StepBound(geo.unit[2], b, KeyStep(p, q, 2), r)
  <2>1. a <= r /\ (Lowered(q) => a < r) /\ b <= r /\ (Lowered(q) => b < r)
    BY <1>4, <1>5
  <2>2. QED BY <1>2, <2>1, KeysNear, TwoDims
<1>7. PICK k : k = <<KeyStep(p, q, 1), KeyStep(p, q, 2)>>
  OBVIOUS
<1>8. k \in (-Reach(geo, r, 1) .. Reach(geo, r, 1)) \X (-Reach(geo, r, 2) .. Reach(geo, r, 2))
  BY <1>6, <1>7 DEF StepBound, Reach
<1>9. SquaredNorm(Gap(k[1], geo.unit[1]), Gap(k[2], geo.unit[2])) <= r * r
  <2>1. PICK x \in Nat, y \in Nat : x = Gap(k[1], geo.unit[1]) /\ y = Gap(k[2], geo.unit[2]) /\ x <= a /\ y <= b
    BY <1>6, <1>7 DEF StepBound
  <2>2. x * x <= a * a /\ x * x \in Nat /\ y * y <= b * b /\ y * y \in Nat
    BY <2>1, SquareGrows
  <2>3. x * x + y * y <= r * r
    BY <1>3, <2>2
  <2>4. QED BY <2>1, <2>3 DEF SquaredNorm
<1>10. LinId(Size(geo, 1), k) \in NNcalcRad(geo, r)
  BY <1>8, <1>9, Zenon DEF NNcalcRad
<1>11. LinId(Size(geo, 1), k) = KeyStep(p, q, 1) + Size(geo, 1) * KeyStep(p, q, 2)
  BY <1>7 DEF LinId
<1>12. QED BY <1>1, <1>10, <1>11, IdStep

-----------------------------------------------------------------------------
(* What the iterators read besides starts: the offsets of the radius, and  *)
(* for a sparse list its cells and the lists of their neighbours.          *)

Occupied == {Cid[p] : p \in InRange}
Span(c) == <<Start(c), Start(c + 1)>>
FoundAt(c) == {k \in 1 .. 9 : c + NNTest(geo)[k] \in Occupied}

RadiusKept == radius # NoRadius => ~is_sparse /\ radius \in Nat /\ nnc_rad = NNcalcRad(geo, radius)

SparseMade == SparseCells = Occupied /\ \A c \in Occupied : cl_sparse[c] = Start(c)

Listed ==
  \A c \in Occupied :
    LET i == Rank(Occupied, c)
    IN  /\ cells_nn[i] \in Nat /\ cells_nn[i + 1] = cells_nn[i] + Cardinality(FoundAt(c))
        /\ \A j \in 0 .. Cardinality(FoundAt(c)) - 1 :
             cells_nn_list[cells_nn[i] + j] = Span(c + NNTest(geo)[Nth(FoundAt(c), j)])

HaveLists == {"neighbours", "reorder", "mark", "collect", "built"}
IterInv ==
  /\ RadiusKept
  /\ is_sparse /\ phase \in HaveLists \cup {"sorted"} => SparseMade
  /\ is_sparse /\ phase \in HaveLists => Listed

LEMMA OccupiedIs ==
  ASSUME Typed
  PROVE  UpTo(Occupied, NCell) /\ NCell \in Nat /\ \A c : UpTo(FoundAt(c), 10)
<1>1. NCell \in Nat /\ Cid \in [InRange -> 0 .. NCell - 1]
  BY RangeIs
<1>2. UpTo(Occupied, NCell)
  BY <1>1 DEF UpTo, Occupied
<1>3. \A c : UpTo(FoundAt(c), 10)
  BY DEF UpTo, FoundAt
<1>4. QED BY <1>1, <1>2, <1>3

\* b is the first of the cell c in an order g of all particles by cell.
IsFirst(n, g, K, c, b) ==
  /\ b \in 0 .. n - 1 /\ K[g[b]] = c /\ \A j \in 0 .. b - 1 : K[g[j]] # c
  /\ \A i \in 0 .. n - 1 : K[g[i]] = c /\ (\A j \in 0 .. i - 1 : K[g[j]] # c) => i = b

LEMMA FirstOf ==
  ASSUME NEW n \in Nat, NEW S, NEW g, NEW T \in Nat, NEW K, ByCell(n, S, g, T, K),
         NEW c \in Nat, NEW p \in S, K[p] = c,
         NEW b \in Nat, b = Cardinality(Under(S, K, c))
  PROVE  IsFirst(n, g, K, c, b)
<1>0. /\ g \in [0 .. n - 1 -> S] /\ K \in [S -> 0 .. T - 1]
      /\ \A q \in S : \E i \in 0 .. n - 1 : g[i] = q
      /\ \A i, j \in 0 .. n - 1 : i < j => K[g[i]] <= K[g[j]]
  BY DEF ByCell
<1>1. \A i \in 0 .. n - 1 : K[g[i]] < c <=> i < b
  <2>1. \A i \in 0 .. n - 1 : K[g[i]] < c <=> i < Cardinality(Under(S, K, c))
    BY BelowFirst
  <2>2. QED BY <2>1
<1>2. \A i \in 0 .. n - 1 : K[g[i]] \in Nat
  BY <1>0
<1>3. PICK h \in 0 .. n - 1 : K[g[h]] = c
  BY <1>0
<1>4. b <= h
  BY <1>1, <1>3
<1>5. b \in 0 .. n - 1
  BY <1>3, <1>4
<1>6. ~(K[g[b]] < c)
  BY <1>1, <1>5
<1>7. K[g[b]] <= c
  BY <1>0, <1>3, <1>4, <1>5
<1>8. K[g[b]] = c
  BY <1>2, <1>5, <1>6, <1>7
<1>9. \A j \in 0 .. b - 1 : K[g[j]] # c
  <2>1. ASSUME NEW j \in 0 .. b - 1 PROVE K[g[j]] < c /\ K[g[j]] \in Nat
    <3>1. j \in 0 .. n - 1 /\ j < b
      BY <1>5
    <3>2. QED BY <1>1, <1>2, <3>1
  <2>2. QED BY <2>1
<1>10. ASSUME NEW i \in 0 .. n - 1, K[g[i]] = c, \A j \in 0 .. i - 1 : K[g[j]] # c
       PROVE  i = b
  <2>1. ~(i < b)
    BY <1>1, <1>10
  <2>2. ~(b < i)
    <3>1. b < i => b \in 0 .. i - 1
      OBVIOUS
    <3>2. QED BY <1>8, <1>10, <3>1
  <2>3. QED BY <2>1, <2>2
<1>11. QED BY <1>5, <1>8, <1>9, <1>10 DEF IsFirst

LEMMA SortSparseMakes ==
  ASSUME IInv, SortSparse
  PROVE  SparseMade'
<1>1. /\ Typed /\ Kept /\ client' = client /\ After("subindex", "sorted") /\ starts' = starts
      /\ "subindex" \in Phases /\ "sorted" \in Phases /\ is_sparse
  BY DEF IInv, SortSparse, fixed, Kept, Phases
<1>2. phase = "subindex" /\ phase' = "sorted" /\ Seen = InRange
  BY <1>1, AfterStep
<1>3. /\ geo' = geo /\ is_sparse' = is_sparse /\ call' = call
      /\ N' = N /\ InRange' = InRange /\ Cid' = Cid /\ NCell' = NCell /\ SortedIds' = SortedIds
  BY <1>1, KeptIs
<1>4. Celled(InRange)
  BY <1>1, <1>2 DEF IInv, KernelInv
<1>5. IInv' /\ Sorted'
  BY <1>1, <1>2, <1>3, SortSparseKeeps DEF IInv, KernelInv
<1>6. call.start = 0 /\ InRange = SortedIds
  <2>1. call.start = 0
    BY <1>1 DEF Typed, GoodCall
  <2>2. InRange = 0 .. 0 + N - 1 /\ N \in Nat
    BY <1>1, <2>1, RangeIs
  <2>3. QED BY <2>1, <2>2 DEF SortedIds
<1>7. PICK n \in Nat, m \in Nat : n = N /\ m = NCell
  BY <1>1, RangeIs
<1>8. PICK S, K : S = InRange /\ K = Cid
  OBVIOUS
<1>9. S = 0 .. n - 1 /\ SortedIds = 0 .. n - 1 /\ K \in [S -> 0 .. m - 1]
  BY <1>1, <1>6, <1>7, <1>8, RangeIs DEF SortedIds
<1>10. DOMAIN starts = 0 .. n - 1 /\ \A i \in 0 .. n - 1 : starts[i] = K[i]
  BY <1>4, <1>6, <1>8, <1>9 DEF Celled
<1>11. PICK g : g = cells'
  OBVIOUS
<1>12. g \in [0 .. n - 1 -> 0 .. n - 1]
  BY <1>10, <1>11 DEF SortSparse, SortedBy
<1>13. /\ \A p \in S : \E i \in 0 .. n - 1 : g[i] = p
       /\ \A i, j \in 0 .. n - 1 : i < j => g[i] # g[j] /\ K[g[i]] <= K[g[j]]
  BY <1>3, <1>5, <1>8, <1>9, <1>11 DEF Sorted
<1>14. \A i, j \in 0 .. n - 1 : i # j => g[i] # g[j]
  <2>1. ASSUME NEW i \in 0 .. n - 1, NEW j \in 0 .. n - 1, i # j PROVE g[i] # g[j]
    <3>1. i < j \/ j < i
      BY <2>1
    <3>2. QED BY <1>13, <3>1
  <2>2. QED BY <2>1
<1>15. PICK Q : Q = cl_sparse'
  OBVIOUS
<1>16. Q = [c \in {starts[t] : t \in DOMAIN starts} |->
              CHOOSE i \in DOMAIN g : starts[g[i]] = c /\ \A j \in 0 .. i - 1 : starts[g[j]] # c]
  BY <1>11, <1>15 DEF SortSparse
<1>17. DOMAIN Q = Occupied
  BY <1>8, <1>9, <1>10, <1>16 DEF Occupied
<1>18. ASSUME NEW c \in Occupied PROVE Q[c] = Start(c)
  <2>1. PICK p \in S : K[p] = c
    BY <1>8 DEF Occupied
  <2>2. c \in Nat
    BY <1>9, <2>1
  <2>3. PICK b \in Nat : b = Start(c)
    BY <1>1, <2>2, StartIs
  <2>4. b = Cardinality(Under(S, K, c))
    BY <1>8, <2>3 DEF Start
  <2>5. /\ b \in 0 .. n - 1 /\ K[g[b]] = c /\ \A j \in 0 .. b - 1 : K[g[j]] # c
        /\ \A i \in 0 .. n - 1 : K[g[i]] = c /\ (\A j \in 0 .. i - 1 : K[g[j]] # c) => i = b
    <3>1. ByCell(n, S, g, m, K)
      BY <1>9, <1>12, <1>13, <1>14 DEF ByCell
    <3>2. IsFirst(n, g, K, c, b)
      BY <2>1, <2>2, <2>4, <3>1, FirstOf
    <3>3. QED BY <3>2 DEF IsFirst
  <2>6. ASSUME NEW i \in 0 .. n - 1
        PROVE  /\ starts[g[i]] = K[g[i]]
               /\ (\A j \in 0 .. i - 1 : starts[g[j]] # c) <=> (\A j \in 0 .. i - 1 : K[g[j]] # c)
    <3>1. \A j \in 0 .. i : j \in 0 .. n - 1 /\ starts[g[j]] = K[g[j]]
      BY <1>10, <1>12
    <3>2. \A j \in 0 .. i - 1 : j \in 0 .. i
      OBVIOUS
    <3>3. i \in 0 .. i
      OBVIOUS
    <3>4. QED BY <3>1, <3>2, <3>3
  <2>7. starts[g[b]] = c /\ \A j \in 0 .. b - 1 : starts[g[j]] # c
    BY <2>5, <2>6
  <2>8. \A i \in 0 .. n - 1 : starts[g[i]] = c /\ (\A j \in 0 .. i - 1 : starts[g[j]] # c) => i = b
    BY <2>5, <2>6
  <2>9. DOMAIN g = 0 .. n - 1
    BY <1>12
  <2>10. Q[c] = CHOOSE i \in 0 .. n - 1 : starts[g[i]] = c /\ \A j \in 0 .. i - 1 : starts[g[j]] # c
    BY <1>16, <1>17, <2>9
  <2>11. Q[c] = b
    BY <2>5, <2>7, <2>8, <2>10
  <2>12. QED BY <2>3, <2>11
<1>19. Occupied' = Occupied /\ \A c : Start(c)' = Start(c)
  BY <1>3 DEF Occupied, Start
<1>20. QED BY <1>15, <1>17, <1>18, <1>19 DEF SparseMade, SparseCells

\* The particles of a cell end where those of the next cell that has some
\* begin.
LEMMA StartSkips ==
  ASSUME Typed, NEW c \in Nat, NEW e \in Nat, c <= e,
         \A d \in Occupied : ~(c <= d /\ d < e)
  PROVE  Start(c) = Start(e)
<1>1. \A p \in InRange : Cid[p] \in Nat /\ Cid[p] \in Occupied
  <2>1. NCell \in Nat /\ Cid \in [InRange -> 0 .. NCell - 1]
    BY RangeIs
  <2>2. QED BY <2>1 DEF Occupied
<1>2. ASSUME NEW p \in InRange PROVE Cid[p] < c <=> Cid[p] < e
  BY <1>1
<1>3. Under(InRange, Cid, c) = Under(InRange, Cid, e)
  BY <1>2 DEF Under
<1>4. QED BY <1>3 DEF Start

LEMMA NextStartIs ==
  ASSUME Typed, SparseMade, DOMAIN cells = SortedIds, NEW c \in Occupied
  PROVE  NextStart(c) = Start(c + 1)
<1>1. Occupied \subseteq Nat /\ NCell \in Nat /\ \A d \in Occupied : d < NCell
  BY OccupiedIs DEF UpTo
<1>2. c \in Nat /\ c + 1 \in Nat
  BY <1>1
<1>3. SparseCells = Occupied /\ \A d \in Occupied : cl_sparse[d] = Start(d)
  BY DEF SparseMade
<1>4. CASE \E d \in Occupied : d > c
  <2>1. PICK e \in Occupied : e > c /\ \A d \in Occupied : d > c => e <= d
    <3>1. PICK W : W = {d \in Occupied : d > c}
      OBVIOUS
    <3>2. W \subseteq Nat /\ W # {}
      BY <1>1, <1>4, <3>1
    <3>3. PICK e \in W : \A d \in W : e <= d
      BY <3>2, LeastNat
    <3>4. QED BY <3>1, <3>3
  <2>2. \A d \in Occupied : d > c /\ (\A f \in Occupied : f > c => d <= f) => d = e
    BY <1>1, <2>1
  <2>3. NextStart(c) = cl_sparse[CHOOSE d \in Occupied : d > c /\ \A f \in Occupied : f > c => d <= f]
    BY <1>3, <1>4 DEF NextStart
  <2>4. NextStart(c) = cl_sparse[e]
    BY <2>1, <2>2, <2>3
  <2>5. Start(c + 1) = Start(e)
    <3>1. c + 1 <= e /\ e \in Nat /\ \A d \in Occupied : ~(c + 1 <= d /\ d < e)
      BY <1>1, <1>2, <2>1
    <3>2. QED BY <1>2, <3>1, StartSkips
  <2>6. QED BY <1>3, <2>1, <2>4, <2>5
<1>5. CASE ~\E d \in Occupied : d > c
  <2>1. NextStart(c) = Size0(cells)
    BY <1>3, <1>5 DEF NextStart
  <2>2. Size0(cells) = N
    <3>1. N \in Nat
      BY RangeIs
    <3>2. PICK a \in Int, b \in Int : a = 0 /\ b = N - 1
      BY <3>1
    <3>3. Cardinality(a .. b) = IF a > b THEN 0 ELSE b - a + 1
      BY FS_Interval
    <3>4. DOMAIN cells = a .. b
      BY <3>2 DEF SortedIds
    <3>5. QED BY <3>1, <3>2, <3>3, <3>4 DEF Size0
  <2>3. Start(c + 1) = Start(NCell)
    <3>1. c + 1 <= NCell /\ \A d \in Occupied : ~(c + 1 <= d /\ d < NCell)
      BY <1>1, <1>2, <1>5
    <3>2. QED BY <1>1, <1>2, <3>1, StartSkips
  <2>4. QED BY <2>1, <2>2, <2>3, StartIs
<1>6. QED BY <1>4, <1>5

\* The list of a cell begins where the sums of the numbers of neighbours say.
LEMMA CountFillMakes ==
  ASSUME IInv, SparseMade, CountFillCells
  PROVE  Listed'
<1>1. /\ Typed /\ Kept /\ phase = "sorted" /\ is_sparse /\ DOMAIN cells = SortedIds
  BY DEF IInv, KernelInv, CountFillCells, fixed, Kept, Sorted
<1>2. geo' = geo /\ InRange' = InRange /\ Cid' = Cid
  BY <1>1, KeptIs
<1>3. Occupied' = Occupied /\ (\A c : Span(c)' = Span(c)) /\ (\A c : FoundAt(c)' = FoundAt(c))
  BY <1>2 DEF Occupied, Span, Start, FoundAt
<1>4. /\ SparseCells = Occupied /\ \A c \in Occupied : cl_sparse[c] = Start(c)
      /\ \A c : FoundNN(c) = FoundAt(c)
  BY DEF SparseMade, FoundNN, FoundAt
<1>5. PICK D : D = Occupied
  OBVIOUS
<1>6. UpTo(D, NCell) /\ NCell \in Nat /\ \A c : UpTo(FoundAt(c), 10)
  BY <1>1, <1>5, OccupiedIs
<1>7. PICK n \in Nat : n = Cardinality(D)
  BY <1>6, NthIs
<1>8. /\ \A i \in 0 .. n - 1 : Nth(D, i) \in D /\ Rank(D, Nth(D, i)) = i
      /\ \A c \in D : Rank(D, c) \in 0 .. n - 1 /\ Nth(D, Rank(D, c)) = c
  BY <1>6, <1>7, NthIs
<1>9. \A c : Cardinality(FoundAt(c)) \in Nat
  <2>1. 10 \in Nat
    OBVIOUS
  <2>2. QED BY <1>6, <2>1, NthIs
<1>10. PICK f : f = [i \in 0 .. n |-> IF i < n THEN Cardinality(FoundAt(Nth(D, i))) ELSE 0]
  OBVIOUS
<1>11. DOMAIN f = 0 .. n /\ \A i \in 0 .. n : f[i] \in Nat
  BY <1>9, <1>10
<1>12. PICK S : S = cells_nn' /\ S = Scan(f)
  <2>1. cells_nn' = Scan([i \in 0 .. n |-> IF i < n THEN Cardinality(FoundAt(Nth(D, i))) ELSE 0])
    BY <1>4, <1>5, <1>7, Zenon DEF CountFillCells
  <2>2. QED BY <1>10, <2>1
<1>13. /\ \A i \in 0 .. n : S[i] \in Nat
       /\ \A i \in 0 .. n - 1 : S[i + 1] = S[i] + f[i]
  BY <1>11, <1>12, ScanSteps
<1>14. \A i, j \in 0 .. n : i <= j => S[i] <= S[j]
  <2>1. \A i \in 0 .. n - 1 : f[i] \in Nat /\ S[i + 1] = S[i] + f[i]
    BY <1>11, <1>13
  <2>2. QED BY <1>13, <2>1, SumsGrow
<1>15. PICK L : L = cells_nn_list'
  OBVIOUS
<1>16. L = [x \in 0 .. S[n] - 1 |->
              LET i == CHOOSE i \in 0 .. n - 1 : S[i] <= x /\ x < S[i + 1]
              IN  NeighbourCells(Nth(D, i))[x - S[i]]]
  <2>1. cells_nn_list' =
          [x \in 0 .. cells_nn'[Cardinality(SparseCells)] - 1 |->
             LET i == CHOOSE i \in 0 .. Cardinality(SparseCells) - 1 :
                        cells_nn'[i] <= x /\ x < cells_nn'[i + 1]
             IN  NeighbourCells(Nth(SparseCells, i))[x - cells_nn'[i]]]
    BY Zenon DEF CountFillCells
  <2>2. SparseCells = D /\ Cardinality(SparseCells) = n /\ cells_nn' = S /\ cells_nn_list' = L
    BY <1>4, <1>5, <1>7, <1>12, <1>15
  <2>3. QED BY <2>1, <2>2
<1>17. ASSUME NEW c \in Occupied
       PROVE  LET i == Rank(Occupied, c)
              IN  /\ S[i] \in Nat /\ S[i + 1] = S[i] + Cardinality(FoundAt(c))
                  /\ \A j \in 0 .. Cardinality(FoundAt(c)) - 1 :
                       L[S[i] + j] = Span(c + NNTest(geo)[Nth(FoundAt(c), j)])
  <2>1. PICK i \in 0 .. n - 1 : i = Rank(D, c) /\ Nth(D, i) = c /\ i \in 0 .. n /\ i + 1 \in 0 .. n
    BY <1>5, <1>8
  <2>2. PICK m \in Nat : m = Cardinality(FoundAt(c))
    BY <1>9
  <2>3. f[i] = m
    BY <1>10, <2>1, <2>2
  <2>4. S[i] \in Nat /\ S[i + 1] = S[i] + m /\ S[i + 1] \in Nat
    BY <1>13, <2>1, <2>3
  <2>5. S[i + 1] <= S[n] /\ S[n] \in Nat
    <3>1. n \in 0 .. n /\ i + 1 <= n
      BY <2>1
    <3>2. QED BY <1>13, <1>14, <2>1, <3>1
  <2>6. ASSUME NEW j \in 0 .. m - 1
        PROVE  L[S[i] + j] = Span(c + NNTest(geo)[Nth(FoundAt(c), j)])
    <3>1. PICK x \in 0 .. S[n] - 1 : x = S[i] + j /\ S[i] <= x /\ x < S[i + 1] /\ x - S[i] = j
      BY <2>4, <2>5
    <3>2. ASSUME NEW h \in 0 .. n - 1, S[h] <= x, x < S[h + 1] PROVE h = i
      <4>1. h \in 0 .. n /\ h + 1 \in 0 .. n /\ S[h] \in Nat /\ S[h + 1] \in Nat
        BY <1>13
      <4>2. ~(h + 1 <= i)
        <5>1. h + 1 <= i => S[h + 1] <= S[i]
          BY <1>14, <2>1, <4>1
        <5>2. QED BY <2>4, <3>1, <3>2, <4>1, <5>1
      <4>3. ~(i + 1 <= h)
        <5>1. i + 1 <= h => S[i + 1] <= S[h]
          BY <1>14, <2>1, <4>1
        <5>2. QED BY <2>4, <3>1, <3>2, <4>1, <5>1
      <4>4. QED BY <2>1, <4>2, <4>3
    <3>3. (CHOOSE h \in 0 .. n - 1 : S[h] <= x /\ x < S[h + 1]) = i
      BY <2>1, <3>1, <3>2
    <3>4. L[x] = NeighbourCells(Nth(D, i))[x - S[i]]
      <4>1. L[x] = LET h == CHOOSE h \in 0 .. n - 1 : S[h] <= x /\ x < S[h + 1]
                   IN  NeighbourCells(Nth(D, h))[x - S[h]]
        BY <1>16, <3>1
      <4>2. QED BY <3>3, <4>1
    <3>5. L[x] = NeighbourCells(c)[j]
      BY <2>1, <3>1, <3>4
    <3>6. PICK k : k = Nth(FoundAt(c), j) /\ k \in FoundAt(c)
      <4>1. 10 \in Nat /\ UpTo(FoundAt(c), 10) /\ j \in 0 .. Cardinality(FoundAt(c)) - 1
        BY <1>6, <2>2
      <4>2. QED BY <4>1, NthIs
    <3>7. PICK d : d = c + NNTest(geo)[k] /\ d \in Occupied
      BY <3>6 DEF FoundAt
    <3>8. NeighbourCells(c)[j] = <<cl_sparse[d], NextStart(d)>>
      BY <1>4, <2>2, <3>6, <3>7 DEF NeighbourCells
    <3>9. NextStart(d) = Start(d + 1)
      BY <1>1, <3>7, NextStartIs
    <3>10. QED BY <1>4, <3>1, <3>5, <3>6, <3>7, <3>8, <3>9 DEF Span
  <2>7. QED BY <1>5, <2>1, <2>2, <2>4, <2>6
<1>18. QED BY <1>2, <1>3, <1>12, <1>15, <1>17 DEF Listed, Rank, Below

-----------------------------------------------------------------------------
(* Nothing but the kernels of construct changes what the iterators read.   *)

LEMMA IterKept ==
  ASSUME IterInv, Kept, UNCHANGED lists, nnc_rad' = nnc_rad, radius' = radius,
         is_sparse /\ phase' \in HaveLists => phase \in HaveLists,
         is_sparse /\ phase' = "sorted" => phase \in HaveLists \cup {"sorted"}
  PROVE  IterInv'
<1>1. /\ geo' = geo /\ is_sparse' = is_sparse /\ InRange' = InRange /\ Cid' = Cid
      /\ cl_sparse' = cl_sparse /\ cells_nn' = cells_nn /\ cells_nn_list' = cells_nn_list
  BY KeptIs DEF lists
<1>2. Occupied' = Occupied /\ (\A c : Span(c)' = Span(c)) /\ (\A c : FoundAt(c)' = FoundAt(c))
      /\ (\A c : Start(c)' = Start(c))
  BY <1>1 DEF Occupied, Span, Start, FoundAt
<1>3. RadiusKept'
  BY <1>1 DEF IterInv, RadiusKept
<1>4. SparseMade => SparseMade'
  BY <1>1, <1>2 DEF SparseMade, SparseCells
<1>5. Listed => Listed'
  BY <1>1, <1>2 DEF Listed
<1>6. QED BY <1>1, <1>3, <1>4, <1>5 DEF IterInv

\* A new client call or geometry: the list is not built yet.
LEMMA IterFresh ==
  ASSUME RadiusKept', ~is_sparse' \/ phase' \notin HaveLists \cup {"sorted"}
  PROVE  IterInv'
BY DEF IterInv

LEMMA NextIterInv ==
  ASSUME IInv, IterInv, [Next]_vars
  PROVE  IterInv'
<1>0. Typed /\ RadiusKept
  BY DEF IInv, IterInv
<1>1. ASSUME NEW g \in Geometries, Initialize(g) PROVE IterInv'
  BY <1>1, IterFresh DEF Initialize, RadiusKept, HaveLists
<1>2. ASSUME NEW r \in Radii, SetRadius(r) PROVE IterInv'
  <2>1. /\ ~is_sparse /\ is_sparse' = is_sparse /\ geo' = geo
        /\ nnc_rad' = NNcalcRad(geo, r) /\ radius' = r
    BY <1>2 DEF SetRadius
  <2>2. r \in Nat
    BY CellListGpuAssumption
  <2>3. QED BY <2>1, <2>2, IterFresh DEF RadiusKept
<1>3. CASE Clear
  BY <1>0, <1>3, IterFresh DEF Clear, fixed, RadiusKept, HaveLists
<1>4. CASE Construct
  <2>1. RadiusKept' /\ is_sparse' = is_sparse
    BY <1>0, <1>4 DEF Construct, fixed, RadiusKept
  <2>2. is_sparse => phase' = "subindex"
    BY <1>4 DEF Construct
  <2>3. QED BY <2>1, <2>2, IterFresh DEF HaveLists
<1>5. CASE ScanCells
  BY <1>0, <1>5, IterFresh DEF ScanCells, fixed, RadiusKept
<1>6. CASE SortSparse
  <2>1. SparseMade'
    BY <1>6, SortSparseMakes
  <2>2. RadiusKept' /\ phase' = "sorted"
    BY <1>0, <1>6 DEF SortSparse, After, fixed, RadiusKept
  <2>3. QED BY <2>1, <2>2 DEF IterInv, HaveLists
<1>7. CASE CountFillCells
  <2>1. phase = "sorted" /\ phase' = "neighbours" /\ is_sparse /\ Kept /\ cl_sparse' = cl_sparse
        /\ nnc_rad' = nnc_rad /\ radius' = radius
    BY <1>7 DEF CountFillCells, fixed, Kept, IInv, KernelInv
  <2>2. SparseMade
    BY <2>1 DEF IterInv
  <2>3. Listed'
    BY <1>7, <2>2, CountFillMakes
  <2>4. /\ geo' = geo /\ is_sparse' = is_sparse /\ InRange' = InRange /\ Cid' = Cid
    BY <2>1, KeptIs
  <2>5. SparseMade'
    BY <2>1, <2>2, <2>4 DEF SparseMade, SparseCells, Occupied, Start
  <2>6. RadiusKept'
    BY <1>0, <2>1, <2>4 DEF RadiusKept
  <2>7. QED BY <2>3, <2>5, <2>6 DEF IterInv
<1>8. CASE StartReorder
  <2>1. Kept /\ UNCHANGED lists /\ nnc_rad' = nnc_rad /\ radius' = radius
    BY <1>8 DEF StartReorder, fixed, Kept
  <2>2. phase' = "reorder" /\ (is_sparse => phase \in HaveLists)
    <3>1. phase = "fill" => ~is_sparse
      BY DEF IInv, KernelInv
    <3>2. QED BY <1>8, <3>1 DEF StartReorder, After, HaveLists
  <2>3. QED BY <2>1, <2>2, IterKept
<1>9. CASE StartDomainIds
  <2>1. Kept /\ UNCHANGED lists /\ nnc_rad' = nnc_rad /\ radius' = radius
    BY <1>9 DEF StartDomainIds, fixed, Kept
  <2>2. phase = "reorder" /\ phase' # "sorted"
    BY <1>9 DEF StartDomainIds, After
  <2>3. QED BY <2>1, <2>2, IterKept DEF HaveLists
<1>10. CASE ScanDomain
  <2>1. Kept /\ UNCHANGED lists /\ nnc_rad' = nnc_rad /\ radius' = radius
    BY <1>10 DEF ScanDomain, fixed, Kept
  <2>2. phase = "mark" /\ phase' # "sorted"
    BY <1>10 DEF ScanDomain, After
  <2>3. QED BY <2>1, <2>2, IterKept DEF HaveLists
<1>11. CASE EndConstruct
  <2>1. Kept /\ UNCHANGED lists /\ nnc_rad' = nnc_rad /\ radius' = radius
    BY <1>11 DEF EndConstruct, fixed, Kept
  <2>2. phase = "collect" /\ phase' # "sorted"
    BY <1>11 DEF EndConstruct, After
  <2>3. QED BY <2>1, <2>2, IterKept DEF HaveLists
<1>12. ASSUME NEW t \in 0 .. N - 1,
              SubIndex(t) \/ FillCells(t) \/ ReorderParts(t)
                \/ MarkDomainParticles(t) \/ CollectDomainIds(t)
       PROVE  IterInv'
  <2>1. Kept /\ UNCHANGED lists /\ nnc_rad' = nnc_rad /\ radius' = radius
    BY <1>12 DEF SubIndex, FillCells, ReorderParts, MarkDomainParticles, CollectDomainIds, fixed, Kept
  <2>2. phase' = phase
    BY <1>12 DEF SubIndex, FillCells, ReorderParts, MarkDomainParticles, CollectDomainIds, Thread
  <2>3. QED BY <2>1, <2>2, IterKept
<1>13. CASE UNCHANGED vars
  <2>1. Kept /\ UNCHANGED lists /\ nnc_rad' = nnc_rad /\ radius' = radius /\ phase' = phase
    BY <1>13 DEF vars, fixed, Kept
  <2>2. QED BY <2>1, IterKept
<1>14. QED
  BY <1>1, <1>2, <1>3, <1>4, <1>5, <1>6, <1>7, <1>8, <1>9, <1>10, <1>11, <1>12, <1>13 DEF Next

LEMMA IterInvHolds == Spec => []IterInv
<1>1. Init => IterInv
  BY DEF Init, IterInv, RadiusKept, HaveLists
<1>2. IInv /\ IterInv /\ [Next]_vars => IterInv'
  BY NextIterInv
<1>3. QED BY <1>1, <1>2, IInvHolds, PTL DEF Spec

-----------------------------------------------------------------------------
(* The iterators.                                                          *)

\* A visit of cells, no two of them the same, meets the particles of each once.
Visits(seqs, cell) ==
  /\ seqs \in Seq(Seq(Nat))
  /\ \A k \in DOMAIN seqs : /\ Once(seqs[k])
                            /\ \A x : Has(seqs[k], x) => x \in SortedIds /\ CellAt(x) = cell[k]
  /\ \A k, l \in DOMAIN seqs : cell[k] = cell[l] => k = l

LEMMA VisitFinds ==
  ASSUME Typed, SortedByCell, NEW seqs, NEW cell, Visits(seqs, cell),
         NEW near, near \subseteq InRange,
         \A q \in near : \E k \in DOMAIN seqs : \A x \in SortedIds : CellAt(x) = Cid[q] => Has(seqs[k], x)
  PROVE  Finds(FlattenSeq(seqs), near)
<1>1. /\ \A k \in DOMAIN seqs : /\ Once(seqs[k])
                                /\ \A x : Has(seqs[k], x) => x \in SortedIds /\ CellAt(x) = cell[k]
      /\ \A k, l \in DOMAIN seqs : cell[k] = cell[l] => k = l
  BY DEF Visits
<1>2. seqs \in Seq(Seq(Nat))
  BY DEF Visits
<1>3. ASSUME NEW k \in DOMAIN seqs, NEW l \in DOMAIN seqs, k # l PROVE Apart(seqs[k], seqs[l])
  <2>1. ASSUME NEW x, Has(seqs[k], x), Has(seqs[l], x) PROVE FALSE
    <3>1. cell[k] = CellAt(x) /\ cell[l] = CellAt(x)
      BY <1>1, <2>1
    <3>2. QED BY <1>1, <1>3, <3>1
  <2>2. QED BY <2>1 DEF Apart
<1>4. PICK F : F = FlattenSeq(seqs)
  OBVIOUS
<1>5. /\ F \in Seq(Nat) /\ Once(F)
      /\ \A x : Has(F, x) <=> \E k \in DOMAIN seqs : Has(seqs[k], x)
  BY <1>1, <1>2, <1>3, <1>4, FlattenOnce
<1>6. \A a \in DOMAIN F : F[a] \in SortedIds
  <2>1. ASSUME NEW a \in DOMAIN F PROVE F[a] \in SortedIds
    <3>1. Has(F, F[a])
      BY DEF Has
    <3>2. QED BY <1>1, <1>5, <3>1
  <2>2. QED BY <2>1
<1>7. ASSUME NEW q \in near PROVE \E a \in DOMAIN F : sorted_to_not_sorted[F[a]] = q
  <2>1. PICK x \in SortedIds : sorted_to_not_sorted[x] = q
    BY SortedIs
  <2>2. CellAt(x) = Cid[q]
    BY <2>1 DEF CellAt
  <2>3. PICK k \in DOMAIN seqs : Has(seqs[k], x)
    BY <2>2
  <2>4. Has(F, x)
    BY <1>5, <2>3
  <2>5. QED BY <2>1, <2>4 DEF Has
<1>8. QED BY <1>4, <1>5, <1>6, <1>7 DEF Finds, Once

-----------------------------------------------------------------------------
(* The iterators visit every cell that has a near particle, and none twice.*)

LEMMA PointsAreInt ==
  ASSUME Typed, NEW q \in InRange
  PROVE  Particle(q) \in Int \X Int /\ Cid[q] = GetCid(geo, Particle(q)) /\ Cid[q] \in 0 .. NCell - 1
<1>1. q + 1 \in 1 .. Len(call.pl)
  <2>1. PICK a \in Nat, n \in Nat, l \in Nat :
          a = call.start /\ n = N /\ l = Len(call.pl) /\ a + n <= l /\ InRange = a .. a + n - 1
    BY RangeIs
  <2>2. q \in a .. a + n - 1
    BY <2>1
  <2>3. q + 1 \in 1 .. l
    BY <2>1, <2>2
  <2>4. QED BY <2>1, <2>3
<1>2. call.pl \in Seq(Int \X Int)
  BY DEF Typed, Call
<1>3. call.pl[q + 1] \in Int \X Int
  <2>1. PICK A : A = Int \X Int
    OBVIOUS
  <2>2. call.pl \in Seq(A)
    BY <1>2, <2>1
  <2>3. QED BY <1>1, <2>1, <2>2
<1>4. Cid[q] = GetCid(geo, Particle(q))
  BY DEF Cid
<1>5. Cid \in [InRange -> 0 .. NCell - 1]
  BY RangeIs
<1>6. QED BY <1>3, <1>4, <1>5 DEF Particle

LEMMA OfCellHas ==
  ASSUME Typed, SortedByCell, Begins, ~is_sparse, NEW c \in Int
  PROVE  /\ OfCell(c) \in Seq(Nat) /\ Once(OfCell(c))
         /\ \A x : Has(OfCell(c), x) <=> x \in SortedIds /\ CellAt(x) = c
<1>1. NCell \in Nat
  BY RangeIs
<1>2. DOMAIN starts = 0 .. NCell /\ \A d \in 0 .. NCell : starts[d] = Start(d)
  BY DEF Begins, Start
<1>3. CASE c \in 0 .. NCell - 1
  <2>1. c \in Nat /\ c \in 0 .. NCell /\ c + 1 \in 0 .. NCell
    BY <1>1, <1>3
  <2>2. OfCell(c) = From(Start(c), Start(c + 1))
    BY <1>2, <2>1 DEF OfCell
  <2>3. QED BY <2>1, <2>2, CellHas
<1>4. CASE c \notin 0 .. NCell - 1
  <2>1. ~(c \in 0 .. NCell /\ c + 1 \in 0 .. NCell)
    BY <1>1, <1>4
  <2>2. OfCell(c) = <<>>
    BY <1>2, <2>1 DEF OfCell
  <2>3. \A x : ~Has(<<>>, x)
    BY DEF Has
  <2>4. \A x \in SortedIds : CellAt(x) # c
    BY <1>4, SortedIs
  <2>5. <<>> \in Seq(Nat) /\ Once(<<>>)
    BY DEF Once
  <2>6. QED BY <2>2, <2>3, <2>4, <2>5
<1>5. QED BY <1>3, <1>4

LEMMA BoxFinds ==
  ASSUME Typed, SortedByCell, Begins, ~is_sparse, NEW p \in InRange, InDomain(Particle(p))
  PROVE  Finds(NNIteratorBox(GetCidKey(geo, Particle(p)), 1),
               {q \in InRange : NearCell(Particle(p), Particle(q))})
<1>1. PICK c \in Int : c = LinId(Size(geo, 1), GetCidKey(geo, Particle(p)))
  BY PointsAreInt, IdStep
<1>2. PICK cell : cell = [k \in 1 .. 9 |-> c + NNOffset(geo, 1, k - 1)]
  OBVIOUS
<1>3. /\ \A k \in 1 .. 9 : cell[k] \in Int /\ cell[k] = c + NNOffset(geo, 1, k - 1)
      /\ \A k, l \in 1 .. 9 : cell[k] = cell[l] => k = l
  <2>1. /\ \A k \in 1 .. 9 : NNOffset(geo, 1, k - 1) \in Int
        /\ \A k, l \in 1 .. 9 : NNOffset(geo, 1, k - 1) = NNOffset(geo, 1, l - 1) => k = l
    BY BoxOffsets DEF Typed
  <2>2. QED BY <1>2, <2>1
<1>4. PICK seqs : seqs = [k \in 1 .. 9 |-> OfCell(cell[k])]
  OBVIOUS
<1>5. NNIteratorBox(GetCidKey(geo, Particle(p)), 1) = FlattenSeq(seqs)
  <2>1. (2 * 1 + 1) * (2 * 1 + 1) = 9
    OBVIOUS
  <2>2. seqs = [k \in 1 .. 9 |-> OfCell(c + NNOffset(geo, 1, k - 1))]
    BY <1>3, <1>4
  <2>3. QED BY <1>1, <2>1, <2>2 DEF NNIteratorBox
<1>6. ASSUME NEW k \in 1 .. 9
      PROVE  /\ seqs[k] \in Seq(Nat) /\ Once(seqs[k])
             /\ \A x : Has(seqs[k], x) <=> x \in SortedIds /\ CellAt(x) = cell[k]
  <2>1. seqs[k] = OfCell(cell[k]) /\ cell[k] \in Int
    BY <1>3, <1>4
  <2>2. QED BY <2>1, OfCellHas
<1>7. seqs \in Seq(Seq(Nat)) /\ DOMAIN seqs = 1 .. 9
  <2>1. PICK n \in Nat : n = 9
    OBVIOUS
  <2>2. seqs \in [1 .. n -> Seq(Nat)]
    BY <1>4, <1>6, <2>1
  <2>3. seqs \in Seq(Seq(Nat))
    BY <2>2
  <2>4. DOMAIN seqs = 1 .. 9
    BY <1>4
  <2>5. QED BY <2>3, <2>4
<1>8. Visits(seqs, cell)
  BY <1>3, <1>6, <1>7 DEF Visits
<1>9. PICK near : near = {q \in InRange : NearCell(Particle(p), Particle(q))}
  OBVIOUS
<1>10. ASSUME NEW q \in near
       PROVE  \E k \in DOMAIN seqs : \A x \in SortedIds : CellAt(x) = Cid[q] => Has(seqs[k], x)
  <2>1. q \in InRange /\ NearCell(Particle(p), Particle(q))
    BY <1>9
  <2>2. PICK k \in 1 .. 9 : GetCid(geo, Particle(q)) = c + NNOffset(geo, 1, k - 1)
    BY <1>1, <2>1, PointsAreInt, NearInBox
  <2>3. Cid[q] = cell[k]
    BY <1>3, <2>1, <2>2, PointsAreInt
  <2>4. QED BY <1>6, <1>7, <2>3
<1>11. near \subseteq InRange
  BY <1>9
<1>12. Finds(FlattenSeq(seqs), near)
  BY <1>8, <1>10, <1>11, VisitFinds
<1>13. QED BY <1>5, <1>9, <1>12

LEMMA RadiusFinds ==
  ASSUME Typed, SortedByCell, Begins, ~is_sparse, radius \in Nat, nnc_rad = NNcalcRad(geo, radius),
         NEW p \in InRange, InDomain(Particle(p))
  PROVE  Finds(NNIteratorRadius(GetCidKey(geo, Particle(p))),
               {q \in InRange : NearRadius(Particle(p), Particle(q))})
<1>1. PICK c \in Int : c = LinId(Size(geo, 1), GetCidKey(geo, Particle(p)))
  BY PointsAreInt, IdStep
<1>2. PICK n \in Nat : n = TotNCell(geo) /\ n = NCell
  BY RangeIs DEF NCell
<1>3. PICK cell : cell = [k \in 1 .. n |-> k - 1]
  OBVIOUS
<1>4. PICK seqs : seqs = [k \in 1 .. n |-> IF k - 1 - c \in nnc_rad THEN OfCell(k - 1) ELSE <<>>]
  OBVIOUS
<1>5. NNIteratorRadius(GetCidKey(geo, Particle(p))) = FlattenSeq(seqs)
  BY <1>1, <1>2, <1>4 DEF NNIteratorRadius
<1>6. ASSUME NEW k \in 1 .. n
      PROVE  /\ seqs[k] \in Seq(Nat) /\ Once(seqs[k])
             /\ \A x : Has(seqs[k], x) => x \in SortedIds /\ CellAt(x) = cell[k]
             /\ k - 1 - c \in nnc_rad => \A x \in SortedIds : CellAt(x) = cell[k] => Has(seqs[k], x)
  <2>1. cell[k] = k - 1 /\ k - 1 \in Int
    BY <1>3
  <2>2. CASE k - 1 - c \in nnc_rad
    <3>1. seqs[k] = OfCell(cell[k]) /\ cell[k] \in Int
      BY <1>4, <2>1, <2>2
    <3>2. QED BY <3>1, OfCellHas
  <2>3. CASE k - 1 - c \notin nnc_rad
    <3>1. seqs[k] = <<>>
      BY <1>4, <2>3
    <3>2. <<>> \in Seq(Nat) /\ Once(<<>>) /\ \A x : ~Has(<<>>, x)
      BY DEF Once, Has
    <3>3. QED BY <2>3, <3>1, <3>2
  <2>4. QED BY <2>2, <2>3
<1>7. seqs \in Seq(Seq(Nat)) /\ DOMAIN seqs = 1 .. n
  <2>1. seqs \in [1 .. n -> Seq(Nat)]
    BY <1>4, <1>6
  <2>2. QED BY <2>1
<1>8. \A k, l \in 1 .. n : cell[k] = cell[l] => k = l
  BY <1>3
<1>9. Visits(seqs, cell)
  BY <1>6, <1>7, <1>8 DEF Visits
<1>10. PICK near : near = {q \in InRange : NearRadius(Particle(p), Particle(q))}
  OBVIOUS
<1>11. ASSUME NEW q \in near
       PROVE  \E k \in DOMAIN seqs : \A x \in SortedIds : CellAt(x) = Cid[q] => Has(seqs[k], x)
  <2>1. q \in InRange /\ NearRadius(Particle(p), Particle(q))
    BY <1>10
  <2>2. Cid[q] - c \in nnc_rad
    BY <1>1, <2>1, PointsAreInt, NearInRadius
  <2>3. PICK k \in 1 .. n : k - 1 = Cid[q]
    <3>1. PICK i \in Nat : i = Cid[q] /\ i < n
      BY <1>2, <2>1, PointsAreInt
    <3>2. i + 1 \in 1 .. n /\ (i + 1) - 1 = i
      BY <3>1
    <3>3. QED BY <3>1, <3>2
  <2>4. cell[k] = Cid[q] /\ k - 1 - c \in nnc_rad
    BY <1>3, <2>2, <2>3
  <2>5. QED BY <1>6, <1>7, <2>4
<1>12. near \subseteq InRange
  BY <1>10
<1>13. Finds(FlattenSeq(seqs), near)
  BY <1>9, <1>11, <1>12, VisitFinds
<1>14. QED BY <1>5, <1>10, <1>13

LEMMA SparseFinds ==
  ASSUME Typed, SortedByCell, SparseMade, Listed, NEW p \in InRange, InDomain(Particle(p))
  PROVE  Finds(NNIteratorSparse(GetCid(geo, Particle(p))),
               {q \in InRange : NearCell(Particle(p), Particle(q))})
<1>1. PICK c \in Occupied : c = GetCid(geo, Particle(p)) /\ c = LinId(Size(geo, 1), GetCidKey(geo, Particle(p)))
  BY PointsAreInt DEF Occupied, GetCid
<1>2. Occupied \subseteq Nat /\ UpTo(FoundAt(c), 10)
  BY OccupiedIs DEF UpTo
<1>3. PICK m \in Nat : m = Cardinality(FoundAt(c))
  <2>1. 10 \in Nat
    OBVIOUS
  <2>2. QED BY <1>2, <2>1, NthIs
<1>4. /\ \A j \in 0 .. m - 1 : Nth(FoundAt(c), j) \in FoundAt(c) /\ Rank(FoundAt(c), Nth(FoundAt(c), j)) = j
      /\ \A k \in FoundAt(c) : /\ Rank(FoundAt(c), k) \in 0 .. m - 1
                               /\ Nth(FoundAt(c), Rank(FoundAt(c), k)) = k
  <2>1. 10 \in Nat
    OBVIOUS
  <2>2. QED BY <1>2, <1>3, <2>1, NthIs
<1>5. PICK cell : cell = [k \in 1 .. m |-> c + NNTest(geo)[Nth(FoundAt(c), k - 1)]]
  OBVIOUS
<1>6. ASSUME NEW k \in 1 .. 9 PROVE NNTest(geo)[k] = NNOffset(geo, 1, k - 1) /\ NNTest(geo)[k] \in Int
  <2>1. NNOffset(geo, 1, k - 1) \in Int
    BY BoxOffsets DEF Typed
  <2>2. QED BY <2>1 DEF NNTest
<1>7. \A k, l \in 1 .. 9 : NNTest(geo)[k] = NNTest(geo)[l] => k = l
  <2>1. \A k, l \in 1 .. 9 : NNOffset(geo, 1, k - 1) = NNOffset(geo, 1, l - 1) => k = l
    BY BoxOffsets DEF Typed
  <2>2. QED BY <1>6, <2>1
<1>8. ASSUME NEW k \in 1 .. m
      PROVE  /\ k - 1 \in 0 .. m - 1 /\ Nth(FoundAt(c), k - 1) \in 1 .. 9
             /\ cell[k] = c + NNTest(geo)[Nth(FoundAt(c), k - 1)] /\ cell[k] \in Occupied
  <2>1. k - 1 \in 0 .. m - 1
    OBVIOUS
  <2>2. Nth(FoundAt(c), k - 1) \in FoundAt(c)
    BY <1>4, <2>1
  <2>3. QED BY <1>5, <2>1, <2>2 DEF FoundAt
<1>9. ASSUME NEW k \in 1 .. m, NEW l \in 1 .. m, cell[k] = cell[l] PROVE k = l
  <2>1. PICK a \in 1 .. 9, b \in 1 .. 9 : a = Nth(FoundAt(c), k - 1) /\ b = Nth(FoundAt(c), l - 1)
    BY <1>8
  <2>2. NNTest(geo)[a] \in Int /\ NNTest(geo)[b] \in Int /\ c + NNTest(geo)[a] = c + NNTest(geo)[b] /\ c \in Int
    BY <1>2, <1>6, <1>8, <1>9, <2>1
  <2>3. a = b
    <3>1. PICK x \in Int, y \in Int, z \in Int : x = NNTest(geo)[a] /\ y = NNTest(geo)[b] /\ z = c
      BY <2>2
    <3>2. z + x = z + y
      BY <2>2, <3>1
    <3>3. x = y
      BY <3>2
    <3>4. QED BY <1>7, <3>1, <3>3
  <2>4. Rank(FoundAt(c), a) = k - 1 /\ Rank(FoundAt(c), b) = l - 1
    BY <1>4, <1>8, <2>1
  <2>5. QED BY <2>3, <2>4
<1>10. PICK id : id = Rank(Occupied, c)
  OBVIOUS
<1>11. /\ cells_nn[id] \in Nat /\ cells_nn[id + 1] = cells_nn[id] + m
       /\ \A j \in 0 .. m - 1 :
            cells_nn_list[cells_nn[id] + j] = Span(c + NNTest(geo)[Nth(FoundAt(c), j)])
  BY <1>3, <1>10 DEF Listed
<1>12. PICK seqs : seqs = [k \in 1 .. m |-> From(Start(cell[k]), Start(cell[k] + 1))]
  OBVIOUS
<1>13. NNIteratorSparse(GetCid(geo, Particle(p))) = FlattenSeq(seqs)
  <2>1. PICK b \in Nat : b = cells_nn[id]
    BY <1>11
  <2>2. PICK all : all = [k \in 1 .. m |-> LET ce == cells_nn_list[b + k - 1] IN From(ce[1], ce[2])]
    OBVIOUS
  <2>3. NNIteratorSparse(c) = FlattenSeq(all)
    <3>1. Cardinality({d \in DOMAIN cl_sparse : d < c}) = id
      BY <1>10 DEF SparseMade, SparseCells, Rank, Below
    <3>2. cells_nn[id + 1] - cells_nn[id] = m
      BY <1>11
    <3>3. QED BY <2>1, <2>2, <3>1, <3>2 DEF NNIteratorSparse
  <2>4. ASSUME NEW k \in 1 .. m PROVE all[k] = seqs[k]
    <3>1. PICK j \in 0 .. m - 1 : j = k - 1 /\ b + k - 1 = b + j
      BY <1>8
    <3>2. cells_nn_list[b + j] = <<Start(cell[k]), Start(cell[k] + 1)>>
      BY <1>8, <1>11, <2>1, <3>1 DEF Span
    <3>3. all[k] = From(Start(cell[k]), Start(cell[k] + 1))
      BY <2>2, <3>1, <3>2
    <3>4. QED BY <1>12, <3>3
  <2>5. all = seqs
    BY <1>12, <2>2, <2>4
  <2>6. QED BY <1>1, <2>3, <2>5
<1>14. ASSUME NEW k \in 1 .. m
       PROVE  /\ seqs[k] \in Seq(Nat) /\ Once(seqs[k])
              /\ \A x : Has(seqs[k], x) <=> x \in SortedIds /\ CellAt(x) = cell[k]
  <2>1. PICK d \in Nat : d = cell[k]
    BY <1>2, <1>8
  <2>2. seqs[k] = From(Start(d), Start(d + 1))
    BY <1>12, <2>1
  <2>3. QED BY <2>1, <2>2, CellHas
<1>15. seqs \in Seq(Seq(Nat)) /\ DOMAIN seqs = 1 .. m
  <2>1. seqs \in [1 .. m -> Seq(Nat)]
    BY <1>12, <1>14
  <2>2. QED BY <2>1
<1>16. Visits(seqs, cell)
  BY <1>9, <1>14, <1>15 DEF Visits
<1>17. PICK near : near = {q \in InRange : NearCell(Particle(p), Particle(q))}
  OBVIOUS
<1>18. ASSUME NEW q \in near
       PROVE  \E k \in DOMAIN seqs : \A x \in SortedIds : CellAt(x) = Cid[q] => Has(seqs[k], x)
  <2>1. q \in InRange /\ NearCell(Particle(p), Particle(q))
    BY <1>17
  <2>2. PICK h \in 1 .. 9 : GetCid(geo, Particle(q)) = c + NNOffset(geo, 1, h - 1)
    BY <1>1, <2>1, PointsAreInt, NearInBox
  <2>3. Cid[q] = c + NNTest(geo)[h] /\ Cid[q] \in Occupied
    BY <1>6, <2>1, <2>2, PointsAreInt DEF Occupied
  <2>4. h \in FoundAt(c)
    BY <2>3 DEF FoundAt
  <2>5. PICK j \in 0 .. m - 1 : Nth(FoundAt(c), j) = h
    BY <1>4, <2>4
  <2>6. PICK k \in 1 .. m : k - 1 = j
    <3>1. j + 1 \in 1 .. m /\ (j + 1) - 1 = j
      OBVIOUS
    <3>2. QED BY <3>1
  <2>7. cell[k] = Cid[q]
    BY <1>8, <2>3, <2>5, <2>6
  <2>8. QED BY <1>14, <1>15, <2>7
<1>19. near \subseteq InRange
  BY <1>17
<1>20. Finds(FlattenSeq(seqs), near)
  BY <1>16, <1>18, <1>19, VisitFinds
<1>21. QED BY <1>13, <1>17, <1>20

\* Of a finished list, dense or sparse, the iterators of a point in the domain
\* return no particle twice and miss none that is near enough.
THEOREM NeighboursFoundOnce == Spec => []NeighboursOnce
<1>1. IInv /\ IterInv => NeighboursOnce
  <2>1. SUFFICES ASSUME IInv, IterInv, phase = "built", NEW p \in InRange, InDomain(Particle(p))
                 PROVE  /\ Finds(NNIterator(Particle(p)), {q \in InRange : NearCell(Particle(p), Particle(q))})
                        /\ radius # NoRadius =>
                             Finds(NNIteratorRadius(GetCidKey(geo, Particle(p))),
                                   {q \in InRange : NearRadius(Particle(p), Particle(q))})
    BY DEF NeighboursOnce
  <2>2. Typed /\ Begins /\ SortedByCell
    BY <2>1 DEF IInv, KernelInv
  <2>3. RadiusKept /\ (is_sparse => SparseMade /\ Listed)
    BY <2>1 DEF IterInv, HaveLists
  <2>4. CASE is_sparse
    <3>1. Finds(NNIteratorSparse(GetCid(geo, Particle(p))),
                {q \in InRange : NearCell(Particle(p), Particle(q))})
      BY <2>1, <2>2, <2>3, <2>4, SparseFinds
    <3>2. radius = NoRadius
      BY <2>3, <2>4 DEF RadiusKept
    <3>3. QED BY <2>4, <3>1, <3>2 DEF NNIterator
  <2>5. CASE ~is_sparse
    <3>1. Finds(NNIteratorBox(GetCidKey(geo, Particle(p)), 1),
                {q \in InRange : NearCell(Particle(p), Particle(q))})
      BY <2>1, <2>2, <2>5, BoxFinds
    <3>2. radius # NoRadius => Finds(NNIteratorRadius(GetCidKey(geo, Particle(p))),
                                     {q \in InRange : NearRadius(Particle(p), Particle(q))})
      BY <2>1, <2>2, <2>3, <2>5, RadiusFinds DEF RadiusKept
    <3>3. QED BY <2>5, <3>1, <3>2 DEF NNIterator
  <2>6. QED BY <2>4, <2>5
<1>2. QED BY <1>1, IInvHolds, IterInvHolds, PTL

=============================================================================
