-------------------------- MODULE SparseGrid_proof --------------------------
(***************************************************************************)
(* Proofs about SparseGrid, for every chunk size, every set of grid sizes  *)
(* and values, and every bound: its index structures agree, a convolution  *)
(* finds the neighbours, the grid implements SparseMap, call by call, and  *)
(* no empty chunk is forgotten.                                            *)
(***************************************************************************)
EXTENDS SparseGrid, FunctionTheorems, FiniteSetTheorems, TLAPS

-----------------------------------------------------------------------------
(* Ranks: Nth, on which vector::remove(keys) rests.                        *)

\* Below an element of a finite set of integers lie fewer than all of them,
\* and fewer than below a larger element.
LEMMA RankGrows ==
  ASSUME NEW S \in SUBSET Int, IsFiniteSet(S), NEW j \in S
  PROVE  /\ Cardinality({l \in S : l < j}) \in 0 .. Cardinality(S) - 1
         /\ \A k \in S : j < k =>
              Cardinality({l \in S : l < j}) < Cardinality({l \in S : l < k})
<1>1. /\ IsFiniteSet({l \in S : l < j})
      /\ Cardinality({l \in S : l < j}) \in Nat
      /\ Cardinality(S) \in Nat
  BY FS_Subset, FS_CardinalityType
<1>2. Cardinality({l \in S : l < j}) < Cardinality(S)
  <2>1. {l \in S : l < j} \in SUBSET S /\ {l \in S : l < j} # S
    OBVIOUS
  <2>2. QED BY <2>1, <1>1, FS_Subset
<1>3. ASSUME NEW k \in S, j < k
      PROVE  Cardinality({l \in S : l < j}) < Cardinality({l \in S : l < k})
  <2> DEFINE K == {l \in S : l < k}
             J == {l \in S : l < j}
  <2>1. IsFiniteSet(K) /\ Cardinality(K) \in Nat
    BY FS_Subset, FS_CardinalityType
  <2>2. J \in SUBSET K
    <3>1. ASSUME NEW l \in S, l < j
          PROVE  l < k
      <4>1. l \in Int /\ j \in Int /\ k \in Int
        OBVIOUS
      <4>2. QED BY <4>1, <3>1, <1>3
    <3>2. QED BY <3>1
  <2>4. j \in K /\ j \notin J
    BY <1>3
  <2>5. Cardinality(J) <= Cardinality(K) /\ (Cardinality(K) = Cardinality(J) => K = J)
    BY <2>1, <2>2, FS_Subset
  <2>6. QED BY <2>1, <2>4, <2>5, <1>1
<1>4. QED BY <1>1, <1>2, <1>3

\* Every rank is taken, and by one element only: Nth(S, .) enumerates S.
LEMMA NthIsRank ==
  ASSUME NEW S \in SUBSET Int, IsFiniteSet(S), NEW i \in 0 .. Cardinality(S) - 1
  PROVE  /\ Nth(S, i) \in S
         /\ Cardinality({l \in S : l < Nth(S, i)}) = i
<1> DEFINE r == [j \in S |-> Cardinality({l \in S : l < j})]
           T == 0 .. Cardinality(S) - 1
<1>1. Cardinality(S) \in Nat
  BY FS_CardinalityType
<1>2. IsFiniteSet(T) /\ Cardinality(T) = Cardinality(S)
  BY <1>1, FS_Interval
<1>3. r \in [S -> T]
  BY RankGrows
<1>4. ASSUME NEW j \in S, NEW k \in S, r[j] = r[k]
      PROVE  j = k
  <2>1. /\ j < k => r[j] < r[k]
        /\ k < j => r[k] < r[j]
    BY RankGrows
  <2>2. r[j] \in Int /\ r[k] \in Int
    BY <1>3, <1>1
  <2>3. QED BY <2>1, <2>2, <1>4
<1>5. r \in Injection(S, T)
  BY <1>3, <1>4, Fun_IsInj
<1>6. r \in Surjection(S, T)
  BY <1>2, <1>5, FS_Injection
<1>7. PICK j \in S : r[j] = i
  BY <1>6 DEF Surjection
<1>8. QED BY <1>7 DEF Nth

\* Removing keys keeps chunks of the vector, each at most once and in order,
\* and when index 0 is not a key it stays where it is.
LEMMA RemoveKeysKeeps ==
  ASSUME NEW n \in Nat, NEW ch, DOMAIN ch = 0 .. n - 1,
         NEW keys, NEW m \in Nat, m <= Cardinality(0 .. n - 1 \ keys)
  PROVE  /\ DOMAIN RemoveKeys(ch, keys, m) = 0 .. m - 1
         /\ \A i \in 0 .. m - 1 :
              /\ Nth(0 .. n - 1 \ keys, i) \in 0 .. n - 1 \ keys
              /\ RemoveKeys(ch, keys, m)[i] = ch[Nth(0 .. n - 1 \ keys, i)]
         /\ \A i, j \in 0 .. m - 1 :
              Nth(0 .. n - 1 \ keys, i) = Nth(0 .. n - 1 \ keys, j) => i = j
         /\ 0 < m /\ 0 \in 0 .. n - 1 \ keys => Nth(0 .. n - 1 \ keys, 0) = 0
<1> DEFINE S == 0 .. n - 1 \ keys
<1>1. S \in SUBSET Int /\ IsFiniteSet(S) /\ Cardinality(S) \in Nat
  <2>1. IsFiniteSet(0 .. n - 1)
    BY FS_Interval
  <2>2. IsFiniteSet(S)
    BY <2>1, FS_Difference
  <2>3. QED BY <2>2, FS_CardinalityType
<1>2. \A i \in 0 .. m - 1 : i \in 0 .. Cardinality(S) - 1
  BY <1>1
<1>3. \A i \in 0 .. m - 1 : Nth(S, i) \in S /\ Cardinality({l \in S : l < Nth(S, i)}) = i
  BY <1>1, <1>2, NthIsRank
<1>4. ASSUME 0 < m, 0 \in S
      PROVE  Nth(S, 0) = 0
  <2>1. 0 \in 0 .. m - 1
    BY <1>4
  <2>2. Nth(S, 0) \in S /\ Cardinality({l \in S : l < Nth(S, 0)}) = 0
    BY <1>3, <2>1
  <2>3. IsFiniteSet({l \in S : l < Nth(S, 0)})
    BY <1>1, FS_Subset
  <2>4. {l \in S : l < Nth(S, 0)} = {}
    BY <2>2, <2>3, FS_EmptySet
  <2>5. 0 \notin {l \in S : l < Nth(S, 0)} /\ Nth(S, 0) \in 0 .. n - 1
    BY <2>2, <2>4
  <2>6. QED BY <2>5, <1>4
<1>5. QED BY <1>3, <1>4 DEF RemoveKeys

-----------------------------------------------------------------------------
(* The operators keep their types.                                         *)

LEMMA ConstantTypes ==
  /\ ChunkSize \in Nat \ {0} /\ SGRID_CACHE = 2 /\ Slots = {0, 1}
  /\ FLUSH_REMOVE \in Nat \ {0} /\ MaxChunks \in Nat \ {0}
  /\ Sizes \subseteq Nat \ {0}
  /\ Points \subseteq Nat
  /\ \A p \in Points : ChunkOf(p) \in Nat /\ Sub(p) \in Subs
<1>1. ChunkSize \in Nat \ {0} /\ Sizes \subseteq Nat \ {0}
  BY SizesAssumption
<1>2. Points \subseteq Nat
  BY <1>1 DEF Points
<1>3. ASSUME NEW p \in Nat
      PROVE  ChunkOf(p) \in Nat /\ Sub(p) \in Subs
  BY <1>1 DEF ChunkOf, Sub, Subs
<1>4. QED BY <1>1, <1>2, <1>3, SizesAssumption DEF SGRID_CACHE, Slots

\* The cells of a chunk are a function on some positions; there are finitely
\* many of them.
LEMMA ChunkFields ==
  ASSUME NEW c \in Chunk
  PROVE  /\ c = [pos |-> c.pos, nele |-> c.nele, cells |-> c.cells]
         /\ c.pos \in Int /\ c.nele \in Int
         /\ DOMAIN c.cells \subseteq Subs
         /\ c.cells \in [DOMAIN c.cells -> Values]
         /\ IsFiniteSet(DOMAIN c.cells)
<1>1. PICK D \in SUBSET Subs : c.cells \in [D -> Values]
  BY DEF Chunk
<1>2. IsFiniteSet(Subs)
  BY ConstantTypes, FS_Interval DEF Subs
<1>3. IsFiniteSet(DOMAIN c.cells)
  BY <1>1, <1>2, FS_Subset
<1>4. QED BY <1>1, <1>3 DEF Chunk

LEMMA MakeChunk ==
  ASSUME NEW p \in Int, NEW n \in Int, NEW D \in SUBSET Subs, NEW f \in [D -> Values]
  PROVE  [pos |-> p, nele |-> n, cells |-> f] \in Chunk
BY DEF Chunk

\* Inserting a point keeps the chunk a chunk, at its place.
LEMMA WithCellType ==
  ASSUME NEW c \in Chunk, NEW s \in Subs, NEW v \in Values
  PROVE  /\ WithCell(c, s, v) \in Chunk
         /\ WithCell(c, s, v).pos = c.pos
         /\ DOMAIN WithCell(c, s, v).cells = DOMAIN c.cells \cup {s}
<1> DEFINE D == DOMAIN c.cells \cup {s}
           new == [t \in D |-> IF t = s THEN v ELSE c.cells[t]]
<1>1. D \in SUBSET Subs /\ new \in [D -> Values]
  BY ChunkFields
<1> DEFINE n == IF s \in DOMAIN c.cells THEN c.nele ELSE c.nele + 1
<1>2. c.pos \in Int /\ n \in Int
  BY ChunkFields
<1>3. WithCell(c, s, v) = [pos |-> c.pos, nele |-> n, cells |-> new]
  BY DEF WithCell
<1>4. DOMAIN new = D
  OBVIOUS
<1> HIDE DEF D, n, new
<1>5. WithCell(c, s, v) \in Chunk
  BY <1>1, <1>2, <1>3, MakeChunk
<1>6. QED BY <1>3, <1>4, <1>5 DEF D

\* So does removing points.
LEMMA WithoutCellsType ==
  ASSUME NEW c \in Chunk, NEW S
  PROVE  /\ WithoutCells(c, S) \in Chunk
         /\ WithoutCells(c, S).pos = c.pos
         /\ DOMAIN WithoutCells(c, S).cells = DOMAIN c.cells \ S
<1> DEFINE D == DOMAIN c.cells \ S
           new == [t \in D |-> c.cells[t]]
<1>1. D \in SUBSET Subs /\ new \in [D -> Values]
  BY ChunkFields
<1>2. Cardinality(DOMAIN c.cells \cap S) \in Nat
  BY ChunkFields, FS_Intersection, FS_CardinalityType
<1> DEFINE n == c.nele - Cardinality(DOMAIN c.cells \cap S)
<1>3. c.pos \in Int /\ n \in Int
  BY <1>2, ChunkFields
<1>4. WithoutCells(c, S) = [pos |-> c.pos, nele |-> n, cells |-> new]
  BY DEF WithoutCells
<1>5. DOMAIN new = D
  OBVIOUS
<1> HIDE DEF D, n, new
<1>6. WithoutCells(c, S) \in Chunk
  BY <1>1, <1>3, <1>4, MakeChunk
<1>7. QED BY <1>4, <1>5, <1>6 DEF D

LEMMA BackgroundType == Background \in Chunk /\ Background.pos = BckCoord
<1>1. NoCells \in [{} -> Values] /\ {} \in SUBSET Subs
  BY DEF NoCells
<1>2. BckCoord \in Int /\ 0 \in Int
  BY DEF BckCoord
<1>3. [pos |-> BckCoord, nele |-> 0, cells |-> NoCells] \in Chunk
  BY <1>1, <1>2, MakeChunk
<1>4. QED BY <1>3 DEF Background

\* A nonempty set of chunk indices has a largest element.
LEMMA LastIndex ==
  ASSUME NEW S \in SUBSET Int, IsFiniteSet(S), S # {}
  PROVE  \E i \in S : \A j \in S : j <= i
<1> DEFINE i == Nth(S, Cardinality(S) - 1)
<1>1. Cardinality(S) \in Nat /\ Cardinality(S) # 0
  BY FS_CardinalityType, FS_EmptySet
<1>2. i \in S /\ Cardinality({l \in S : l < i}) = Cardinality(S) - 1
  BY <1>1, NthIsRank
<1>3. ASSUME NEW j \in S PROVE j <= i
  <2> HIDE DEF i
  <2>1. Cardinality({l \in S : l < j}) \in 0 .. Cardinality(S) - 1
    BY RankGrows
  <2>2. i < j => Cardinality({l \in S : l < i}) < Cardinality({l \in S : l < j})
    BY <1>2, RankGrows
  <2>3. ~(i < j)
    <3>1. ASSUME NEW a \in Nat, NEW b, b \in 0 .. a - 1, a - 1 < b
          PROVE  FALSE
      BY <3>1
    <3>2. QED BY <2>1, <2>2, <1>1, <1>2, <3>1
  <2>4. QED BY <2>3, <1>2
<1>4. QED BY <1>2, <1>3

\* reconstruct_map leads from each position to a chunk at that position.
LEMMA ReconstructMapType ==
  ASSUME NEW n \in Nat \ {0}, NEW ch \in [0 .. n - 1 -> Chunk]
  PROVE  /\ DOMAIN ReconstructMap(ch) = {Lin(ch[i].pos) : i \in 1 .. n - 1}
         /\ DOMAIN ReconstructMap(ch) \subseteq Int
         /\ \A lin \in DOMAIN ReconstructMap(ch) :
              /\ ReconstructMap(ch)[lin] \in 1 .. n - 1
              /\ Lin(ch[ReconstructMap(ch)[lin]].pos) = lin
<1>1. DOMAIN ch \ {0} = 1 .. n - 1
  OBVIOUS
<1> DEFINE at(lin) == {i \in 1 .. n - 1 : Lin(ch[i].pos) = lin}
           last(lin) == CHOOSE i \in 1 .. n - 1 :
                          /\ Lin(ch[i].pos) = lin
                          /\ \A j \in 1 .. n - 1 : Lin(ch[j].pos) = lin => j <= i
<1>2. ReconstructMap(ch) = [lin \in {Lin(ch[i].pos) : i \in 1 .. n - 1} |-> last(lin)]
  BY <1>1 DEF ReconstructMap
<1>3. ASSUME NEW k \in 1 .. n - 1
      PROVE  LET lin == Lin(ch[k].pos)
             IN  last(lin) \in 1 .. n - 1 /\ Lin(ch[last(lin)].pos) = lin
  <2> DEFINE lin == Lin(ch[k].pos)
  <2>1. at(lin) \in SUBSET (1 .. n - 1) /\ at(lin) # {}
    OBVIOUS
  <2>4. IsFiniteSet(at(lin)) /\ at(lin) \in SUBSET Int
    <3>1. IsFiniteSet(1 .. n - 1)
      BY FS_Interval
    <3> HIDE DEF at
    <3>2. QED BY <2>1, <3>1, FS_Subset
  <2>2. \E i \in at(lin) : \A j \in at(lin) : j <= i
    BY <2>1, <2>4, LastIndex
  <2>3. QED BY <2>2
<1>4. \A k \in 1 .. n - 1 : Lin(ch[k].pos) \in Int
  BY ChunkFields DEF Lin
<1> HIDE DEF last
<1>5. QED BY <1>2, <1>3, <1>4

-----------------------------------------------------------------------------
(* Type correctness.  The list of empty chunks must be finite for the      *)
(* cardinalities in RemoveEmpty to be numbers.                             *)

CacheType == [pnt : Slots, key : [Slots -> Int], id : [Slots -> Nat]]
EmptyType == {ev \in [ids : SUBSET Nat, size : Nat] : IsFiniteSet(ev.ids)}

TypeInv == TypeOK /\ empty_v \in EmptyType

LEMMA AddOnCacheType ==
  ASSUME NEW c \in CacheType, NEW lin \in Int, NEW i \in Nat
  PROVE  AddOnCache(c, lin, i) \in CacheType
<1>1. (c.pnt + 1) % SGRID_CACHE \in Slots
  BY ConstantTypes DEF CacheType
<1>2. [c.key EXCEPT ![c.pnt] = lin] \in [Slots -> Int]
  BY DEF CacheType
<1>3. [c.id EXCEPT ![c.pnt] = i] \in [Slots -> Nat]
  BY DEF CacheType
<1>4. QED BY <1>1, <1>2, <1>3 DEF AddOnCache, CacheType

LEMMA ClearCacheType ==
  ASSUME NEW c \in CacheType
  PROVE  /\ ClearCache(c) \in CacheType
         /\ \A k \in Slots : ClearCache(c).key[k] = -1
BY ConstantTypes DEF ClearCache, CacheType

\* What a lookup returns and what it leaves in the cache.
LEMMA LookupTypes ==
  ASSUME TypeOK, NEW lin \in Int
  PROVE  /\ Active(lin) \in Nat
         /\ Looked(lin) \in CacheType
         /\ Recall(lin, Active(lin)) \in CacheType
<1>1. cache \in CacheType /\ \A l \in DOMAIN map : map[l] \in 1 .. nchunk - 1
  BY DEF TypeOK, CacheType
<1> DEFINE hit == CHOOSE k \in Slots : Hits(cache, lin) = {k}
<1>2. ASSUME \E k \in Slots : Hits(cache, lin) = {k}
      PROVE  hit \in Slots
  BY <1>2
<1> HIDE DEF hit
<1>3. Active(lin) \in Nat
  <2>1. CASE \E k \in Slots : Hits(cache, lin) = {k}
    BY <2>1, <1>1, <1>2 DEF Active, hit, CacheType
  <2>2. CASE ~ \E k \in Slots : Hits(cache, lin) = {k}
    BY <2>2, <1>1 DEF Active, TypeOK
  <2>3. QED BY <2>1, <2>2
<1>4. Recall(lin, Active(lin)) \in CacheType
  <2>1. CASE \E k \in Slots : Hits(cache, lin) = {k}
    <3>1. (hit + 1) % SGRID_CACHE \in Slots
      BY <2>1, <1>2, ConstantTypes
    <3>2. Recall(lin, Active(lin)) = [cache EXCEPT !.pnt = (hit + 1) % SGRID_CACHE]
      BY <2>1 DEF Recall, hit
    <3>3. QED BY <3>1, <3>2, <1>1 DEF CacheType
  <2>2. CASE ~ \E k \in Slots : Hits(cache, lin) = {k}
    BY <2>2, <1>1, <1>3, AddOnCacheType DEF Recall
  <2>3. QED BY <2>1, <2>2
<1>5. QED BY <1>1, <1>3, <1>4 DEF Looked

LEMMA AddEmptyType ==
  ASSUME NEW ev \in EmptyType, NEW S \in SUBSET Nat, IsFiniteSet(S)
  PROVE  AddEmpty(ev, S) \in EmptyType
<1>1. IsFiniteSet(ev.ids \cup S) /\ ev.ids \cup S \in SUBSET Nat
  BY FS_Union DEF EmptyType
<1>2. ev.size + Cardinality(S) \in Nat
  BY FS_CardinalityType DEF EmptyType
<1>3. QED BY <1>1, <1>2 DEF AddEmpty, EmptyType

\* Index 0 .. n-1 without keys holds at least n - |keys| indices.
LEMMA Survivors ==
  ASSUME NEW n \in Nat, NEW keys, IsFiniteSet(keys)
  PROVE  /\ Cardinality(keys) \in Nat
         /\ n - Cardinality(keys) <= Cardinality(0 .. n - 1 \ keys)
<1>1. IsFiniteSet(0 .. n - 1) /\ Cardinality(0 .. n - 1) = n
  BY FS_Interval
<1>2. Cardinality(0 .. n - 1 \ keys) = n - Cardinality(0 .. n - 1 \cap keys)
  BY <1>1, FS_Difference
<1>3. /\ Cardinality(0 .. n - 1 \cap keys) <= Cardinality(keys)
      /\ IsFiniteSet(0 .. n - 1 \cap keys)
  BY FS_Intersection
<1>4. Cardinality(keys) \in Nat /\ Cardinality(0 .. n - 1 \cap keys) \in Nat
  BY <1>3, FS_CardinalityType
<1>5. QED BY <1>2, <1>3, <1>4

LEMMA RemoveKeysType ==
  ASSUME NEW n \in Nat, NEW ch \in [0 .. n - 1 -> Chunk], NEW keys, IsFiniteSet(keys),
         n - Cardinality(keys) >= 1
  PROVE  RemoveKeys(ch, keys, n - Cardinality(keys))
           \in [0 .. n - Cardinality(keys) - 1 -> Chunk]
<1> DEFINE m == n - Cardinality(keys)
<1>1. m \in Nat /\ m <= Cardinality(0 .. n - 1 \ keys)
  <2>1. Cardinality(keys) \in Nat /\ n - Cardinality(keys) <= Cardinality(0 .. n - 1 \ keys)
    BY Survivors
  <2>2. QED BY <2>1
<1>2. DOMAIN ch = 0 .. n - 1
  OBVIOUS
<1> HIDE DEF m
<1>3. \A i \in 0 .. m - 1 : Nth(0 .. n - 1 \ keys, i) \in 0 .. n - 1
  BY <1>1, <1>2, RemoveKeysKeeps
<1>4. RemoveKeys(ch, keys, m) \in [0 .. m - 1 -> Chunk]
  BY <1>2, <1>3 DEF RemoveKeys
<1>5. QED BY <1>4 DEF m

\* remove_empty, whichever list and chunks the caller hands it: either the
\* state keeps its type or the call was undefined and nothing changed.
LEMMA RemoveEmptyType ==
  ASSUME TypeInv, NEW ch \in [0 .. nchunk - 1 -> Chunk], NEW ev \in EmptyType,
         NEW c \in CacheType, RemoveEmpty(ch, ev, c)
  PROVE  /\ nchunk' \in Nat \ {0}
         /\ chunks' \in [0 .. nchunk' - 1 -> Chunk]
         /\ DOMAIN map' \subseteq Int /\ \A lin \in DOMAIN map' : map'[lin] \in 1 .. nchunk' - 1
         /\ cache' \in CacheType
         /\ empty_v' \in EmptyType
         /\ ub' \in BOOLEAN
<1>1. CASE ev.size < FLUSH_REMOVE
  BY <1>1 DEF RemoveEmpty, TypeInv, TypeOK
<1>2. CASE ~(ev.size < FLUSH_REMOVE)
  <2> DEFINE dead(stale) == ReallyEmpty(ch, ev) \cup stale
             m(stale) == nchunk - Cardinality(dead(stale))
  <2>1. PICK stale \in SUBSET (ev.ids \ DOMAIN ch) :
          IF m(stale) < 1
          THEN ub' = TRUE /\ UNCHANGED <<map, chunks, nchunk, cache, empty_v>>
          ELSE /\ nchunk' = m(stale)
               /\ chunks' = RemoveKeys(ch, dead(stale), m(stale))
               /\ map' = ReconstructMap(chunks')
               /\ empty_v' = NoneEmpty
               /\ cache' = ClearCache(c)
               /\ UNCHANGED ub
    BY <1>2 DEF RemoveEmpty
  <2>2. dead(stale) \subseteq ev.ids /\ IsFiniteSet(ev.ids)
    BY DEF ReallyEmpty, EmptyType
  <2>3. IsFiniteSet(dead(stale)) /\ nchunk \in Nat \ {0}
    BY <2>2, FS_Subset DEF TypeInv, TypeOK
  <2>4. Cardinality(dead(stale)) \in Nat /\ m(stale) <= Cardinality(0 .. nchunk - 1 \ dead(stale))
    BY <2>3, Survivors
  <2>5. CASE m(stale) < 1
    BY <2>1, <2>5 DEF TypeInv, TypeOK, CacheType
  <2>6. CASE ~(m(stale) < 1)
    <3> HIDE DEF dead
    <3>1. m(stale) \in Nat \ {0} /\ nchunk' = m(stale)
      BY <2>1, <2>3, <2>4, <2>6
    <3>2. chunks' = RemoveKeys(ch, dead(stale), m(stale)) /\ DOMAIN ch = 0 .. nchunk - 1
      BY <2>1, <2>6
    <3>3. chunks' \in [0 .. nchunk' - 1 -> Chunk]
      <4>1. RemoveKeys(ch, dead(stale), nchunk - Cardinality(dead(stale)))
              \in [0 .. (nchunk - Cardinality(dead(stale))) - 1 -> Chunk]
        BY <2>3, <3>1, RemoveKeysType
      <4>2. QED BY <4>1, <3>1, <3>2
    <3>4. map' = ReconstructMap(chunks') /\ empty_v' = NoneEmpty /\ cache' = ClearCache(c) /\ ub' = ub
      BY <2>1, <2>6
    <3>5. empty_v' \in EmptyType
      BY <3>4, FS_EmptySet DEF NoneEmpty, EmptyType
    <3>6. /\ DOMAIN map' \subseteq Int
          /\ \A lin \in DOMAIN map' : map'[lin] \in 1 .. nchunk' - 1
      BY <3>1, <3>3, <3>4, ReconstructMapType
    <3>7. QED BY <3>1, <3>3, <3>4, <3>5, <3>6, ClearCacheType DEF TypeInv, TypeOK
  <2>7. QED BY <2>5, <2>6
<1>3. QED BY <1>1, <1>2

LEMMA InitTypes == Init => TypeInv
<1> SUFFICES ASSUME Init PROVE TypeInv
  OBVIOUS
<1>1. chunks \in [0 .. nchunk - 1 -> Chunk]
  <2>1. 0 .. nchunk - 1 = {0}
    BY DEF Init
  <2>2. QED BY <2>1, BackgroundType DEF Init
<1>2. cache \in CacheType
  BY ConstantTypes, SizesAssumption DEF Init, InitialCache, CacheType
<1>3. empty_v \in EmptyType
  BY FS_EmptySet DEF Init, NoneEmpty, EmptyType
<1>4. conv \in [mode : {"idle", "conv", "conv_cross"}, lo : Int, hi : Int,
                chunk : Nat, second : BOOLEAN]
  BY DEF Init, Idle
<1>5. /\ g_sm \in Sizes /\ nchunk \in Nat \ {0} /\ findNN \in BOOLEAN /\ ub \in BOOLEAN
      /\ DOMAIN map = {} /\ DOMAIN NNlist = {}
  BY DEF Init
<1>6. QED BY <1>1, <1>2, <1>3, <1>4, <1>5 DEF TypeInv, TypeOK, CacheType, EmptyType

LEMMA InsertTypes ==
  ASSUME TypeInv, NEW p \in Points, NEW v \in Values, Insert(p, v)
  PROVE  TypeInv'
<1> DEFINE lin == Lin(ChunkOf(p))
<1>1. lin \in Nat /\ Sub(p) \in Subs
  BY ConstantTypes DEF Lin
<1>2. UNCHANGED <<g_sm, empty_v, findNN, NNlist, conv, ub>>
  BY DEF Insert
<1>3. CASE Exists(lin)
  <2>1. /\ chunks' = [chunks EXCEPT ![Active(lin)] = WithCell(@, Sub(p), v)]
        /\ cache' = Recall(lin, Active(lin))
        /\ UNCHANGED <<map, nchunk>>
    BY <1>3 DEF Insert
  <2>2. chunks' \in [0 .. nchunk - 1 -> Chunk]
    BY <2>1, <1>1, WithCellType DEF TypeInv, TypeOK
  <2>3. cache' \in CacheType
    BY <2>1, <1>1, LookupTypes DEF TypeInv
  <2>4. QED BY <2>1, <2>2, <2>3, <1>2 DEF TypeInv, TypeOK, CacheType
<1>4. CASE ~Exists(lin)
  <2> DEFINE new == WithCell([Background EXCEPT !.pos = ChunkOf(p)], Sub(p), v)
  <2>1. /\ nchunk' = nchunk + 1
        /\ chunks' = [i \in 0 .. nchunk |-> IF i < nchunk THEN chunks[i] ELSE new]
        /\ map' = [l \in DOMAIN map \cup {lin} |-> IF l = lin THEN nchunk ELSE map[l]]
        /\ cache' = AddOnCache(cache, lin, nchunk)
    BY <1>4 DEF Insert
  <2>2. new \in Chunk
    <3>1. [Background EXCEPT !.pos = ChunkOf(p)] \in Chunk
      BY <1>1, ConstantTypes, BackgroundType DEF Chunk
    <3>2. QED BY <3>1, <1>1, WithCellType
  <2>3. nchunk \in Nat \ {0} /\ chunks \in [0 .. nchunk - 1 -> Chunk]
    BY DEF TypeInv, TypeOK
  <2> HIDE DEF new
  <2>4. chunks' \in [0 .. nchunk' - 1 -> Chunk] /\ nchunk' \in Nat \ {0}
    <3>1. \A i \in 0 .. nchunk : (IF i < nchunk THEN chunks[i] ELSE new) \in Chunk
      BY <2>2, <2>3
    <3>2. chunks' \in [0 .. nchunk -> Chunk]
      BY <3>1, <2>1
    <3>3. QED BY <3>2, <2>1, <2>3
  <2>5. DOMAIN map' \subseteq Int /\ \A l \in DOMAIN map' : map'[l] \in 1 .. nchunk' - 1
    BY <2>1, <2>3, <1>1 DEF TypeInv, TypeOK
  <2>6. cache' \in CacheType
    <3>1. lin \in Int /\ nchunk \in Nat /\ cache \in CacheType
      BY <1>1, <2>3 DEF TypeInv, TypeOK, CacheType
    <3> HIDE DEF lin
    <3>2. QED BY <3>1, <2>1, AddOnCacheType
  <2>7. QED BY <2>4, <2>5, <2>6, <1>2 DEF TypeInv, TypeOK, CacheType
<1>5. QED BY <1>3, <1>4

\* The chunks and the list remove_point hands on.
LEMMA RemovePointTypes ==
  ASSUME TypeInv, NEW p \in Points
  PROVE  /\ ChunksWithout(p) \in [0 .. nchunk - 1 -> Chunk]
         /\ EmptyWithout(p) \in EmptyType
         /\ Looked(Lin(ChunkOf(p))) \in CacheType
<1> DEFINE lin == Lin(ChunkOf(p))
<1>1. lin \in Int /\ Active(lin) \in Nat /\ Looked(lin) \in CacheType
  BY ConstantTypes, LookupTypes DEF TypeInv, Lin
<1>2. ChunksWithout(p) \in [0 .. nchunk - 1 -> Chunk]
  BY WithoutCellsType DEF ChunksWithout, TypeInv, TypeOK
<1>3. EmptyWithout(p) \in EmptyType
  BY <1>1, AddEmptyType, FS_Singleton DEF EmptyWithout, TypeInv
<1>4. QED BY <1>1, <1>2, <1>3

LEMMA ReclaimTypes ==
  ASSUME TypeInv, NEW ch \in [0 .. nchunk - 1 -> Chunk], NEW ev \in EmptyType,
         NEW c \in CacheType, RemoveEmpty(ch, ev, c),
         UNCHANGED <<g_sm, findNN, NNlist, conv>>
  PROVE  TypeInv'
BY RemoveEmptyType DEF TypeInv, TypeOK, CacheType, EmptyType

\* The chunks remove(Box) hands on, and those it adds to the list.
LEMMA RemoveBoxTypes ==
  ASSUME TypeInv, NEW lo \in Points, NEW hi \in Points, RemoveBox(lo, hi)
  PROVE  TypeInv'
<1> DEFINE ch == [i \in DOMAIN chunks |->
                    WithoutCells(chunks[i], InSection(chunks[i], lo, hi))]
           S == {i \in DOMAIN chunks : chunks[i].cells # NoCells /\ ch[i].cells = NoCells}
<1>1. RemoveEmpty(ch, AddEmpty(empty_v, S), cache) /\ UNCHANGED <<g_sm, findNN, NNlist, conv>>
  BY DEF RemoveBox
<1>2. ch \in [0 .. nchunk - 1 -> Chunk]
  BY WithoutCellsType DEF TypeInv, TypeOK
<1>3. S \in SUBSET (0 .. nchunk - 1) /\ nchunk \in Nat
  BY DEF TypeInv, TypeOK
<1>4. S \in SUBSET Nat /\ IsFiniteSet(S)
  <2>1. IsFiniteSet(0 .. nchunk - 1)
    BY <1>3, FS_Interval
  <2> HIDE DEF S
  <2>2. IsFiniteSet(S)
    BY <2>1, <1>3, FS_Subset
  <2>3. QED BY <2>2, <1>3
<1>5. AddEmpty(empty_v, S) \in EmptyType /\ cache \in CacheType
  BY <1>4, AddEmptyType DEF TypeInv, TypeOK, CacheType
<1> HIDE DEF ch, S
<1>6. QED BY <1>1, <1>2, <1>5, ReclaimTypes

\* Chunks that lie wholly outside go, the background never does; cropping
\* keeps a chunk where it is.
LEMMA ResizeChunks ==
  ASSUME TypeInv, NEW sz \in Sizes
  PROVE  LET out == {i \in DOMAIN chunks \ {0} : FullyOut(chunks[i], sz)}
             ch == [i \in DOMAIN chunks |->
                      IF i = 0 THEN chunks[0] ELSE Crop(chunks[i], sz)]
         IN  /\ IsFiniteSet(out) /\ out \subseteq 1 .. nchunk - 1
             /\ nchunk - Cardinality(out) \in Nat \ {0}
             /\ ch \in [0 .. nchunk - 1 -> Chunk]
             /\ \A i \in 0 .. nchunk - 1 : ch[i].pos = chunks[i].pos
<1> DEFINE out == {i \in DOMAIN chunks \ {0} : FullyOut(chunks[i], sz)}
           ch == [i \in DOMAIN chunks |->
                    IF i = 0 THEN chunks[0] ELSE Crop(chunks[i], sz)]
<1>1. nchunk \in Nat \ {0} /\ chunks \in [0 .. nchunk - 1 -> Chunk]
  BY DEF TypeInv, TypeOK
<1>2. out \in SUBSET (1 .. nchunk - 1)
  BY <1>1
<1>3. IsFiniteSet(1 .. nchunk - 1) /\ Cardinality(1 .. nchunk - 1) = nchunk - 1
  BY <1>1, FS_Interval
<1> HIDE DEF out
<1>4. IsFiniteSet(out) /\ Cardinality(out) \in Nat /\ Cardinality(out) <= nchunk - 1
  <2>1. IsFiniteSet(out) /\ Cardinality(out) <= Cardinality(1 .. nchunk - 1)
    BY <1>2, <1>3, FS_Subset
  <2>2. QED BY <2>1, <1>3, FS_CardinalityType
<1>5. ASSUME NEW c \in Chunk
      PROVE  Crop(c, sz) \in Chunk /\ Crop(c, sz).pos = c.pos
  BY WithoutCellsType DEF Crop
<1>6. /\ ch \in [0 .. nchunk - 1 -> Chunk]
      /\ \A i \in 0 .. nchunk - 1 : ch[i].pos = chunks[i].pos
  BY <1>1, <1>5
<1>7. QED BY <1>1, <1>2, <1>4, <1>6 DEF out

LEMMA ResizeTypes ==
  ASSUME TypeInv, NEW sz \in Sizes, Resize(sz)
  PROVE  TypeInv'
<1> DEFINE out == {i \in DOMAIN chunks \ {0} : FullyOut(chunks[i], sz)}
           m == nchunk - Cardinality(out)
           ch == [i \in DOMAIN chunks |->
                    IF i = 0 THEN chunks[0] ELSE Crop(chunks[i], sz)]
<1>1. /\ g_sm' = sz
      /\ cache' = ClearCache(cache)
      /\ IF sz >= g_sm
         THEN UNCHANGED <<chunks, nchunk>>
         ELSE chunks' = RemoveKeys(ch, out, m) /\ nchunk' = m
      /\ map' = ReconstructMap(chunks')
      /\ UNCHANGED <<empty_v, findNN, NNlist, conv, ub>>
  BY DEF Resize
<1>2. nchunk \in Nat \ {0} /\ chunks \in [0 .. nchunk - 1 -> Chunk] /\ cache \in CacheType
  BY DEF TypeInv, TypeOK, CacheType
<1>3. IsFiniteSet(out) /\ nchunk - Cardinality(out) \in Nat \ {0} /\ ch \in [0 .. nchunk - 1 -> Chunk]
  BY ResizeChunks
<1> HIDE DEF out, ch
<1>4. nchunk' \in Nat \ {0} /\ chunks' \in [0 .. nchunk' - 1 -> Chunk]
  <2>1. CASE sz >= g_sm
    BY <1>1, <1>2, <2>1
  <2>2. CASE ~(sz >= g_sm)
    <3>1. RemoveKeys(ch, out, nchunk - Cardinality(out))
            \in [0 .. nchunk - Cardinality(out) - 1 -> Chunk]
      BY <1>2, <1>3, RemoveKeysType
    <3>2. QED BY <1>1, <1>3, <2>2, <3>1
  <2>3. QED BY <2>1, <2>2
<1>5. DOMAIN map' \subseteq Int /\ \A lin \in DOMAIN map' : map'[lin] \in 1 .. nchunk' - 1
  BY <1>1, <1>4, ReconstructMapType
<1>6. cache' \in CacheType
  BY <1>1, <1>2, ClearCacheType
<1>7. QED BY <1>1, <1>4, <1>5, <1>6 DEF TypeInv, TypeOK, CacheType, EmptyType

LEMMA ClearTypes ==
  ASSUME TypeInv, Clear
  PROVE  TypeInv'
<1>1. nchunk' = 1 /\ nchunk' \in Nat \ {0}
  BY DEF Clear
<1>2. chunks' \in [0 .. nchunk' - 1 -> Chunk]
  <2>1. 0 .. nchunk' - 1 = {0} /\ chunks[0] \in Chunk
    BY <1>1 DEF TypeInv, TypeOK
  <2>2. QED BY <2>1 DEF Clear
<1>3. DOMAIN map' \subseteq Int /\ \A lin \in DOMAIN map' : map'[lin] \in 1 .. nchunk' - 1
  BY <1>1, <1>2, ReconstructMapType DEF Clear
<1>4. cache' \in CacheType
  BY ClearCacheType DEF Clear, TypeInv, TypeOK, CacheType
<1>5. QED BY <1>1, <1>2, <1>3, <1>4 DEF Clear, TypeInv, TypeOK, CacheType, EmptyType

LEMMA ReorderTypes ==
  ASSUME TypeInv, Reorder
  PROVE  TypeInv'
<1>1. nchunk \in Nat \ {0} /\ chunks \in [0 .. nchunk - 1 -> Chunk] /\ nchunk' = nchunk
  BY DEF Reorder, TypeInv, TypeOK
<1>2. chunks' \in [0 .. nchunk' - 1 -> Chunk]
  BY <1>1 DEF Reorder
<1>3. DOMAIN map' \subseteq Int /\ \A lin \in DOMAIN map' : map'[lin] \in 1 .. nchunk' - 1
  BY <1>1, <1>2, ReconstructMapType DEF Reorder
<1>4. cache' \in CacheType
  BY ClearCacheType DEF Reorder, TypeInv, TypeOK, CacheType
<1>5. empty_v' \in EmptyType
  BY FS_EmptySet DEF Reorder, NoneEmpty, EmptyType
<1>6. /\ findNN' = FALSE /\ DOMAIN NNlist' = {}
      /\ UNCHANGED <<g_sm, conv, ub>>
  BY DEF Reorder
<1>7. QED BY <1>1, <1>2, <1>3, <1>4, <1>5, <1>6 DEF TypeInv, TypeOK, CacheType, EmptyType

\* The steps of a convolution change only conv, cache, NNlist, findNN and ub.
LEMMA ConvTypes ==
  ASSUME TypeInv,
         \/ \E op \in {"conv", "conv_cross"}, lo, hi \in Points : ConvBegin(op, lo, hi)
         \/ \E lo, hi \in Points : ConvUse(lo, hi)
         \/ ConvSkip \/ ConvLookup \/ ConvEnd
  PROVE  TypeInv'
<1> DEFINE NNType(l) == \A i \in DOMAIN l : l[i] \in [plus : Int, minus : Int]
           ConvType == [mode : {"idle", "conv", "conv_cross"}, lo : Int, hi : Int,
                        chunk : Nat, second : BOOLEAN]
<1>1. NNType(NNlist) /\ conv \in ConvType /\ cache \in CacheType /\ Points \subseteq Int
  BY ConstantTypes DEF TypeInv, TypeOK, CacheType
<1>2. ResizeNNlist => NNType(NNlist')
  <2>1. SUFFICES ASSUME ResizeNNlist, NEW i \in DOMAIN NNlist'
                 PROVE  NNlist'[i] \in [plus : Int, minus : Int]
    OBVIOUS
  <2>2. [plus |-> 0, minus |-> 0] \in [plus : Int, minus : Int]
    OBVIOUS
  <2>3. QED BY <2>1, <2>2, <1>1 DEF ResizeNNlist
<1>3. ASSUME UNCHANGED <<g_sm, map, chunks, nchunk, empty_v>>,
             NNType(NNlist'), conv' \in ConvType, cache' \in CacheType,
             findNN' \in BOOLEAN, ub' \in BOOLEAN
      PROVE  TypeInv'
  BY <1>3 DEF TypeInv, TypeOK, CacheType, EmptyType
<1>4. /\ findNN \in BOOLEAN /\ ub \in BOOLEAN
      /\ (UNCHANGED findNN => findNN' \in BOOLEAN) /\ (UNCHANGED ub => ub' \in BOOLEAN)
  BY DEF TypeInv, TypeOK
<1>5. ASSUME NEW op \in {"conv", "conv_cross"}, NEW lo \in Points, NEW hi \in Points,
             ConvBegin(op, lo, hi)
      PROVE  TypeInv'
  <2>1. conv' \in ConvType
    BY <1>5, <1>1 DEF ConvBegin
  <2>2. /\ UNCHANGED <<g_sm, map, chunks, nchunk, empty_v>> /\ cache' \in CacheType
        /\ UNCHANGED findNN /\ UNCHANGED ub /\ ResizeNNlist
    BY <1>5, <1>1 DEF ConvBegin
  <2>3. QED BY <2>1, <2>2, <1>2, <1>3, <1>4
<1>6. ASSUME NEW lo \in Points, NEW hi \in Points, ConvUse(lo, hi)
      PROVE  TypeInv'
  <2>1. /\ UNCHANGED <<g_sm, map, chunks, nchunk, empty_v>> /\ cache' \in CacheType
        /\ UNCHANGED findNN /\ conv' \in ConvType /\ ResizeNNlist
    BY <1>6, <1>1 DEF ConvUse
  <2>2. ub' \in BOOLEAN
    BY <1>6 DEF ConvUse
  <2>3. QED BY <2>1, <2>2, <1>2, <1>3, <1>4
<1>7. ASSUME ConvSkip
      PROVE  TypeInv'
  <2>1. conv' \in ConvType
    BY <1>7, <1>1 DEF ConvSkip
  <2>2. /\ UNCHANGED <<g_sm, map, chunks, nchunk, empty_v>> /\ cache' \in CacheType
        /\ UNCHANGED findNN /\ UNCHANGED ub /\ NNType(NNlist')
    BY <1>7, <1>1 DEF ConvSkip
  <2>3. QED BY <2>1, <2>2, <1>3, <1>4
<1>8. ASSUME ConvLookup
      PROVE  TypeInv'
  <2> DEFINE lin == Lin(Neighbour)
             r == IF Exists(lin) THEN Active(lin) ELSE Absent
  <2>1. UNCHANGED <<g_sm, map, chunks, nchunk, empty_v>> /\ UNCHANGED findNN
    BY <1>8 DEF ConvLookup
  <2>2. CASE Overrun(lin) \/ (Exists(lin) /\ Active(lin) \notin DOMAIN chunks)
    <3>1. ub' = TRUE /\ UNCHANGED <<cache, NNlist, conv>>
      BY <1>8, <2>2 DEF ConvLookup
    <3>2. QED BY <2>1, <3>1, <1>1, <1>3, <1>4
  <2>3. CASE ~(Overrun(lin) \/ (Exists(lin) /\ Active(lin) \notin DOMAIN chunks))
    <3>1. /\ cache' = Looked(lin)
          /\ NNlist' =
               IF conv.mode = "conv_cross" THEN NNlist
               ELSE IF LooksAfter
                    THEN [NNlist EXCEPT ![conv.chunk].plus = r]
                    ELSE [NNlist EXCEPT ![conv.chunk].minus = r]
          /\ conv' = [conv EXCEPT !.second = ~@,
                                  !.chunk = IF conv.second THEN @ + 1 ELSE @]
          /\ UNCHANGED ub
          /\ conv.mode # "idle" /\ conv.chunk < nchunk
          /\ Visited(conv.chunk, conv.lo, conv.hi)
      BY <1>8, <2>3 DEF ConvLookup
    <3>2. conv.chunk \in 0 .. nchunk - 1 /\ chunks \in [0 .. nchunk - 1 -> Chunk]
      BY <3>1, <1>1 DEF TypeInv, TypeOK
    <3>3. lin \in Int
      BY <3>2, ChunkFields DEF Neighbour, Lin
    <3> HIDE DEF lin
    <3>4. cache' \in CacheType /\ r \in Int
      BY <3>1, <3>3, LookupTypes DEF TypeInv, Absent
    <3> HIDE DEF r
    <3>5. NNType(NNlist')
      BY <3>1, <3>4, <1>1
    <3>6. conv' \in ConvType
      <4>1. /\ conv'.second \in BOOLEAN
            /\ conv' = [mode |-> conv.mode, lo |-> conv.lo, hi |-> conv.hi,
                        chunk |-> IF conv.second THEN conv.chunk + 1 ELSE conv.chunk,
                        second |-> ~conv.second]
        BY <3>1, <1>1
      <4>2. QED BY <4>1, <1>1
    <3>7. QED BY <2>1, <3>1, <3>4, <3>5, <3>6, <1>3, <1>4
  <2>4. QED BY <2>2, <2>3
<1>9. ASSUME ConvEnd
      PROVE  TypeInv'
  <2>1. conv' \in ConvType
    BY <1>9 DEF ConvEnd, Idle
  <2>2. /\ UNCHANGED <<g_sm, map, chunks, nchunk, empty_v>> /\ cache' \in CacheType
        /\ findNN' \in BOOLEAN /\ UNCHANGED ub /\ NNType(NNlist')
    BY <1>9, <1>1 DEF ConvEnd
  <2>3. QED BY <2>1, <2>2, <1>3, <1>4
<1>10. QED BY <1>5, <1>6, <1>7, <1>8, <1>9

LEMMA NextTypes == TypeInv /\ [Next]_vars => TypeInv'
<1> SUFFICES ASSUME TypeInv, [Next]_vars PROVE TypeInv'
  OBVIOUS
<1>1. ASSUME NEW p \in Points, NEW v \in Values, Insert(p, v) PROVE TypeInv'
  BY <1>1, InsertTypes
<1>2. ASSUME NEW p \in Points, Get(p) PROVE TypeInv'
  <2>1. Looked(Lin(ChunkOf(p))) \in CacheType
    BY RemovePointTypes
  <2>2. QED BY <1>2, <2>1 DEF Get, TypeInv, TypeOK, CacheType, EmptyType
<1>3. ASSUME NEW p \in Points, Remove(p) PROVE TypeInv'
  BY <1>3, RemovePointTypes, ReclaimTypes DEF Remove
<1>4. ASSUME NEW p \in Points, RemoveNoFlush(p) PROVE TypeInv'
  BY <1>4, RemovePointTypes DEF RemoveNoFlush, TypeInv, TypeOK, CacheType, EmptyType
<1>5. ASSUME FlushRemove PROVE TypeInv'
  BY <1>5, ReclaimTypes DEF FlushRemove, TypeInv, TypeOK, CacheType
<1>6. ASSUME NEW lo \in Points, NEW hi \in Points, RemoveBox(lo, hi) PROVE TypeInv'
  BY <1>6, RemoveBoxTypes
<1>7. ASSUME NEW sz \in Sizes, Resize(sz) PROVE TypeInv'
  BY <1>7, ResizeTypes
<1>8. ASSUME Clear PROVE TypeInv'
  BY <1>8, ClearTypes
<1>9. ASSUME Reorder PROVE TypeInv'
  BY <1>9, ReorderTypes
<1>10. ASSUME UNCHANGED vars PROVE TypeInv'
  BY <1>10 DEF vars, TypeInv, TypeOK, CacheType, EmptyType
<1>11. QED
  BY <1>1, <1>2, <1>3, <1>4, <1>5, <1>6, <1>7, <1>8, <1>9, <1>10, ConvTypes DEF Next

\* Whatever calls the client makes, every variable keeps its type: the three
\* vectors of the grid keep one size through creation, removal and resize, and
\* the hash map never leads past the end of them.
THEOREM TypeCorrect == Spec => []TypeOK
<1>1. TypeInv => TypeOK
  BY DEF TypeInv
<1>2. QED BY <1>1, InitTypes, NextTypes, PTL DEF Spec

-----------------------------------------------------------------------------
(* The index structures agree: what the cache answers is what the map has, *)
(* the map leads to the chunk at each position, and index 0 stays the      *)
(* background.  None of these is inductive alone: removing keys keeps the  *)
(* background only if 0 is never listed as empty, which holds only because *)
(* a lookup never answers 0 for an existing chunk, which needs cache and   *)
(* map to agree with the chunks.                                           *)

\* reorder keeps the background only while std::sort is stable on the chunks
\* there are.
SortIsStable == "reorder" \notin Calls \/ MaxChunks <= InsertionSortMax

Coherent(c, mp) ==
  /\ \A k \in Slots : c.key[k] # -1 => c.key[k] \in DOMAIN mp /\ c.id[k] = mp[c.key[k]]
  /\ \A k, l \in Slots : c.key[k] = c.key[l] /\ c.key[k] # -1 => k = l

OnePerPosition(ch, n) ==
  /\ \A i \in 1 .. n - 1 : ch[i].pos \in Nat
  /\ \A i, j \in 1 .. n - 1 : ch[i].pos = ch[j].pos => i = j

Leads(mp, ch, n) ==
  /\ DOMAIN mp = {Lin(ch[i].pos) : i \in 1 .. n - 1}
  /\ \A i \in 1 .. n - 1 : mp[Lin(ch[i].pos)] = i

Counted(c) == c.nele = Cardinality(DOMAIN c.cells)

IndInv ==
  /\ TypeInv
  /\ chunks[0] = Background
  /\ 0 \notin empty_v.ids
  /\ nchunk <= MaxChunks
  /\ OnePerPosition(chunks, nchunk)
  /\ Leads(map, chunks, nchunk)
  /\ Coherent(cache, map)
  /\ \A i \in DOMAIN chunks : Counted(chunks[i])

LEMMA IndInvImplies ==
  IndInv => MapIsHeaders /\ CacheIsMap /\ CountIsMask /\ BackgroundFirst
BY DEF IndInv, MapIsHeaders, CacheIsMap, CountIsMask, BackgroundFirst, Leads,
       Coherent, Counted

\* reconstruct_map on chunks at different positions.
LEMMA ReconstructMapLeads ==
  ASSUME NEW n \in Nat \ {0}, NEW ch \in [0 .. n - 1 -> Chunk], OnePerPosition(ch, n)
  PROVE  Leads(ReconstructMap(ch), ch, n)
<1>1. ASSUME NEW i \in 1 .. n - 1
      PROVE  ReconstructMap(ch)[Lin(ch[i].pos)] = i
  <2> DEFINE lin == Lin(ch[i].pos)
             j == ReconstructMap(ch)[lin]
  <2>1. lin \in DOMAIN ReconstructMap(ch)
    <3>1. DOMAIN ReconstructMap(ch) = {Lin(ch[k].pos) : k \in 1 .. n - 1}
      BY ReconstructMapType
    <3>2. QED BY <3>1
  <2>2. j \in 1 .. n - 1 /\ Lin(ch[j].pos) = lin
    BY <2>1, ReconstructMapType
  <2> HIDE DEF j
  <2>3. j = i
    BY <2>2 DEF OnePerPosition, Lin
  <2>4. QED BY <2>3 DEF j
<1>2. QED BY <1>1, ReconstructMapType DEF Leads

LEMMA AddCoherent ==
  ASSUME NEW c \in CacheType, NEW mp, Coherent(c, mp),
         NEW lin \in DOMAIN mp, \A k \in Slots : c.key[k] # lin
  PROVE  Coherent(AddOnCache(c, lin, mp[lin]), mp)
<1> DEFINE d == AddOnCache(c, lin, mp[lin])
<1>1. c.pnt \in Slots
  BY DEF CacheType
<1>2. \A k \in Slots : /\ d.key[k] = IF k = c.pnt THEN lin ELSE c.key[k]
                       /\ d.id[k] = IF k = c.pnt THEN mp[lin] ELSE c.id[k]
  BY DEF AddOnCache, CacheType
<1> HIDE DEF d
<1>3. QED BY <1>1, <1>2 DEF Coherent, d

LEMMA ClearedCoherent ==
  ASSUME NEW c \in CacheType, NEW mp
  PROVE  Coherent(ClearCache(c), mp)
BY ClearCacheType DEF Coherent

LEMMA TwoElements == Cardinality({0, 1}) = 2
<1>1. IsFiniteSet({1}) /\ Cardinality({1}) = 1
  BY FS_Singleton
<1>2. Cardinality({1} \cup {0}) = Cardinality({1}) + 1
  BY <1>1, FS_AddElement
<1>3. {1} \cup {0} = {0, 1}
  OBVIOUS
<1>4. QED BY <1>1, <1>2, <1>3

\* A lookup of a coordinate inside the grid answers what the chunks say.
LEMMA LookupIsRight ==
  ASSUME IndInv, NEW lin \in Nat
  PROVE  /\ Exists(lin) <=> lin \in DOMAIN map
         /\ Exists(lin) => /\ Active(lin) = map[lin]
                           /\ Active(lin) \in 1 .. nchunk - 1
                           /\ chunks[Active(lin)].pos = lin
         /\ ~Overrun(lin)
<1>1. Coherent(cache, map) /\ lin # -1 /\ Slots = {0, 1}
  BY ConstantTypes DEF IndInv
<1>2. Hits(cache, lin) = {} \/ \E k \in Slots : Hits(cache, lin) = {k}
  BY <1>1 DEF Hits, Coherent
<1>3. Exists(lin) <=> lin \in DOMAIN map
  BY <1>1 DEF Exists, Hits, Coherent
<1>4. Exists(lin) => Active(lin) = map[lin]
  <2>1. CASE \E k \in Slots : Hits(cache, lin) = {k}
    <3> DEFINE hit == CHOOSE k \in Slots : Hits(cache, lin) = {k}
    <3>1. hit \in Slots /\ Hits(cache, lin) = {hit}
      BY <2>1
    <3>2. Active(lin) = cache.id[hit]
      BY <2>1 DEF Active
    <3> HIDE DEF hit
    <3>3. cache.key[hit] = lin
      BY <3>1 DEF Hits
    <3>4. QED BY <3>1, <3>2, <3>3, <1>1 DEF Coherent
  <2>2. CASE ~ \E k \in Slots : Hits(cache, lin) = {k}
    BY <2>2, <1>3 DEF Active
  <2>3. QED BY <2>1, <2>2
<1>5. lin \in DOMAIN map => map[lin] \in 1 .. nchunk - 1 /\ chunks[map[lin]].pos = lin
  BY DEF IndInv, Leads, Lin
<1>6. ~Overrun(lin)
  <2>1. Cardinality(Hits(cache, lin)) = 0 \/ Cardinality(Hits(cache, lin)) = 1
    BY <1>2, FS_EmptySet, FS_Singleton
  <2>2. QED BY <2>1 DEF Overrun
<1>7. QED BY <1>3, <1>4, <1>5, <1>6

\* It leaves the cache coherent, also for a coordinate outside the grid.
LEMMA LookupCoherent ==
  ASSUME IndInv, NEW lin \in Int, ~Overrun(lin) \/ lin \in Nat
  PROVE  /\ Exists(lin) => Coherent(Recall(lin, Active(lin)), map)
         /\ Coherent(Looked(lin), map)
<1>1. Coherent(cache, map) /\ cache \in CacheType /\ Slots = {0, 1}
  BY ConstantTypes DEF IndInv, TypeInv, TypeOK, CacheType
<1>2. ASSUME Exists(lin)
      PROVE  Coherent(Recall(lin, Active(lin)), map)
  <2>1. CASE \E k \in Slots : Hits(cache, lin) = {k}
    <3>1. /\ Recall(lin, Active(lin)).key = cache.key
          /\ Recall(lin, Active(lin)).id = cache.id
      BY <2>1, <1>1 DEF Recall, CacheType
    <3>2. QED BY <3>1, <1>1 DEF Coherent
  <2>2. CASE ~ \E k \in Slots : Hits(cache, lin) = {k}
    <3>1. Hits(cache, lin) = {}
      <4>1. SUFFICES ASSUME Hits(cache, lin) # {} PROVE FALSE
        OBVIOUS
      <4>2. Hits(cache, lin) = {0, 1}
        BY <4>1, <2>2, <1>1 DEF Hits
      <4>3. Cardinality({0, 1}) = 2
        BY TwoElements
      <4>4. Overrun(lin)
        BY <4>2, <4>3 DEF Overrun
      <4>5. QED BY <4>4, LookupIsRight
    <3>2. lin \in DOMAIN map /\ Active(lin) = map[lin]
      BY <3>1, <2>2, <1>2 DEF Exists, Active
    <3>3. \A k \in Slots : cache.key[k] # lin
      BY <3>1 DEF Hits
    <3>4. Coherent(AddOnCache(cache, lin, map[lin]), map)
      BY <3>2, <3>3, <1>1, AddCoherent
    <3>5. QED BY <3>2, <3>4, <2>2 DEF Recall
  <2>3. QED BY <2>1, <2>2
<1>3. QED BY <1>1, <1>2 DEF Looked

\* Counts follow the cells.
LEMMA WithCellCounts ==
  ASSUME NEW c \in Chunk, NEW s \in Subs, NEW v \in Values, Counted(c)
  PROVE  Counted(WithCell(c, s, v))
<1>1. Cardinality(DOMAIN c.cells \cup {s}) =
        IF s \in DOMAIN c.cells THEN Cardinality(DOMAIN c.cells)
        ELSE Cardinality(DOMAIN c.cells) + 1
  BY ChunkFields, FS_AddElement
<1>2. DOMAIN WithCell(c, s, v).cells = DOMAIN c.cells \cup {s}
  BY WithCellType
<1>3. WithCell(c, s, v).nele = IF s \in DOMAIN c.cells THEN c.nele ELSE c.nele + 1
  BY DEF WithCell
<1>4. QED BY <1>1, <1>2, <1>3 DEF Counted

LEMMA WithoutCellsCounts ==
  ASSUME NEW c \in Chunk, NEW S, Counted(c)
  PROVE  Counted(WithoutCells(c, S))
<1>1. Cardinality(DOMAIN c.cells \ S) =
        Cardinality(DOMAIN c.cells) - Cardinality(DOMAIN c.cells \cap S)
  BY ChunkFields, FS_Difference
<1>2. DOMAIN WithoutCells(c, S).cells = DOMAIN c.cells \ S
  BY WithoutCellsType
<1>3. WithoutCells(c, S).nele = c.nele - Cardinality(DOMAIN c.cells \cap S)
  BY DEF WithoutCells
<1>4. QED BY <1>1, <1>2, <1>3 DEF Counted

LEMMA BackgroundKept ==
  /\ Counted(Background)
  /\ \A S : WithoutCells(Background, S) = Background
<1>1. DOMAIN NoCells = {} /\ Cardinality({}) = 0
  BY FS_EmptySet DEF NoCells
<1>2. ASSUME NEW S PROVE WithoutCells(Background, S) = Background
  <2>1. DOMAIN Background.cells \cap S = {} /\ DOMAIN Background.cells \ S = {}
    BY <1>1 DEF Background
  <2>2. [t \in {} |-> Background.cells[t]] = NoCells
    BY DEF NoCells
  <2>3. WithoutCells(Background, S) = [pos |-> BckCoord, nele |-> 0 - 0, cells |-> NoCells]
    BY <2>1, <2>2, <1>1 DEF WithoutCells, Background
  <2>4. QED BY <2>3 DEF Background
<1>3. QED BY <1>1, <1>2 DEF Counted, Background

\* Removing keys other than the background's.
LEMMA RemoveKeysPositions ==
  ASSUME NEW n \in Nat \ {0}, NEW ch \in [0 .. n - 1 -> Chunk],
         NEW keys, IsFiniteSet(keys), 0 \notin keys, n - Cardinality(keys) >= 1,
         OnePerPosition(ch, n), \A i \in 0 .. n - 1 : Counted(ch[i])
  PROVE  LET m == n - Cardinality(keys)
             kept == RemoveKeys(ch, keys, m)
         IN  /\ kept[0] = ch[0]
             /\ OnePerPosition(kept, m)
             /\ \A i \in 0 .. m - 1 : Counted(kept[i])
<1> DEFINE m == n - Cardinality(keys)
           kept == RemoveKeys(ch, keys, m)
           S == 0 .. n - 1 \ keys
<1>1. m \in Nat \ {0} /\ m <= Cardinality(S)
  <2>1. Cardinality(keys) \in Nat /\ n - Cardinality(keys) <= Cardinality(S)
    BY Survivors
  <2>2. QED BY <2>1
<1>2. DOMAIN ch = 0 .. n - 1 /\ 0 \in S
  OBVIOUS
<1> HIDE DEF m
<1>3. /\ \A i \in 0 .. m - 1 : Nth(S, i) \in S /\ kept[i] = ch[Nth(S, i)]
      /\ \A i, j \in 0 .. m - 1 : Nth(S, i) = Nth(S, j) => i = j
      /\ Nth(S, 0) = 0
  <2>1. m \in Nat /\ n \in Nat /\ m <= Cardinality(0 .. n - 1 \ keys)
    BY <1>1
  <2>2. /\ DOMAIN RemoveKeys(ch, keys, m) = 0 .. m - 1
        /\ \A i \in 0 .. m - 1 :
             /\ Nth(0 .. n - 1 \ keys, i) \in 0 .. n - 1 \ keys
             /\ RemoveKeys(ch, keys, m)[i] = ch[Nth(0 .. n - 1 \ keys, i)]
        /\ \A i, j \in 0 .. m - 1 :
             Nth(0 .. n - 1 \ keys, i) = Nth(0 .. n - 1 \ keys, j) => i = j
        /\ 0 < m /\ 0 \in 0 .. n - 1 \ keys => Nth(0 .. n - 1 \ keys, 0) = 0
    BY <2>1, <1>2, RemoveKeysKeeps, Zenon
  <2>3. 0 < m
    BY <1>1
  <2>4. QED BY <2>2, <2>3, <1>2
<1> HIDE DEF kept
<1>9. 0 \in 0 .. m - 1
  BY <1>1
<1>4. kept[0] = ch[0]
  BY <1>9, <1>3
<1>5. ASSUME NEW i \in 1 .. m - 1
      PROVE  Nth(S, i) \in 1 .. n - 1
  <2>1. i \in 0 .. m - 1 /\ i # 0
    BY <1>1
  <2>4. Nth(S, i) \in 0 .. n - 1
    BY <2>1, <1>3
  <2>2. Nth(S, i) # 0
    BY <2>1, <1>9, <1>3
  <2>3. QED BY <2>4, <2>2
<1>6. OnePerPosition(kept, m)
  <2>1. \A i \in 1 .. m - 1 : i \in 0 .. m - 1
    BY <1>1
  <2>3. \A i \in 1 .. m - 1 : kept[i] = ch[Nth(S, i)] /\ Nth(S, i) \in 1 .. n - 1
    BY <2>1, <1>3, <1>5, Zenon
  <2>4. ASSUME NEW i \in 1 .. m - 1 PROVE kept[i].pos \in Nat
    BY <2>3, Zenon DEF OnePerPosition
  <2>5. ASSUME NEW i \in 1 .. m - 1, NEW j \in 1 .. m - 1, kept[i].pos = kept[j].pos
        PROVE  i = j
    <3> DEFINE k == Nth(S, i)
               l == Nth(S, j)
    <3>3. k \in 1 .. n - 1 /\ l \in 1 .. n - 1 /\ kept[i] = ch[k] /\ kept[j] = ch[l]
      BY <2>3, Zenon
    <3>4. ch[k].pos = ch[l].pos
      BY <2>5, <3>3, Zenon
    <3>1. k = l
      BY <3>3, <3>4, Zenon DEF OnePerPosition
    <3>2. QED BY <3>1, <2>1, <1>3, Zenon
  <2>2. QED BY <2>4, <2>5, Zenon DEF OnePerPosition
<1>7. \A i \in 0 .. m - 1 : Counted(kept[i])
  BY <1>3
<1>8. QED BY <1>4, <1>6, <1>7 DEF m, kept

\* What is left when map and cache are built anew.
LEMMA Rebuilt ==
  ASSUME TypeInv', chunks'[0] = Background, 0 \notin empty_v'.ids,
         nchunk' <= MaxChunks, OnePerPosition(chunks', nchunk'),
         map' = ReconstructMap(chunks'), NEW c \in CacheType, cache' = ClearCache(c),
         \A i \in 0 .. nchunk' - 1 : Counted(chunks'[i])
  PROVE  IndInv'
<1>1. nchunk' \in Nat \ {0} /\ chunks' \in [0 .. nchunk' - 1 -> Chunk]
  BY DEF TypeInv, TypeOK
<1>2. Leads(map', chunks', nchunk')
  BY <1>1, ReconstructMapLeads
<1>3. Coherent(cache', map')
  BY ClearedCoherent
<1>4. QED BY <1>1, <1>2, <1>3 DEF IndInv

\* remove_empty keeps the invariant for every list that does not name the
\* background and every ch at the same positions.
LEMMA ReclaimKeeps ==
  ASSUME IndInv, NEW ch \in [0 .. nchunk - 1 -> Chunk],
         \A i \in 0 .. nchunk - 1 : ch[i].pos = chunks[i].pos,
         \A i \in 0 .. nchunk - 1 : Counted(ch[i]),
         ch[0] = Background,
         NEW ev \in EmptyType, 0 \notin ev.ids,
         NEW c \in CacheType, Coherent(c, map),
         RemoveEmpty(ch, ev, c), UNCHANGED <<g_sm, findNN, NNlist, conv>>
  PROVE  IndInv'
<1>1. TypeInv'
  BY ReclaimTypes DEF IndInv
<1>2. nchunk \in Nat \ {0} /\ nchunk <= MaxChunks /\ MaxChunks \in Nat
  BY ConstantTypes DEF IndInv, TypeInv, TypeOK
<1>3. OnePerPosition(ch, nchunk)
  BY <1>2 DEF IndInv, OnePerPosition
<1>4. CASE ev.size < FLUSH_REMOVE
  <2>1. chunks' = ch /\ empty_v' = ev /\ cache' = c /\ map' = map /\ nchunk' = nchunk
    BY <1>4 DEF RemoveEmpty
  <2>2. Leads(map, ch, nchunk)
    BY <1>2 DEF IndInv, Leads
  <2>3. QED BY <1>1, <1>2, <1>3, <2>1, <2>2 DEF IndInv
<1>5. CASE ~(ev.size < FLUSH_REMOVE)
  <2> DEFINE dead(stale) == ReallyEmpty(ch, ev) \cup stale
             m(stale) == nchunk - Cardinality(dead(stale))
  <2>1. PICK stale \in SUBSET (ev.ids \ DOMAIN ch) :
          IF m(stale) < 1
          THEN ub' = TRUE /\ UNCHANGED <<map, chunks, nchunk, cache, empty_v>>
          ELSE /\ nchunk' = m(stale)
               /\ chunks' = RemoveKeys(ch, dead(stale), m(stale))
               /\ map' = ReconstructMap(chunks')
               /\ empty_v' = NoneEmpty
               /\ cache' = ClearCache(c)
               /\ UNCHANGED ub
    BY <1>5 DEF RemoveEmpty
  <2>2. CASE m(stale) < 1
    BY <1>1, <2>1, <2>2 DEF IndInv
  <2>3. CASE ~(m(stale) < 1)
    <3> DEFINE keys == dead(stale)
    <3>1. keys \subseteq ev.ids /\ IsFiniteSet(ev.ids)
      BY DEF ReallyEmpty, EmptyType
    <3>2. IsFiniteSet(keys) /\ 0 \notin keys
      BY <3>1, FS_Subset
    <3>3. /\ nchunk' = nchunk - Cardinality(keys)
          /\ chunks' = RemoveKeys(ch, keys, nchunk - Cardinality(keys))
          /\ map' = ReconstructMap(chunks')
          /\ empty_v' = NoneEmpty
          /\ cache' = ClearCache(c)
      BY <2>1, <2>3
    <3> HIDE DEF keys
    <3>4. Cardinality(keys) \in Nat
      BY <3>2, FS_CardinalityType
    <3>5. nchunk - Cardinality(keys) >= 1
      BY <2>3, <3>4, <1>2 DEF keys
    <3>6. /\ chunks'[0] = Background
          /\ OnePerPosition(chunks', nchunk')
          /\ \A i \in 0 .. nchunk' - 1 : Counted(chunks'[i])
      BY <3>2, <3>3, <3>5, <1>2, <1>3, RemoveKeysPositions
    <3>7. 0 \notin empty_v'.ids /\ nchunk' <= MaxChunks
      BY <3>3, <3>4, <1>2 DEF NoneEmpty
    <3>8. QED BY <3>3, <3>6, <3>7, <1>1, Rebuilt
  <2>4. QED BY <2>2, <2>3
<1>6. QED BY <1>4, <1>5

LEMMA IndInvInit == Init => IndInv
<1> SUFFICES ASSUME Init PROVE IndInv
  OBVIOUS
<1>1. TypeInv
  BY InitTypes
<1>2. /\ nchunk = 1 /\ 1 .. nchunk - 1 = {} /\ DOMAIN chunks = {0}
      /\ chunks[0] = Background /\ DOMAIN map = {} /\ empty_v.ids = {}
      /\ nchunk <= MaxChunks
  BY ConstantTypes DEF Init, NoneEmpty
<1>3. Coherent(cache, map)
  BY DEF Init, InitialCache, Coherent
<1>4. OnePerPosition(chunks, nchunk) /\ Leads(map, chunks, nchunk)
  BY <1>2 DEF OnePerPosition, Leads
<1>5. QED BY <1>1, <1>2, <1>3, <1>4, BackgroundKept DEF IndInv

LEMMA InsertKeeps ==
  ASSUME IndInv, NEW p \in Points, NEW v \in Values, Insert(p, v)
  PROVE  IndInv'
<1> DEFINE lin == Lin(ChunkOf(p))
<1>1. lin \in Nat /\ lin = ChunkOf(p) /\ Sub(p) \in Subs
  BY ConstantTypes DEF Lin
<1>2. TypeInv'
  BY InsertTypes DEF IndInv
<1>3. UNCHANGED empty_v
  BY DEF Insert
<1>4. nchunk \in Nat \ {0} /\ MaxChunks \in Nat /\ chunks \in [0 .. nchunk - 1 -> Chunk]
  BY ConstantTypes DEF IndInv, TypeInv, TypeOK
<1>5. CASE Exists(lin)
  <2> DEFINE i == Active(lin)
  <2>1. /\ chunks' = [chunks EXCEPT ![i] = WithCell(@, Sub(p), v)]
        /\ cache' = Recall(lin, i)
        /\ UNCHANGED <<map, nchunk>>
    BY <1>5 DEF Insert
  <2>2. i \in 1 .. nchunk - 1
    BY <1>1, <1>5, LookupIsRight
  <2>3. Coherent(cache', map')
    BY <1>1, <1>5, <2>1, LookupCoherent
  <2> HIDE DEF i, lin
  <2>4. /\ chunks[i] \in Chunk
        /\ WithCell(chunks[i], Sub(p), v).pos = chunks[i].pos
        /\ Counted(WithCell(chunks[i], Sub(p), v))
    BY <1>1, <1>4, <2>2, WithCellType, WithCellCounts DEF IndInv
  <2>5. /\ \A j \in 0 .. nchunk - 1 : chunks'[j].pos = chunks[j].pos /\ Counted(chunks'[j])
        /\ chunks'[0] = chunks[0] /\ DOMAIN chunks' = 0 .. nchunk - 1
    BY <1>4, <2>1, <2>2, <2>4 DEF IndInv
  <2>6. OnePerPosition(chunks', nchunk') /\ Leads(map', chunks', nchunk')
    BY <1>4, <2>1, <2>5 DEF IndInv, OnePerPosition, Leads
  <2>7. QED BY <1>2, <1>3, <2>1, <2>3, <2>5, <2>6 DEF IndInv
<1>6. CASE ~Exists(lin)
  <2> DEFINE new == WithCell([Background EXCEPT !.pos = ChunkOf(p)], Sub(p), v)
  <2>1. /\ nchunk < MaxChunks
        /\ nchunk' = nchunk + 1
        /\ chunks' = [i \in 0 .. nchunk |-> IF i < nchunk THEN chunks[i] ELSE new]
        /\ map' = [l \in DOMAIN map \cup {lin} |-> IF l = lin THEN nchunk ELSE map[l]]
        /\ cache' = AddOnCache(cache, lin, nchunk)
    BY <1>6 DEF Insert
  <2>2. new.pos = lin /\ Counted(new)
    <3> DEFINE b == [Background EXCEPT !.pos = ChunkOf(p)]
    <3>1. b \in Chunk /\ b.pos = lin
      BY <1>1, BackgroundType DEF Chunk
    <3>2. Counted(b)
      BY BackgroundKept DEF Counted, Background
    <3>3. QED BY <3>1, <3>2, <1>1, WithCellType, WithCellCounts
  <2> HIDE DEF new, lin
  <2>3. lin \notin DOMAIN map /\ \A k \in Slots : cache.key[k] # lin
    BY <1>1, <1>6 DEF Exists, Hits
  <2>4. /\ \A j \in 0 .. nchunk - 1 : chunks'[j] = chunks[j]
        /\ chunks'[nchunk] = new /\ DOMAIN chunks' = 0 .. nchunk
    BY <2>1, <1>4
  <2>5. \A j \in 1 .. nchunk - 1 : chunks[j].pos # lin
    BY <2>3 DEF IndInv, Leads, Lin
  <2>6. \A j \in 1 .. nchunk' - 1 : j = nchunk \/ j \in 1 .. nchunk - 1
    BY <2>1, <1>4
  <2>7. OnePerPosition(chunks', nchunk')
    <3>1. \A j \in 1 .. nchunk - 1 : j \in 0 .. nchunk - 1
      OBVIOUS
    <3>2. QED BY <1>1, <2>2, <2>4, <2>5, <2>6, <3>1 DEF IndInv, OnePerPosition
  <2>8. Leads(map', chunks', nchunk')
    <3>1. DOMAIN map' = {Lin(chunks'[i].pos) : i \in 1 .. nchunk' - 1}
      <4>1. \A j \in 1 .. nchunk - 1 : j \in 0 .. nchunk - 1 /\ j \in 1 .. nchunk' - 1
        BY <2>1, <1>4
      <4>2. nchunk \in 1 .. nchunk' - 1
        BY <2>1, <1>4
      <4>3. QED BY <2>1, <2>2, <2>4, <2>6, <4>1, <4>2 DEF IndInv, Leads, Lin
    <3>2. ASSUME NEW j \in 1 .. nchunk' - 1
          PROVE  map'[Lin(chunks'[j].pos)] = j
      <4>1. CASE j = nchunk
        BY <4>1, <2>1, <2>2, <2>4 DEF Lin
      <4>2. CASE j \in 1 .. nchunk - 1
        <5>1. chunks'[j] = chunks[j] /\ chunks[j].pos # lin
          BY <4>2, <2>4, <2>5
        <5>2. chunks[j].pos \in DOMAIN map /\ map[chunks[j].pos] = j
          BY <4>2 DEF IndInv, Leads, Lin
        <5>3. QED BY <5>1, <5>2, <2>1 DEF Lin
      <4>3. QED BY <4>1, <4>2, <2>6
    <3>3. QED BY <3>1, <3>2 DEF Leads
  <2>9. Coherent(cache', map')
    <3>1. Coherent(cache, map')
      BY <2>1, <2>3 DEF IndInv, Coherent
    <3>2. lin \in DOMAIN map' /\ map'[lin] = nchunk
      BY <2>1
    <3>3. cache \in CacheType
      BY DEF IndInv, TypeInv, TypeOK, CacheType
    <3>4. Coherent(AddOnCache(cache, lin, map'[lin]), map')
      BY <3>1, <3>2, <3>3, <2>3, AddCoherent
    <3>5. QED BY <3>2, <3>4, <2>1
  <2>10. \A j \in DOMAIN chunks' : Counted(chunks'[j])
    <3>1. \A j \in 0 .. nchunk : j = nchunk \/ j \in 0 .. nchunk - 1
      BY <1>4
    <3>2. QED BY <3>1, <1>4, <2>2, <2>4 DEF IndInv
  <2>11. nchunk' <= MaxChunks /\ chunks'[0] = Background
    BY <1>4, <2>1, <2>4 DEF IndInv
  <2>12. QED BY <1>2, <1>3, <2>7, <2>8, <2>9, <2>10, <2>11 DEF IndInv
<1>7. QED BY <1>5, <1>6

\* remove_point takes one cell from the chunk the lookup answers and never
\* lists the background.
LEMMA RemovePointKeeps ==
  ASSUME IndInv, NEW p \in Points
  PROVE  /\ \A i \in 0 .. nchunk - 1 :
              ChunksWithout(p)[i].pos = chunks[i].pos /\ Counted(ChunksWithout(p)[i])
         /\ ChunksWithout(p)[0] = Background
         /\ 0 \notin EmptyWithout(p).ids
         /\ Coherent(Looked(Lin(ChunkOf(p))), map)
<1> DEFINE lin == Lin(ChunkOf(p))
           i == Active(lin)
<1>1. lin \in Nat
  BY ConstantTypes DEF Lin
<1>2. nchunk \in Nat \ {0} /\ chunks \in [0 .. nchunk - 1 -> Chunk]
  BY DEF IndInv, TypeInv, TypeOK
<1>3. Exists(lin) => i \in 1 .. nchunk - 1
  BY <1>1, LookupIsRight
<1>4. Coherent(Looked(lin), map)
  BY <1>1, LookupCoherent
<1>5. /\ ChunksWithout(p) = IF Exists(lin)
                            THEN [chunks EXCEPT ![i] = WithoutCells(chunks[i], {Sub(p)})]
                            ELSE chunks
      /\ EmptyWithout(p) # empty_v => Exists(lin) /\ EmptyWithout(p) = AddEmpty(empty_v, {i})
  <2>1. ChunksWithout(p) = IF Exists(lin)
                            THEN [chunks EXCEPT ![i] = WithoutCells(chunks[i], {Sub(p)})]
                            ELSE chunks
    BY DEF ChunksWithout
  <2>2. ASSUME EmptyWithout(p) # empty_v
        PROVE  Exists(lin) /\ EmptyWithout(p) = AddEmpty(empty_v, {i})
    BY <2>2 DEF EmptyWithout
  <2>3. QED BY <2>1, <2>2
<1> HIDE DEF lin, i
<1>6. CASE Exists(lin)
  <2>1. /\ WithoutCells(chunks[i], {Sub(p)}).pos = chunks[i].pos
        /\ Counted(WithoutCells(chunks[i], {Sub(p)}))
    BY <1>2, <1>3, <1>6, WithoutCellsType, WithoutCellsCounts DEF IndInv
  <2>2. 0 \notin EmptyWithout(p).ids
    BY <1>3, <1>5, <1>6 DEF AddEmpty, IndInv
  <2>3. QED BY <1>2, <1>3, <1>4, <1>5, <1>6, <2>1, <2>2 DEF IndInv, lin
<1>7. CASE ~Exists(lin)
  BY <1>2, <1>4, <1>5, <1>7 DEF IndInv, lin
<1>8. QED BY <1>6, <1>7

LEMMA RemoveKeeps ==
  ASSUME IndInv, NEW p \in Points, Remove(p)
  PROVE  IndInv'
<1>1. /\ ChunksWithout(p) \in [0 .. nchunk - 1 -> Chunk]
      /\ EmptyWithout(p) \in EmptyType
      /\ Looked(Lin(ChunkOf(p))) \in CacheType
  BY RemovePointTypes DEF IndInv
<1>2. /\ RemoveEmpty(ChunksWithout(p), EmptyWithout(p), Looked(Lin(ChunkOf(p))))
      /\ UNCHANGED <<g_sm, findNN, NNlist, conv>>
  BY DEF Remove
<1>3. QED BY <1>1, <1>2, RemovePointKeeps, ReclaimKeeps

LEMMA RemoveNoFlushKeeps ==
  ASSUME IndInv, NEW p \in Points, RemoveNoFlush(p)
  PROVE  IndInv'
<1>1. /\ chunks' = ChunksWithout(p)
      /\ empty_v' = EmptyWithout(p)
      /\ cache' = Looked(Lin(ChunkOf(p)))
      /\ UNCHANGED <<g_sm, map, nchunk, findNN, NNlist, conv, ub>>
  BY DEF RemoveNoFlush
<1>2. TypeInv'
  BY NextTypes DEF IndInv, Next
<1>3. /\ ChunksWithout(p) \in [0 .. nchunk - 1 -> Chunk]
      /\ nchunk \in Nat \ {0}
  BY RemovePointTypes DEF IndInv, TypeInv, TypeOK
<1>4. OnePerPosition(chunks', nchunk') /\ Leads(map', chunks', nchunk')
  <2>1. \A i \in 0 .. nchunk - 1 : chunks'[i].pos = chunks[i].pos
    BY <1>1, RemovePointKeeps
  <2>2. \A i \in 1 .. nchunk - 1 : i \in 0 .. nchunk - 1
    BY <1>3
  <2>3. nchunk' = nchunk /\ map' = map
    BY <1>1
  <2>4. OnePerPosition(chunks, nchunk) /\ Leads(map, chunks, nchunk)
    BY DEF IndInv
  <2>5. OnePerPosition(chunks', nchunk)
    BY <2>1, <2>2, <2>4 DEF OnePerPosition
  <2>6. Leads(map, chunks', nchunk)
    <3>1. \A i \in 1 .. nchunk - 1 : Lin(chunks'[i].pos) = Lin(chunks[i].pos)
      BY <2>1, <2>2
    <3>2. QED BY <2>4, <3>1 DEF Leads
  <2>7. QED BY <2>3, <2>5, <2>6
<1>5. \A i \in DOMAIN chunks' : Counted(chunks'[i])
  BY <1>1, <1>3, RemovePointKeeps
<1>6. QED BY <1>1, <1>2, <1>4, <1>5, RemovePointKeeps DEF IndInv

LEMMA FlushRemoveKeeps ==
  ASSUME IndInv, FlushRemove
  PROVE  IndInv'
<1>1. /\ chunks \in [0 .. nchunk - 1 -> Chunk] /\ empty_v \in EmptyType
      /\ cache \in CacheType /\ Coherent(cache, map)
      /\ chunks[0] = Background /\ 0 \notin empty_v.ids
      /\ \A i \in 0 .. nchunk - 1 : Counted(chunks[i])
  BY DEF IndInv, TypeInv, TypeOK, CacheType
<1>2. RemoveEmpty(chunks, empty_v, cache) /\ UNCHANGED <<g_sm, findNN, NNlist, conv>>
  BY DEF FlushRemove
<1>3. QED BY <1>1, <1>2, ReclaimKeeps

LEMMA RemoveBoxKeeps ==
  ASSUME IndInv, NEW lo \in Points, NEW hi \in Points, RemoveBox(lo, hi)
  PROVE  IndInv'
<1> DEFINE ch == [i \in DOMAIN chunks |->
                    WithoutCells(chunks[i], InSection(chunks[i], lo, hi))]
           S == {i \in DOMAIN chunks : chunks[i].cells # NoCells /\ ch[i].cells = NoCells}
           ev == AddEmpty(empty_v, S)
<1>1. RemoveEmpty(ch, ev, cache) /\ UNCHANGED <<g_sm, findNN, NNlist, conv>>
  BY DEF RemoveBox
<1>2. /\ nchunk \in Nat \ {0} /\ chunks \in [0 .. nchunk - 1 -> Chunk]
      /\ cache \in CacheType /\ Coherent(cache, map) /\ empty_v \in EmptyType
      /\ \A i \in 0 .. nchunk - 1 : Counted(chunks[i])
      /\ chunks[0] = Background /\ 0 \notin empty_v.ids
  BY DEF IndInv, TypeInv, TypeOK, CacheType
<1>3. /\ ch \in [0 .. nchunk - 1 -> Chunk]
      /\ \A i \in 0 .. nchunk - 1 : ch[i].pos = chunks[i].pos /\ Counted(ch[i])
  BY <1>2, WithoutCellsType, WithoutCellsCounts
<1>4. ch[0] = Background
  BY <1>2, BackgroundKept
<1>5. S \in SUBSET (0 .. nchunk - 1) /\ 0 \notin S
  BY <1>2 DEF Background
<1>6. S \in SUBSET Nat /\ IsFiniteSet(S)
  <2>1. IsFiniteSet(0 .. nchunk - 1)
    BY <1>2, FS_Interval
  <2> HIDE DEF S
  <2>2. IsFiniteSet(S)
    BY <2>1, <1>5, FS_Subset
  <2>3. QED BY <2>2, <1>5
<1> HIDE DEF ch, S
<1>7. ev \in EmptyType /\ 0 \notin ev.ids
  BY <1>2, <1>5, <1>6, AddEmptyType DEF AddEmpty
<1> HIDE DEF ev
<1>8. QED BY <1>1, <1>2, <1>3, <1>4, <1>7, ReclaimKeeps

LEMMA ResizeKeeps ==
  ASSUME IndInv, NEW sz \in Sizes, Resize(sz)
  PROVE  IndInv'
<1> DEFINE out == {i \in DOMAIN chunks \ {0} : FullyOut(chunks[i], sz)}
           ch == [i \in DOMAIN chunks |->
                    IF i = 0 THEN chunks[0] ELSE Crop(chunks[i], sz)]
<1>1. /\ cache' = ClearCache(cache)
      /\ IF sz >= g_sm
         THEN UNCHANGED <<chunks, nchunk>>
         ELSE /\ chunks' = RemoveKeys(ch, out, nchunk - Cardinality(out))
              /\ nchunk' = nchunk - Cardinality(out)
      /\ map' = ReconstructMap(chunks')
      /\ UNCHANGED empty_v
  BY DEF Resize
<1>2. TypeInv'
  BY ResizeTypes DEF IndInv
<1>3. /\ nchunk \in Nat \ {0} /\ chunks \in [0 .. nchunk - 1 -> Chunk]
      /\ cache \in CacheType /\ nchunk <= MaxChunks /\ MaxChunks \in Nat
      /\ chunks[0] = Background /\ 0 \notin empty_v.ids
      /\ \A i \in 0 .. nchunk - 1 : Counted(chunks[i])
      /\ OnePerPosition(chunks, nchunk)
  BY ConstantTypes DEF IndInv, TypeInv, TypeOK, CacheType
<1>4. /\ IsFiniteSet(out) /\ 0 \notin out
      /\ nchunk - Cardinality(out) \in Nat \ {0}
      /\ ch \in [0 .. nchunk - 1 -> Chunk]
      /\ \A i \in 0 .. nchunk - 1 : ch[i].pos = chunks[i].pos
  BY ResizeChunks DEF IndInv
<1>5. /\ ch[0] = Background
      /\ \A i \in 0 .. nchunk - 1 : Counted(ch[i])
  BY <1>3, WithoutCellsCounts DEF Crop
<1> HIDE DEF out, ch
<1>6. /\ chunks'[0] = Background
      /\ OnePerPosition(chunks', nchunk')
      /\ \A i \in 0 .. nchunk' - 1 : Counted(chunks'[i])
      /\ nchunk' <= MaxChunks
  <2>1. CASE sz >= g_sm
    BY <1>1, <1>3, <2>1
  <2>2. CASE ~(sz >= g_sm)
    <3>1. OnePerPosition(ch, nchunk) /\ nchunk - Cardinality(out) >= 1
      BY <1>3, <1>4 DEF OnePerPosition
    <3>2. Cardinality(out) \in Nat
      BY <1>4, FS_CardinalityType
    <3>3. /\ nchunk' = nchunk - Cardinality(out)
          /\ chunks' = RemoveKeys(ch, out, nchunk - Cardinality(out))
      BY <1>1, <2>2
    <3>4. nchunk' <= MaxChunks
      BY <3>2, <3>3, <1>3
    <3>5. QED BY <3>1, <3>3, <3>4, <1>3, <1>4, <1>5, RemoveKeysPositions
  <2>3. QED BY <2>1, <2>2
<1>7. QED BY <1>1, <1>2, <1>3, <1>6, Rebuilt

LEMMA ClearKeeps ==
  ASSUME IndInv, Clear
  PROVE  IndInv'
<1>1. /\ nchunk' = 1 /\ chunks' = [i \in {0} |-> chunks[0]]
      /\ cache' = ClearCache(cache) /\ map' = ReconstructMap(chunks')
      /\ UNCHANGED empty_v
  BY DEF Clear
<1>2. TypeInv'
  BY ClearTypes DEF IndInv
<1>3. cache \in CacheType /\ chunks[0] = Background /\ 0 \notin empty_v.ids /\ 1 <= MaxChunks
  BY ConstantTypes DEF IndInv, TypeInv, TypeOK, CacheType
<1>4. 1 .. nchunk' - 1 = {} /\ 0 .. nchunk' - 1 = {0}
  BY <1>1
<1>5. OnePerPosition(chunks', nchunk')
  BY <1>4 DEF OnePerPosition
<1>6. chunks'[0] = Background /\ \A i \in 0 .. nchunk' - 1 : Counted(chunks'[i])
  BY <1>1, <1>3, <1>4, BackgroundKept
<1>7. QED BY <1>1, <1>2, <1>3, <1>5, <1>6, Rebuilt

\* Sorting keeps the background first: its key is the smallest, and the sort
\* does not move it past a chunk with the same key.
LEMMA ReorderKeeps ==
  ASSUME IndInv, SortIsStable, Reorder
  PROVE  IndInv'
<1>1. /\ nchunk \in Nat \ {0} /\ chunks \in [0 .. nchunk - 1 -> Chunk] /\ nchunk' = nchunk
      /\ cache \in CacheType /\ nchunk <= MaxChunks /\ MaxChunks \in Nat
      /\ chunks[0] = Background /\ OnePerPosition(chunks, nchunk)
      /\ \A i \in 0 .. nchunk - 1 : Counted(chunks[i])
  <2>1. /\ nchunk \in Nat \ {0} /\ chunks \in [0 .. nchunk - 1 -> Chunk]
        /\ cache \in CacheType
    BY DEF IndInv, TypeInv, TypeOK, CacheType
  <2>2. nchunk' = nchunk
    BY DEF Reorder
  <2>3. QED BY <2>1, <2>2, ConstantTypes DEF IndInv
<1>2. nchunk <= InsertionSortMax
  <2>1. MaxChunks <= InsertionSortMax /\ InsertionSortMax \in Nat
    BY SizesAssumption DEF SortIsStable, Reorder, Ready
  <2>2. QED BY <2>1, <1>1
<1>3. PICK q \in [DOMAIN chunks -> DOMAIN chunks] :
        /\ \A i, j \in DOMAIN q : q[i] = q[j] => i = j
        /\ IsSorted(q)
        /\ chunks' = [i \in DOMAIN chunks |-> chunks[q[i]]]
  BY DEF Reorder
<1> DEFINE I == 0 .. nchunk - 1
<1>4. q \in [I -> I] /\ DOMAIN chunks = I /\ 0 \in I /\ IsFiniteSet(I)
  <2>1. IsFiniteSet(I)
    BY <1>1, FS_Interval
  <2>2. DOMAIN chunks = I /\ 0 \in I
    BY <1>1
  <2>3. QED BY <2>1, <2>2, <1>3
<1> HIDE DEF I
<1>5. \A t \in I : \E i \in I : q[i] = t
  <2>1. q \in Injection(I, I)
    BY <1>3, <1>4, Fun_IsInj
  <2>2. q \in Surjection(I, I)
    BY <2>1, <1>4, FS_Injection
  <2>3. QED BY <2>2 DEF Surjection
<1>6. SortKey(chunks[0]) = 0 /\ \A i \in I : SortKey(chunks[i]) \in Nat
  <2>1. SortKey(chunks[0]) = 0
    BY <1>1, BackgroundType DEF SortKey
  <2>2. \A i \in 1 .. nchunk - 1 : SortKey(chunks[i]) \in Nat
    BY <1>1 DEF SortKey, OnePerPosition, Lin
  <2>3. \A i \in I : i = 0 \/ i \in 1 .. nchunk - 1
    BY <1>1 DEF I
  <2>4. QED BY <2>1, <2>2, <2>3
<1>7. q[0] = 0
  <2>1. PICK k \in I : q[k] = 0
    BY <1>4, <1>5
  <2>2. ASSUME 0 < k PROVE FALSE
    <3>1. \/ SortKey(chunks[q[0]]) < SortKey(chunks[q[k]])
          \/ q[0] < q[k]
      BY <1>2, <1>3, <1>4, <2>1, <2>2 DEF IsSorted
    <3>2. q[0] \in I /\ ~(q[0] < 0)
      BY <1>4 DEF I
    <3>3. SortKey(chunks[q[0]]) \in Nat
      BY <3>2, <1>6
    <3>4. QED BY <3>1, <3>2, <3>3, <2>1, <1>6
  <2>3. k = 0
    BY <2>1, <2>2, <1>1 DEF I
  <2>4. QED BY <2>1, <2>3
<1>8. /\ chunks'[0] = Background
      /\ \A i \in I : chunks'[i] = chunks[q[i]]
  BY <1>1, <1>3, <1>4, <1>7
<1>9. OnePerPosition(chunks', nchunk')
  <2>1. \A i \in 1 .. nchunk - 1 : i \in I /\ i # 0
    BY <1>1 DEF I
  <2>2. ASSUME NEW i \in 1 .. nchunk - 1
        PROVE  q[i] \in 1 .. nchunk - 1
    <3>1. q[i] \in I /\ q[i] # 0
      BY <2>1, <1>3, <1>4, <1>7
    <3>2. QED BY <3>1, <1>1 DEF I
  <2>3. \A i, j \in 1 .. nchunk - 1 : q[i] = q[j] => i = j
    BY <2>1, <1>3, <1>4
  <2>4. \A i \in 1 .. nchunk - 1 : chunks'[i] = chunks[q[i]]
    BY <2>1, <1>8
  <2>5. \A i \in 1 .. nchunk - 1 : chunks'[i].pos \in Nat
    BY <2>2, <2>4, <1>1 DEF OnePerPosition
  <2>6. ASSUME NEW i \in 1 .. nchunk - 1, NEW j \in 1 .. nchunk - 1,
               chunks'[i].pos = chunks'[j].pos
        PROVE  i = j
    <3>1. chunks[q[i]].pos = chunks[q[j]].pos
      BY <2>4, <2>6
    <3>2. q[i] = q[j]
      BY <3>1, <2>2, <1>1 DEF OnePerPosition
    <3>3. QED BY <3>2, <2>3
  <2>7. QED BY <2>5, <2>6, <1>1 DEF OnePerPosition
<1>10. \A i \in 0 .. nchunk' - 1 : Counted(chunks'[i])
  BY <1>1, <1>4, <1>8 DEF I
<1>11. /\ TypeInv' /\ 0 \notin empty_v'.ids
       /\ map' = ReconstructMap(chunks') /\ cache' = ClearCache(cache)
  BY ReorderTypes DEF IndInv, Reorder, NoneEmpty
<1>12. QED BY <1>1, <1>8, <1>9, <1>10, <1>11, Rebuilt

LEMMA IndInvNext == SortIsStable /\ IndInv /\ [Next]_vars => IndInv'
<1> SUFFICES ASSUME SortIsStable, IndInv, [Next]_vars PROVE IndInv'
  OBVIOUS
<1>1. TypeInv'
  BY NextTypes DEF IndInv
<1>2. ASSUME UNCHANGED <<map, chunks, nchunk, empty_v>>, Coherent(cache', map)
      PROVE  IndInv'
  BY <1>1, <1>2 DEF IndInv
<1>3. ASSUME NEW p \in Points, NEW v \in Values, Insert(p, v) PROVE IndInv'
  BY <1>3, InsertKeeps
<1>4. ASSUME NEW p \in Points, Get(p) PROVE IndInv'
  BY <1>4, <1>2, RemovePointKeeps DEF Get
<1>5. ASSUME NEW p \in Points, Remove(p) PROVE IndInv'
  BY <1>5, RemoveKeeps
<1>6. ASSUME NEW p \in Points, RemoveNoFlush(p) PROVE IndInv'
  BY <1>6, RemoveNoFlushKeeps
<1>7. ASSUME FlushRemove PROVE IndInv'
  BY <1>7, FlushRemoveKeeps
<1>8. ASSUME NEW lo \in Points, NEW hi \in Points, RemoveBox(lo, hi) PROVE IndInv'
  BY <1>8, RemoveBoxKeeps
<1>9. ASSUME NEW sz \in Sizes, Resize(sz) PROVE IndInv'
  BY <1>9, ResizeKeeps
<1>10. ASSUME Clear PROVE IndInv'
  BY <1>10, ClearKeeps
<1>11. ASSUME Reorder PROVE IndInv'
  BY <1>11, ReorderKeeps
<1>12. Coherent(cache, map)
  BY DEF IndInv
<1>13. ASSUME NEW op \in {"conv", "conv_cross"}, NEW lo \in Points, NEW hi \in Points,
              ConvBegin(op, lo, hi)
       PROVE  IndInv'
  BY <1>13, <1>2, <1>12 DEF ConvBegin
<1>14. ASSUME NEW lo \in Points, NEW hi \in Points, ConvUse(lo, hi) PROVE IndInv'
  BY <1>14, <1>2, <1>12 DEF ConvUse
<1>15. ASSUME ConvSkip PROVE IndInv'
  BY <1>15, <1>2, <1>12 DEF ConvSkip
<1>16. ASSUME ConvLookup PROVE IndInv'
  <2> DEFINE lin == Lin(Neighbour)
  <2>1. UNCHANGED <<map, chunks, nchunk, empty_v>>
    BY <1>16 DEF ConvLookup
  <2>2. CASE Overrun(lin) \/ (Exists(lin) /\ Active(lin) \notin DOMAIN chunks)
    BY <1>16, <2>1, <2>2, <1>2, <1>12 DEF ConvLookup
  <2>3. CASE ~(Overrun(lin) \/ (Exists(lin) /\ Active(lin) \notin DOMAIN chunks))
    <3>1. /\ cache' = Looked(lin) /\ conv.mode # "idle" /\ conv.chunk < nchunk
      BY <1>16, <2>3 DEF ConvLookup
    <3>2. lin \in Int
      <4>1. conv.chunk \in 0 .. nchunk - 1 /\ chunks \in [0 .. nchunk - 1 -> Chunk]
        BY <3>1 DEF IndInv, TypeInv, TypeOK
      <4>2. QED BY <4>1, ChunkFields DEF Neighbour, Lin
    <3> HIDE DEF lin
    <3>3. Coherent(Looked(lin), map)
      BY <2>3, <3>2, LookupCoherent
    <3>4. QED BY <2>1, <3>1, <3>3, <1>2
  <2>4. QED BY <2>2, <2>3
<1>17. ASSUME ConvEnd PROVE IndInv'
  BY <1>17, <1>2, <1>12 DEF ConvEnd
<1>18. ASSUME UNCHANGED vars PROVE IndInv'
  BY <1>18, <1>2, <1>12 DEF vars
<1>19. QED
  BY <1>3, <1>4, <1>5, <1>6, <1>7, <1>8, <1>9, <1>10, <1>11, <1>13, <1>14, <1>15,
     <1>16, <1>17, <1>18 DEF Next

LEMMA IndInvHolds ==
  ASSUME SortIsStable
  PROVE  Spec => []IndInv
<1>1. IndInv /\ [Next]_vars => IndInv'
  BY IndInvNext
<1>2. QED BY <1>1, IndInvInit, PTL DEF Spec

\* While std::sort keeps the background in front (at most InsertionSortMax
\* chunks, or a client that does not reorder), the map leads to the chunk at
\* each position, through every creation, removal, crop, clear and reorder.
THEOREM MapCorrect ==
  ASSUME SortIsStable
  PROVE  Spec => []MapIsHeaders
<1>1. IndInv => MapIsHeaders
  BY IndInvImplies
<1>2. QED BY <1>1, IndInvHolds, PTL

\* Under the same condition no operation leaves an old index in the cache:
\* a used slot answers what the map answers.
THEOREM CacheCorrect ==
  ASSUME SortIsStable
  PROVE  Spec => []CacheIsMap
<1>1. IndInv => CacheIsMap
  BY IndInvImplies
<1>2. QED BY <1>1, IndInvHolds, PTL

\* Under the same condition the number of elements in a header is the number
\* of cells set in its mask.
THEOREM CountCorrect ==
  ASSUME SortIsStable
  PROVE  Spec => []CountIsMask
<1>1. IndInv => CountIsMask
  BY IndInvImplies
<1>2. QED BY <1>1, IndInvHolds, PTL

\* Under the same condition index 0 is the empty background chunk for ever.
THEOREM BackgroundCorrect ==
  ASSUME SortIsStable
  PROVE  Spec => []BackgroundFirst
<1>1. IndInv => BackgroundFirst
  BY IndInvImplies
<1>2. QED BY <1>1, IndInvHolds, PTL

\* The lookup path answers what the chunks contain.
LEMMA LookupFindsContents == IndInv => GetIsContents
<1> SUFFICES ASSUME IndInv, NEW p \in 0 .. g_sm - 1
             PROVE  LET i == Active(Lin(ChunkOf(p)))
                        found == Exists(Lin(ChunkOf(p))) /\ Sub(p) \in DOMAIN chunks[i].cells
                    IN  /\ found <=> p \in DOMAIN Contents
                        /\ found => chunks[i].cells[Sub(p)] = Contents[p]
  BY DEF GetIsContents
<1> DEFINE lin == Lin(ChunkOf(p))
           i == Active(lin)
           found == Exists(lin) /\ Sub(p) \in DOMAIN chunks[i].cells
<1>1. p \in Points
  BY DEF IndInv, TypeInv, TypeOK, Points
<1>2. lin \in Nat /\ lin = ChunkOf(p)
  BY <1>1, ConstantTypes DEF Lin
<1>3. /\ OnePerPosition(chunks, nchunk)
      /\ DOMAIN map = {chunks[j].pos : j \in 1 .. nchunk - 1}
  BY DEF IndInv, Leads, Lin
<1>4. /\ Exists(lin) <=> lin \in DOMAIN map
      /\ Exists(lin) => i \in 1 .. nchunk - 1 /\ chunks[i].pos = lin
  BY <1>2, LookupIsRight
<1> HIDE DEF i, lin
<1>5. found => Holder(p) = {i}
  BY <1>2, <1>3, <1>4 DEF Holder, OnePerPosition
<1>6. Holder(p) # {} => found
  <2>1. SUFFICES ASSUME NEW j \in Holder(p) PROVE found
    OBVIOUS
  <2>2. j \in 1 .. nchunk - 1 /\ chunks[j].pos = lin /\ Sub(p) \in DOMAIN chunks[j].cells
    BY <1>2 DEF Holder
  <2>3. Exists(lin)
    BY <2>2, <1>3, <1>4
  <2>4. j = i
    BY <2>2, <2>3, <1>3, <1>4 DEF OnePerPosition
  <2>5. QED BY <2>2, <2>3, <2>4
<1>7. found <=> p \in DOMAIN Contents
  BY <1>1, <1>5, <1>6 DEF Contents
<1>8. found => chunks[i].cells[Sub(p)] = Contents[p]
  BY <1>1, <1>5, <1>7 DEF Contents
<1>9. QED BY <1>7, <1>8 DEF i, lin

\* Under the same condition get and existPoint find exactly the points that
\* are in some chunk, with their values, whatever the cache holds.
THEOREM GetCorrect ==
  ASSUME SortIsStable
  PROVE  Spec => []GetIsContents
<1>1. QED BY LookupFindsContents, IndInvHolds, PTL

-----------------------------------------------------------------------------
(* Convolutions.                                                           *)

\* The index of a neighbour is what a lookup of its id gives.
LEMMA NeighbourIsLookup ==
  ASSUME IndInv, NEW lin \in Nat
  PROVE  TrueNeighbour(lin) = IF Exists(lin) THEN Active(lin) ELSE Absent
<1>1. /\ OnePerPosition(chunks, nchunk)
      /\ DOMAIN map = {chunks[j].pos : j \in 1 .. nchunk - 1}
  BY DEF IndInv, Leads, Lin
<1>2. /\ Exists(lin) <=> lin \in DOMAIN map
      /\ Exists(lin) => Active(lin) \in 1 .. nchunk - 1 /\ chunks[Active(lin)].pos = lin
  BY LookupIsRight
<1>3. CASE Exists(lin)
  <2> DEFINE i == Active(lin)
  <2>1. i \in 1 .. nchunk - 1 /\ chunks[i].pos = lin
    BY <1>2, <1>3
  <2> HIDE DEF i
  <2>2. \A j \in 1 .. nchunk - 1 : chunks[j].pos = lin => j = i
    BY <1>1, <2>1 DEF OnePerPosition
  <2>3. TrueNeighbour(lin) = i
    BY <2>1, <2>2 DEF TrueNeighbour, Lin
  <2>4. QED BY <2>3, <1>3 DEF i
<1>4. CASE ~Exists(lin)
  <2>1. \A j \in 1 .. nchunk - 1 : chunks[j].pos # lin
    BY <1>1, <1>2, <1>4
  <2>2. QED BY <2>1, <1>4 DEF TrueNeighbour, Lin
<1>5. QED BY <1>3, <1>4

\* Of a chunk of the section, NNlist has the right index after, and before.
PlusFound(i) == NNlist[i].plus = TrueNeighbour(Lin(chunks[i].pos + 1))
MinusFound(i) == chunks[i].pos > 0 => NNlist[i].minus = TrueNeighbour(Lin(chunks[i].pos - 1))

\* What holds while conv fills NNlist, in the middle of a chunk too.
FillInv ==
  conv.mode = "conv" =>
    /\ DOMAIN NNlist = 0 .. nchunk - 1
    /\ conv.chunk \in Nat \ {0}
    /\ conv.second => /\ conv.chunk < nchunk
                      /\ Visited(conv.chunk, conv.lo, conv.hi)
                      /\ PlusFound(conv.chunk)
    /\ \A i \in 1 .. nchunk - 1 : Done(i) => PlusFound(i) /\ MinusFound(i)

\* A lookup of the one neighbour and then of the other keeps it.
LEMMA LookupFills ==
  ASSUME IndInv, FillInv, ConvLookup
  PROVE  FillInv'
<1> SUFFICES ASSUME conv'.mode = "conv"
             PROVE  FillInv'
  BY DEF FillInv
<1>0. PICK c : c = conv.chunk
  OBVIOUS
<1> DEFINE lin == Lin(Neighbour)
           r == IF Exists(lin) THEN Active(lin) ELSE Absent
<1>1. /\ nchunk \in Nat \ {0} /\ chunks \in [0 .. nchunk - 1 -> Chunk]
      /\ conv \in [mode : {"idle", "conv", "conv_cross"}, lo : Int, hi : Int,
                   chunk : Nat, second : BOOLEAN]
      /\ OnePerPosition(chunks, nchunk)
      /\ \A i \in DOMAIN NNlist : NNlist[i] \in [plus : Int, minus : Int]
  BY DEF IndInv, TypeInv, TypeOK
<1>2. /\ c < nchunk /\ Visited(c, conv.lo, conv.hi)
      /\ UNCHANGED <<chunks, nchunk>>
  BY <1>0 DEF ConvLookup
<1>3. conv.mode = "conv"
  BY <1>1 DEF ConvLookup
<1>4. /\ DOMAIN NNlist = 0 .. nchunk - 1 /\ c \in 1 .. nchunk - 1
      /\ conv.second => PlusFound(c)
      /\ \A i \in 1 .. nchunk - 1 : Done(i) => PlusFound(i) /\ MinusFound(i)
  BY <1>0, <1>1, <1>2, <1>3 DEF FillInv
<1>5. chunks[c].pos \in Nat
  BY <1>4, <1>1 DEF OnePerPosition
<1>6. CASE Overrun(lin) \/ (Exists(lin) /\ Active(lin) \notin DOMAIN chunks)
  <2>1. UNCHANGED <<NNlist, conv>>
    BY <1>6 DEF ConvLookup
  <2>2. \A k : TrueNeighbour(k)' = TrueNeighbour(k)
    BY <1>2 DEF TrueNeighbour
  <2>3. \A i : /\ PlusFound(i)' <=> PlusFound(i)
              /\ MinusFound(i)' <=> MinusFound(i)
    BY <2>1, <2>2, <1>2 DEF PlusFound, MinusFound
  <2>4. \A i, lo, hi : Visited(i, lo, hi)' <=> Visited(i, lo, hi)
    BY <1>2 DEF Visited, InSection
  <2>5. \A i : Done(i)' <=> Done(i)
    BY <2>1, <2>4 DEF Done
  <2>6. conv.second => Visited(c, conv.lo, conv.hi)' /\ PlusFound(c)'
    <3>1. conv.second => PlusFound(c)'
      BY <1>2, <1>4, <2>1, <2>2 DEF PlusFound
    <3>2. PICK lo, hi : lo = conv.lo /\ hi = conv.hi
      OBVIOUS
    <3>3. lo = conv'.lo /\ hi = conv'.hi
      BY <2>1, <3>2
    <3>4. Visited(c, lo, hi)'
      BY <1>2, <2>4, <3>2
    <3>5. QED BY <3>1, <3>3, <3>4
  <2>7. \A i \in 1 .. nchunk - 1 : Done(i)' => PlusFound(i)' /\ MinusFound(i)'
    BY <1>4, <2>3, <2>5
  <2>8. c = conv'.chunk /\ conv'.second = conv.second
    BY <1>0, <2>1
  <2>9. QED BY <1>1, <1>2, <1>4, <2>1, <2>6, <2>7, <2>8 DEF FillInv
<1>7. CASE ~(Overrun(lin) \/ (Exists(lin) /\ Active(lin) \notin DOMAIN chunks))
  <2>1. /\ conv' = [conv EXCEPT !.second = ~@, !.chunk = IF conv.second THEN @ + 1 ELSE @]
        /\ NNlist' = IF conv.second THEN [NNlist EXCEPT ![c].minus = r]
                                    ELSE [NNlist EXCEPT ![c].plus = r]
    BY <1>0, <1>7, <1>3, <1>1 DEF ConvLookup, LooksAfter
  <2>2. lin = IF conv.second THEN chunks[c].pos - 1 ELSE chunks[c].pos + 1
    BY <1>0, <1>3, <1>1, <1>5 DEF Neighbour, LooksAfter, Lin
  <2>3. lin \in Nat => r = TrueNeighbour(lin)
    BY NeighbourIsLookup
  <2> HIDE DEF lin, r
  <2>4. /\ DOMAIN NNlist' = 0 .. nchunk - 1
        /\ \A i \in 1 .. nchunk - 1 : i # c => NNlist'[i] = NNlist[i]
        /\ conv.second => NNlist'[c].minus = r /\ NNlist'[c].plus = NNlist[c].plus
        /\ ~conv.second => NNlist'[c].plus = r
    BY <2>1, <1>4, <1>1
  <2>5. \A k : TrueNeighbour(k)' = TrueNeighbour(k)
    BY <1>2 DEF TrueNeighbour
  <2>6. /\ \A i \in 1 .. nchunk - 1 : i # c => /\ PlusFound(i)' <=> PlusFound(i)
                                               /\ MinusFound(i)' <=> MinusFound(i)
        /\ conv.second => MinusFound(c)' /\ PlusFound(c)'
        /\ ~conv.second => PlusFound(c)'
    <3>1. ~conv.second => NNlist'[c].plus = TrueNeighbour(Lin(chunks[c].pos + 1))
      BY <2>2, <2>3, <2>4, <1>5 DEF Lin
    <3>2. conv.second /\ chunks[c].pos > 0 =>
            NNlist'[c].minus = TrueNeighbour(Lin(chunks[c].pos - 1))
      BY <2>2, <2>3, <2>4, <1>5 DEF Lin
    <3>3. /\ PlusFound(c)' <=> NNlist'[c].plus = TrueNeighbour(Lin(chunks[c].pos + 1))
          /\ MinusFound(c)' <=>
               (chunks[c].pos > 0 => NNlist'[c].minus = TrueNeighbour(Lin(chunks[c].pos - 1)))
      BY <2>5, <1>2 DEF PlusFound, MinusFound, Lin
    <3>4. \A i \in 1 .. nchunk - 1 : i # c => /\ PlusFound(i)' <=> PlusFound(i)
                                              /\ MinusFound(i)' <=> MinusFound(i)
      BY <2>4, <2>5, <1>2 DEF PlusFound, MinusFound, Lin
    <3>5. conv.second => PlusFound(c)'
      BY <2>4, <3>3, <1>4 DEF PlusFound
    <3>6. QED BY <3>1, <3>2, <3>3, <3>4, <3>5
  <2>7. \A i : Visited(i, conv.lo, conv.hi)' <=> Visited(i, conv.lo, conv.hi)
    BY <2>1, <1>1, <1>2 DEF Visited, InSection
  <2>8. CASE conv.second
    <3>1. ~conv'.second /\ conv'.chunk = c + 1 /\ conv'.chunk \in Nat \ {0}
      <4>1. conv' = [conv EXCEPT !.second = FALSE, !.chunk = c + 1]
        BY <1>0, <2>8, <2>1, <1>1
      <4>2. conv'.second = FALSE /\ conv'.chunk = c + 1
        BY <4>1, <1>1
      <4>3. QED BY <4>2, <1>4
    <3>2. ASSUME NEW i \in 1 .. nchunk - 1, Done(i)'
          PROVE  PlusFound(i)' /\ MinusFound(i)'
      <4>1. i < c + 1 /\ Visited(i, conv.lo, conv.hi)
        BY <3>1, <3>2, <2>7 DEF Done
      <4>2. i = c \/ Done(i)
        BY <1>0, <4>1, <1>4 DEF Done
      <4>3. QED BY <4>2, <2>6, <2>8, <1>4
    <3>3. QED BY <3>1, <3>2, <2>4, <1>2 DEF FillInv
  <2>9. CASE ~conv.second
    <3>1. conv'.second /\ conv'.chunk = c
      BY <1>0, <2>9, <2>1, <1>1
    <3>2. Visited(conv.chunk, conv.lo, conv.hi)'
      BY <3>1, <2>7, <1>2
    <3>3. ASSUME NEW i \in 1 .. nchunk - 1, Done(i)'
          PROVE  PlusFound(i)' /\ MinusFound(i)'
      <4>1. i < c /\ Visited(i, conv.lo, conv.hi)
        BY <3>1, <3>3, <2>7 DEF Done
      <4>2. Done(i) /\ i # c
        BY <1>0, <4>1, <1>4 DEF Done
      <4>3. QED BY <4>2, <2>6, <1>4
    <3>4. PlusFound(conv.chunk)'
      BY <3>1, <2>6, <2>9 DEF PlusFound
    <3>5. QED BY <3>1, <3>2, <3>3, <3>4, <2>4, <1>2, <1>4 DEF FillInv
  <2>10. QED BY <2>8, <2>9
<1>8. QED BY <1>6, <1>7

LEMMA FillInvNext == IndInv /\ FillInv /\ [Next]_vars => FillInv'
<1> SUFFICES ASSUME IndInv, FillInv, [Next]_vars PROVE FillInv'
  OBVIOUS
<1> USE DEF FillInv
<1>1. nchunk \in Nat \ {0}
  BY DEF IndInv, TypeInv, TypeOK
<1>2. ASSUME \/ \E p \in Points, v \in Values : Insert(p, v)
             \/ \E p \in Points : Get(p) \/ Remove(p) \/ RemoveNoFlush(p)
             \/ FlushRemove
             \/ \E lo, hi \in Points : RemoveBox(lo, hi) \/ ConvUse(lo, hi)
             \/ \E sz \in Sizes : Resize(sz)
             \/ Clear \/ Reorder
      PROVE  FillInv'
  <2>1. conv.mode = "idle" /\ UNCHANGED conv
    BY <1>2 DEF Insert, Get, Remove, RemoveNoFlush, FlushRemove, RemoveBox, ConvUse, Resize,
                Clear, Reorder, Ready
  <2>2. QED BY <2>1
<1>3. ASSUME NEW op \in {"conv", "conv_cross"}, NEW lo \in Points, NEW hi \in Points,
             ConvBegin(op, lo, hi)
      PROVE  FillInv'
  <2>1. /\ conv' = [mode |-> op, lo |-> lo, hi |-> hi, chunk |-> 1, second |-> FALSE]
        /\ DOMAIN NNlist' = 0 .. nchunk - 1 /\ nchunk' = nchunk
    BY <1>3 DEF ConvBegin, ResizeNNlist
  <2>2. \A i \in 1 .. nchunk - 1 : ~Done(i)'
    BY <2>1, <1>1 DEF Done
  <2>3. QED BY <2>1, <2>2
<1>4. CASE ConvSkip
  <2>1. /\ ~Visited(conv.chunk, conv.lo, conv.hi)
        /\ conv' = [conv EXCEPT !.chunk = @ + 1]
        /\ UNCHANGED <<chunks, nchunk, NNlist>>
    BY <1>4 DEF ConvSkip
  <2>2. conv \in [mode : {"idle", "conv", "conv_cross"}, lo : Int, hi : Int,
                  chunk : Nat, second : BOOLEAN]
    BY DEF IndInv, TypeInv, TypeOK
  <2>3. conv'.chunk = conv.chunk + 1 /\ conv'.second = conv.second /\ conv'.mode = conv.mode
        /\ conv'.lo = conv.lo /\ conv'.hi = conv.hi
    BY <2>1, <2>2
  <2>4. \A i \in 1 .. nchunk - 1 : Done(i)' => Done(i)
    BY <2>1, <2>2, <2>3 DEF Done, Visited, InSection
  <2>5. \A i \in 1 .. nchunk - 1 : /\ PlusFound(i)' <=> PlusFound(i)
                                   /\ MinusFound(i)' <=> MinusFound(i)
    BY <2>1 DEF PlusFound, MinusFound, TrueNeighbour
  <2>6. conv.mode = "conv" => ~conv.second
    BY <2>1
  <2>7. QED BY <2>1, <2>2, <2>3, <2>4, <2>5, <2>6
<1>5. CASE ConvLookup
  BY <1>5, LookupFills
<1>6. CASE ConvEnd
  BY <1>6 DEF ConvEnd, Idle
<1>7. CASE UNCHANGED vars
  BY <1>7 DEF vars, PlusFound, MinusFound, TrueNeighbour, Done, Visited, InSection
<1>8. QED BY <1>2, <1>3, <1>4, <1>5, <1>6, <1>7 DEF Next

\* Under the same condition a convolution that fills NNlist stores the index of
\* each neighbour inside the grid, whatever the cache held when it began and
\* however many chunks the section leaves out.
THEOREM FillCorrect ==
  ASSUME SortIsStable
  PROVE  Spec => []FillFindsNeighbours
<1>1. Init => FillInv
  BY DEF Init, FillInv, Idle
<1>2. IndInv /\ FillInv /\ [Next]_vars => FillInv'
  BY FillInvNext
<1>3. FillInv => FillFindsNeighbours
  BY DEF FillInv, FillFindsNeighbours, PlusFound, MinusFound
<1>4. QED BY <1>1, <1>2, <1>3, IndInvHolds, PTL DEF Spec

-----------------------------------------------------------------------------
(* The grid as a map: points and chunks.                                   *)

\* A point is given by its chunk and its place in the chunk.
LEMMA PointSplits ==
  ASSUME NEW p \in Points
  PROVE  p \in Nat /\ ChunkOf(p) * ChunkSize + Sub(p) = p
<1>1. p \in Nat /\ ChunkSize \in Nat \ {0}
  BY ConstantTypes
<1>2. p = ChunkSize * (p \div ChunkSize) + (p % ChunkSize) /\ p \div ChunkSize \in Int
  BY <1>1, SMT
<1>3. ChunkSize * (p \div ChunkSize) = (p \div ChunkSize) * ChunkSize
  BY <1>1, <1>2, SMT
<1>4. QED BY <1>1, <1>2, <1>3 DEF ChunkOf, Sub

\* No other point has both.
LEMMA SamePoint ==
  ASSUME NEW p \in Points, NEW q \in Points, ChunkOf(p) = ChunkOf(q), Sub(p) = Sub(q)
  PROVE  p = q
BY PointSplits, Zenon

\* The contents of n chunks ch: Contents for any chunks.
HolderIn(ch, n, p) == {i \in 1 .. n - 1 : ch[i].pos = ChunkOf(p) /\ Sub(p) \in DOMAIN ch[i].cells}
In(ch, n) ==
  [p \in {q \in Points : HolderIn(ch, n, q) # {}} |->
     ch[CHOOSE i \in HolderIn(ch, n, p) : TRUE].cells[Sub(p)]]

\* Contents, before and after a step.
LEMMA ContentsAreIn ==
  /\ Contents = In(chunks, nchunk)
  /\ Contents' = In(chunks', nchunk')
BY DEF Contents, Holder, In, HolderIn

\* f is what the n chunks ch hold.
Describes(f, ch, n) ==
  /\ f = [p \in DOMAIN f |-> f[p]]
  /\ DOMAIN f = {p \in Points : HolderIn(ch, n, p) # {}}
  /\ \A p \in Points : \A i \in HolderIn(ch, n, p) : ch[i].cells[Sub(p)] = f[p]

\* What a function must be to be the contents.
LEMMA InIs ==
  ASSUME NEW ch, NEW n, NEW f, Describes(f, ch, n)
  PROVE  In(ch, n) = f
<1> DEFINE D == {p \in Points : HolderIn(ch, n, p) # {}}
           e(p) == ch[CHOOSE i \in HolderIn(ch, n, p) : TRUE].cells[Sub(p)]
<1>1. \A p \in D : e(p) = f[p]
  BY DEF Describes
<1>2. In(ch, n) = [p \in D |-> e(p)]
  BY DEF In
<1>3. f = [p \in D |-> f[p]]
  BY DEF Describes
<1> HIDE DEF e, D
<1>4. QED BY <1>1, <1>2, <1>3

\* What they are, when no two chunks are at one position.
LEMMA InAt ==
  ASSUME NEW ch, NEW n, OnePerPosition(ch, n), NEW p \in Points, NEW i \in HolderIn(ch, n, p)
  PROVE  p \in DOMAIN In(ch, n) /\ In(ch, n)[p] = ch[i].cells[Sub(p)]
<1>1. HolderIn(ch, n, p) = {i}
  BY DEF HolderIn, OnePerPosition
<1>2. QED BY <1>1 DEF In

\* Where there are contents.
LEMMA InDomain ==
  ASSUME NEW ch, NEW n
  PROVE  DOMAIN In(ch, n) = {p \in Points : HolderIn(ch, n, p) # {}}
BY DEF In

\* They are a function.
LEMMA InFunction ==
  ASSUME NEW ch, NEW n
  PROVE  In(ch, n) = [p \in DOMAIN In(ch, n) |-> In(ch, n)[p]]
BY DEF In

\* Moving the chunks that have points, and no more, moves no point.
LEMMA InMoved ==
  ASSUME NEW ch, NEW n, OnePerPosition(ch, n), NEW to, NEW m,
         \A i \in 1 .. n - 1 : DOMAIN ch[i].cells # {} => \E j \in 1 .. m - 1 : to[j] = ch[i],
         \A j \in 1 .. m - 1 : \E i \in 1 .. n - 1 : to[j] = ch[i]
  PROVE  In(to, m) = In(ch, n)
<1> DEFINE f == In(ch, n)
<1>1. f = [p \in DOMAIN f |-> f[p]] /\ DOMAIN f = {p \in Points : HolderIn(ch, n, p) # {}}
  BY InDomain, InFunction
<1>2. ASSUME NEW p \in Points, NEW i \in HolderIn(ch, n, p)
      PROVE  HolderIn(to, m, p) # {}
  <2>1. i \in 1 .. n - 1 /\ DOMAIN ch[i].cells # {}
    BY <1>2 DEF HolderIn
  <2>2. PICK j \in 1 .. m - 1 : to[j] = ch[i]
    BY <2>1
  <2>3. QED BY <2>2, <1>2 DEF HolderIn
<1>3. ASSUME NEW p \in Points, NEW j \in HolderIn(to, m, p)
      PROVE  p \in DOMAIN f /\ to[j].cells[Sub(p)] = f[p]
  <2>1. PICK i \in 1 .. n - 1 : to[j] = ch[i]
    BY <1>3 DEF HolderIn
  <2>2. i \in HolderIn(ch, n, p)
    BY <2>1, <1>3 DEF HolderIn
  <2>3. QED BY <2>1, <2>2, InAt
<1> HIDE DEF f
<1>4. DOMAIN f = {p \in Points : HolderIn(to, m, p) # {}}
  BY <1>1, <1>2, <1>3
<1>5. Describes(f, to, m)
  BY <1>1, <1>3, <1>4 DEF Describes
<1>6. QED BY <1>5, InIs DEF f

KeepIn(f, D) == [p \in DOMAIN f \cap D |-> f[p]]

\* Keeping all points keeps the contents.
LEMMA KeepAll ==
  ASSUME NEW ch, NEW n
  PROVE  KeepIn(In(ch, n), Points \ {}) = In(ch, n)
<1> DEFINE f == In(ch, n)
<1>1. f = [p \in DOMAIN f |-> f[p]]
  BY InFunction
<1>2. DOMAIN f \subseteq Points
  BY InDomain
<1> HIDE DEF f
<1>3. DOMAIN f \cap (Points \ {}) = DOMAIN f
  BY <1>2
<1>4. KeepIn(f, Points \ {}) = f
  BY <1>1, <1>3 DEF KeepIn
<1>5. QED BY <1>4 DEF f

\* Taking the points outside D out of every chunk keeps those in D.
LEMMA InKept ==
  ASSUME NEW ch, NEW n, OnePerPosition(ch, n), NEW to, NEW D,
         \A i \in 1 .. n - 1 : to[i].pos = ch[i].pos,
         \A i \in 1 .. n - 1, p \in Points : ch[i].pos = ChunkOf(p) =>
           /\ Sub(p) \in DOMAIN to[i].cells <=> Sub(p) \in DOMAIN ch[i].cells /\ p \in D
           /\ Sub(p) \in DOMAIN to[i].cells => to[i].cells[Sub(p)] = ch[i].cells[Sub(p)]
  PROVE  In(to, n) = KeepIn(In(ch, n), D)
<1> DEFINE g == In(ch, n)
           f == [p \in DOMAIN g \cap D |-> g[p]]
<1>1. ASSUME NEW p \in Points
      PROVE  HolderIn(to, n, p) = IF p \in D THEN HolderIn(ch, n, p) ELSE {}
  BY DEF HolderIn
<1>2. DOMAIN g = {p \in Points : HolderIn(ch, n, p) # {}}
  BY InDomain
<1>3. ASSUME NEW p \in Points, NEW i \in HolderIn(ch, n, p)
      PROVE  g[p] = ch[i].cells[Sub(p)]
  BY <1>3, InAt
<1> HIDE DEF g
<1>4. DOMAIN f = DOMAIN g \cap D /\ f = [p \in DOMAIN f |-> f[p]] /\ \A p \in DOMAIN f : f[p] = g[p]
  OBVIOUS
<1> HIDE DEF f
<1>5. DOMAIN f = {p \in Points : HolderIn(to, n, p) # {}}
  <2>1. \A p \in Points : p \in DOMAIN f <=> HolderIn(to, n, p) # {}
    BY <1>1, <1>2, <1>4
  <2>2. DOMAIN f \subseteq Points
    BY <1>2, <1>4
  <2>3. QED BY <2>1, <2>2
<1>6. ASSUME NEW p \in Points, NEW i \in HolderIn(to, n, p)
      PROVE  to[i].cells[Sub(p)] = f[p]
  <2>1. p \in DOMAIN f /\ p \in D /\ f[p] = g[p]
    BY <1>6, <1>1, <1>4, <1>5
  <2>2. /\ i \in HolderIn(ch, n, p) /\ i \in 1 .. n - 1 /\ ch[i].pos = ChunkOf(p)
        /\ Sub(p) \in DOMAIN to[i].cells
    BY <2>1, <1>1, <1>6 DEF HolderIn
  <2>3. QED BY <2>1, <2>2, <1>3
<1>7. In(to, n) = f
  <2>1. Describes(f, to, n)
    BY <1>4, <1>5, <1>6 DEF Describes
  <2>2. QED BY <2>1, InIs
<1>8. QED BY <1>7 DEF f, g, KeepIn

-----------------------------------------------------------------------------
(* Reclaiming.                                                             *)

\* Every element of a finite set has its rank.
LEMMA RankIsNth ==
  ASSUME NEW S \in SUBSET Int, IsFiniteSet(S), NEW j \in S
  PROVE  \E k \in 0 .. Cardinality(S) - 1 : Nth(S, k) = j
<1> DEFINE k == Cardinality({l \in S : l < j})
<1>1. k \in 0 .. Cardinality(S) - 1
  BY RankGrows
<1>2. Nth(S, k) \in S /\ Cardinality({l \in S : l < Nth(S, k)}) = k
  <2> HIDE DEF k
  <2>1. QED BY <1>1, NthIsRank
<1> DEFINE i == Nth(S, k)
<1>3. ~(i < j)
  <2>1. i < j => Cardinality({l \in S : l < i}) < Cardinality({l \in S : l < j})
    BY <1>2, RankGrows
  <2>2. k \in Int
    BY <1>1
  <2>3. QED BY <2>1, <2>2, <1>2
<1>4. ~(j < i)
  <2>1. j < i => Cardinality({l \in S : l < j}) < Cardinality({l \in S : l < i})
    BY <1>2, RankGrows
  <2>2. k \in Int
    BY <1>1
  <2>3. QED BY <2>1, <2>2, <1>2
<1>5. i = j
  <2>1. i \in Int /\ j \in Int
    BY <1>2
  <2> HIDE DEF i
  <2>2. QED BY <2>1, <1>3, <1>4
<1> HIDE DEF k
<1>6. QED BY <1>1, <1>5

\* vector::remove(keys) loses no other chunk when all keys are in range.
LEMMA RemoveKeysOnto ==
  ASSUME NEW n \in Nat \ {0}, NEW ch, DOMAIN ch = 0 .. n - 1, NEW keys \in SUBSET (1 .. n - 1)
  PROVE  LET m == n - Cardinality(keys)
             kept == RemoveKeys(ch, keys, m)
         IN  /\ IsFiniteSet(keys) /\ m \in Nat \ {0}
             /\ \A i \in 1 .. n - 1 : i \notin keys => \E j \in 1 .. m - 1 : kept[j] = ch[i]
             /\ \A j \in 1 .. m - 1 : \E i \in 1 .. n - 1 : i \notin keys /\ kept[j] = ch[i]
<1> DEFINE m == n - Cardinality(keys)
           kept == RemoveKeys(ch, keys, m)
           S == 0 .. n - 1 \ keys
<1>1. IsFiniteSet(0 .. n - 1) /\ Cardinality(0 .. n - 1) = n
      /\ IsFiniteSet(1 .. n - 1) /\ Cardinality(1 .. n - 1) = n - 1
  BY FS_Interval
<1>2. IsFiniteSet(keys) /\ Cardinality(keys) \in Nat /\ Cardinality(keys) <= n - 1
  <2>1. IsFiniteSet(keys) /\ Cardinality(keys) <= Cardinality(1 .. n - 1)
    BY <1>1, FS_Subset
  <2>2. QED BY <2>1, <1>1, FS_CardinalityType
<1>3. Cardinality(S) = m
  <2>1. Cardinality(S) = Cardinality(0 .. n - 1) - Cardinality(0 .. n - 1 \cap keys)
    BY <1>1, FS_Difference
  <2>2. 0 .. n - 1 \cap keys = keys
    <3>1. \A i \in keys : i \in 0 .. n - 1
      OBVIOUS
    <3>2. QED BY <3>1
  <2>3. QED BY <2>1, <2>2, <1>1
<1>4. S \in SUBSET Int /\ IsFiniteSet(S) /\ 0 \in S /\ m \in Nat \ {0}
  <2>1. IsFiniteSet(S)
    BY <1>1, FS_Difference
  <2>2. 0 \in S
    <3>1. 0 \in 0 .. n - 1 /\ 0 \notin 1 .. n - 1
      OBVIOUS
    <3>2. QED BY <3>1
  <2>3. m \in Nat \ {0}
    BY <1>2
  <2>4. QED BY <2>1, <2>2, <2>3
<1> HIDE DEF m
<1>5. /\ \A j \in 0 .. m - 1 : Nth(S, j) \in S /\ kept[j] = ch[Nth(S, j)]
      /\ \A i, j \in 0 .. m - 1 : Nth(S, i) = Nth(S, j) => i = j
      /\ Nth(S, 0) = 0
  <2>1. m \in Nat /\ n \in Nat /\ m <= Cardinality(0 .. n - 1 \ keys) /\ 0 < m
    BY <1>3, <1>4
  <2>2. /\ DOMAIN RemoveKeys(ch, keys, m) = 0 .. m - 1
        /\ \A i \in 0 .. m - 1 :
             /\ Nth(0 .. n - 1 \ keys, i) \in 0 .. n - 1 \ keys
             /\ RemoveKeys(ch, keys, m)[i] = ch[Nth(0 .. n - 1 \ keys, i)]
        /\ \A i, j \in 0 .. m - 1 :
             Nth(0 .. n - 1 \ keys, i) = Nth(0 .. n - 1 \ keys, j) => i = j
        /\ 0 < m /\ 0 \in 0 .. n - 1 \ keys => Nth(0 .. n - 1 \ keys, 0) = 0
    BY <2>1, RemoveKeysKeeps, Zenon
  <2>3. QED BY <2>1, <2>2, <1>4
<1> HIDE DEF kept
<1>6. ASSUME NEW i \in 1 .. n - 1, i \notin keys
      PROVE  \E j \in 1 .. m - 1 : kept[j] = ch[i]
  <2>1. i \in S /\ i # 0
    BY <1>6
  <2>2. PICK j \in 0 .. m - 1 : Nth(S, j) = i
    <3> HIDE DEF S
    <3>1. QED BY <2>1, <1>3, <1>4, RankIsNth
  <2>3. j # 0
    BY <2>1, <2>2, <1>5
  <2>4. j \in 1 .. m - 1
    BY <2>2, <2>3, <1>4
  <2>5. QED BY <2>2, <2>4, <1>5
<1>7. ASSUME NEW j \in 1 .. m - 1
      PROVE  \E i \in 1 .. n - 1 : i \notin keys /\ kept[j] = ch[i]
  <2>1. j \in 0 .. m - 1 /\ j # 0 /\ 0 \in 0 .. m - 1
    BY <1>4
  <2>2. Nth(S, j) \in S /\ kept[j] = ch[Nth(S, j)] /\ Nth(S, j) # 0
    BY <2>1, <1>5
  <2>3. Nth(S, j) \in 1 .. n - 1 /\ Nth(S, j) \notin keys
    BY <2>2
  <2>4. QED BY <2>2, <2>3
<1>8. QED BY <1>2, <1>4, <1>6, <1>7 DEF m, kept

\* The list names only chunks that are there.
ListInRange == empty_v.ids \subseteq 1 .. nchunk - 1

\* A chunk that counts no element has none.
LEMMA ZeroIsEmpty ==
  ASSUME NEW c \in Chunk, Counted(c)
  PROVE  c.nele = 0 <=> DOMAIN c.cells = {}
BY ChunkFields, FS_EmptySet DEF Counted

\* remove_empty loses no point: what it removes is listed and really empty.
LEMMA ReclaimContents ==
  ASSUME IndInv, NEW ch \in [0 .. nchunk - 1 -> Chunk],
         \A i \in 0 .. nchunk - 1 : ch[i].pos = chunks[i].pos /\ Counted(ch[i]),
         NEW ev \in EmptyType, ev.ids \subseteq 1 .. nchunk - 1,
         NEW c, RemoveEmpty(ch, ev, c)
  PROVE  /\ In(chunks', nchunk') = In(ch, nchunk)
         /\ ListInRange'
<1>1. nchunk \in Nat \ {0} /\ DOMAIN ch = 0 .. nchunk - 1 /\ OnePerPosition(ch, nchunk)
  <2>1. nchunk \in Nat \ {0} /\ \A i \in 1 .. nchunk - 1 : i \in 0 .. nchunk - 1
    BY DEF IndInv, TypeInv, TypeOK
  <2>2. QED BY <2>1 DEF IndInv, OnePerPosition
<1>2. CASE ev.size < FLUSH_REMOVE
  BY <1>2 DEF RemoveEmpty, ListInRange
<1>3. CASE ~(ev.size < FLUSH_REMOVE)
  <2> DEFINE keys == ReallyEmpty(ch, ev)
             m == nchunk - Cardinality(keys)
  <2>1. keys \in SUBSET (1 .. nchunk - 1) /\ \A i \in keys : DOMAIN ch[i].cells = {}
    BY <1>1, ZeroIsEmpty DEF ReallyEmpty
  <2>2. PICK stale \in SUBSET (ev.ids \ DOMAIN ch) :
          LET dead == ReallyEmpty(ch, ev) \cup stale
              k == nchunk - Cardinality(dead)
          IN  IF k < 1
              THEN ub' = TRUE /\ UNCHANGED <<map, chunks, nchunk, cache, empty_v>>
              ELSE /\ nchunk' = k
                   /\ chunks' = RemoveKeys(ch, dead, k)
                   /\ map' = ReconstructMap(chunks')
                   /\ empty_v' = NoneEmpty
                   /\ cache' = ClearCache(c)
                   /\ UNCHANGED ub
    BY <1>3 DEF RemoveEmpty
  <2>3. stale = {} /\ keys \cup stale = keys
    BY <1>1
  <2> HIDE DEF keys
  <2>4. /\ m \in Nat \ {0}
        /\ \A i \in 1 .. nchunk - 1 : i \notin keys =>
             \E j \in 1 .. m - 1 : RemoveKeys(ch, keys, m)[j] = ch[i]
        /\ \A j \in 1 .. m - 1 : \E i \in 1 .. nchunk - 1 :
             i \notin keys /\ RemoveKeys(ch, keys, m)[j] = ch[i]
    BY <1>1, <2>1, RemoveKeysOnto
  <2>5. nchunk' = m /\ chunks' = RemoveKeys(ch, keys, m) /\ empty_v' = NoneEmpty
    BY <2>2, <2>3, <2>4 DEF keys
  <2> HIDE DEF m
  <2>6. In(chunks', nchunk') = In(ch, nchunk)
    <3>1. \A i \in 1 .. nchunk - 1 : DOMAIN ch[i].cells # {} => \E j \in 1 .. m - 1 : chunks'[j] = ch[i]
      BY <2>1, <2>4, <2>5
    <3>2. \A j \in 1 .. m - 1 : \E i \in 1 .. nchunk - 1 : chunks'[j] = ch[i]
      BY <2>4, <2>5
    <3>3. In(chunks', m) = In(ch, nchunk)
      BY <1>1, <3>1, <3>2, InMoved
    <3>4. QED BY <3>3, <2>5
  <2>7. QED BY <2>5, <2>6 DEF ListInRange, NoneEmpty
<1>4. QED BY <1>2, <1>3

-----------------------------------------------------------------------------
(* What each operation does to the contents.                               *)

PutIn(f, p, v) == [q \in DOMAIN f \cup {p} |-> IF q = p THEN v ELSE f[q]]

\* Setting one point and leaving the others where they are puts it.
LEMMA InPut ==
  ASSUME NEW ch, NEW n, OnePerPosition(ch, n), NEW to, NEW m, OnePerPosition(to, m),
         NEW p \in Points, NEW i \in HolderIn(to, m, p), NEW v, to[i].cells[Sub(p)] = v,
         \A q \in Points : q # p =>
           /\ HolderIn(to, m, q) = HolderIn(ch, n, q)
           /\ \A j \in HolderIn(ch, n, q) : to[j].cells[Sub(q)] = ch[j].cells[Sub(q)]
  PROVE  In(to, m) = PutIn(In(ch, n), p, v)
<1> DEFINE g == In(ch, n)
           f == [q \in DOMAIN g \cup {p} |-> IF q = p THEN v ELSE g[q]]
<1>1. HolderIn(to, m, p) = {i}
  BY DEF HolderIn, OnePerPosition
<1>2. DOMAIN g = {q \in Points : HolderIn(ch, n, q) # {}}
  BY InDomain
<1>3. ASSUME NEW q \in Points, NEW j \in HolderIn(ch, n, q)
      PROVE  g[q] = ch[j].cells[Sub(q)]
  BY <1>3, InAt
<1> HIDE DEF g
<1>4. /\ DOMAIN f = DOMAIN g \cup {p} /\ f = [q \in DOMAIN f |-> f[q]] /\ f[p] = v
      /\ \A q \in DOMAIN g : q # p => f[q] = g[q]
  OBVIOUS
<1> HIDE DEF f
<1>5. DOMAIN f = {q \in Points : HolderIn(to, m, q) # {}}
  <2>1. \A q \in Points : q \in DOMAIN f <=> HolderIn(to, m, q) # {}
    BY <1>1, <1>2, <1>4
  <2>2. DOMAIN f \subseteq Points
    BY <1>2, <1>4
  <2>3. QED BY <2>1, <2>2
<1>6. ASSUME NEW q \in Points, NEW j \in HolderIn(to, m, q)
      PROVE  to[j].cells[Sub(q)] = f[q]
  <2>1. CASE q = p
    BY <2>1, <1>1, <1>4, <1>6
  <2>2. CASE q # p
    <3>1. q \in DOMAIN g /\ j \in HolderIn(ch, n, q)
      BY <2>2, <1>2, <1>6
    <3>2. f[q] = g[q] /\ to[j].cells[Sub(q)] = ch[j].cells[Sub(q)]
      BY <2>2, <3>1, <1>4
    <3>3. QED BY <3>1, <3>2, <1>3
  <2>3. QED BY <2>1, <2>2
<1>7. In(to, m) = f
  <2>1. Describes(f, to, m)
    <3>1. f = [q \in DOMAIN f |-> f[q]]
      BY <1>4
    <3>2. QED BY <3>1, <1>5, <1>6 DEF Describes
  <2>2. QED BY <2>1, InIs
<1>8. QED BY <1>7 DEF f, g, PutIn

\* insert puts one point.
LEMMA InsertContents ==
  ASSUME IndInv, NEW p \in Points, NEW v \in Values, Insert(p, v)
  PROVE  Contents' = PutIn(Contents, p, v)
<1> DEFINE lin == Lin(ChunkOf(p))
<1>1. lin \in Nat /\ lin = ChunkOf(p) /\ Sub(p) \in Subs
  BY ConstantTypes DEF Lin
<1>2. /\ nchunk \in Nat \ {0} /\ chunks \in [0 .. nchunk - 1 -> Chunk]
      /\ OnePerPosition(chunks, nchunk) /\ OnePerPosition(chunks', nchunk')
  BY InsertKeeps DEF IndInv, TypeInv, TypeOK
<1>3. ASSUME NEW c, NEW t
      PROVE  /\ DOMAIN WithCell(c, Sub(p), v).cells = DOMAIN c.cells \cup {Sub(p)}
             /\ WithCell(c, Sub(p), v).pos = c.pos
             /\ WithCell(c, Sub(p), v).cells[Sub(p)] = v
             /\ t \in DOMAIN c.cells /\ t # Sub(p) => WithCell(c, Sub(p), v).cells[t] = c.cells[t]
  BY DEF WithCell
<1>4. \A q \in Points : q # p /\ ChunkOf(q) = ChunkOf(p) => Sub(q) # Sub(p)
  BY SamePoint
<1>5. \E i \in HolderIn(chunks', nchunk', p) :
        /\ chunks'[i].cells[Sub(p)] = v
        /\ \A q \in Points : q # p =>
             /\ HolderIn(chunks', nchunk', q) = HolderIn(chunks, nchunk, q)
             /\ \A j \in HolderIn(chunks, nchunk, q) :
                  chunks'[j].cells[Sub(q)] = chunks[j].cells[Sub(q)]
  <2>1. CASE Exists(lin)
    <3> DEFINE i == Active(lin)
    <3>1. chunks' = [chunks EXCEPT ![i] = WithCell(chunks[i], Sub(p), v)] /\ nchunk' = nchunk
      BY <2>1 DEF Insert
    <3>2. i \in 1 .. nchunk - 1 /\ chunks[i].pos = lin
      BY <1>1, <2>1, LookupIsRight
    <3> HIDE DEF i, lin
    <3>3. /\ chunks'[i] = WithCell(chunks[i], Sub(p), v)
          /\ \A j \in 1 .. nchunk - 1 : j # i => chunks'[j] = chunks[j]
      BY <1>2, <3>1, <3>2
    <3>4. i \in HolderIn(chunks', nchunk', p) /\ chunks'[i].cells[Sub(p)] = v
      BY <1>1, <1>3, <3>1, <3>2, <3>3 DEF HolderIn
    <3>5. ASSUME NEW q \in Points, q # p, NEW j \in 1 .. nchunk - 1
          PROVE  /\ j \in HolderIn(chunks', nchunk', q) <=> j \in HolderIn(chunks, nchunk, q)
                 /\ j \in HolderIn(chunks, nchunk, q) =>
                      chunks'[j].cells[Sub(q)] = chunks[j].cells[Sub(q)]
      <4>1. CASE j = i
        BY <4>1, <3>5, <1>1, <1>3, <1>4, <3>1, <3>2, <3>3 DEF HolderIn
      <4>2. CASE j # i
        BY <4>2, <3>5, <3>1, <3>3 DEF HolderIn
      <4>3. QED BY <4>1, <4>2
    <3>6. \A q \in Points : /\ HolderIn(chunks', nchunk', q) \subseteq 1 .. nchunk - 1
                            /\ HolderIn(chunks, nchunk, q) \subseteq 1 .. nchunk - 1
      BY <3>1 DEF HolderIn
    <3>7. QED BY <3>4, <3>5, <3>6
  <2>2. CASE ~Exists(lin)
    <3> DEFINE b == [Background EXCEPT !.pos = ChunkOf(p)]
               new == WithCell(b, Sub(p), v)
    <3>1. /\ nchunk' = nchunk + 1
          /\ chunks' = [i \in 0 .. nchunk |-> IF i < nchunk THEN chunks[i] ELSE new]
      BY <2>2 DEF Insert
    <3>2. b.pos = lin /\ DOMAIN b.cells = {}
      BY <1>1 DEF Background, NoCells
    <3> HIDE DEF b
    <3>3. new.pos = lin /\ DOMAIN new.cells = {Sub(p)} /\ new.cells[Sub(p)] = v
      BY <1>3, <3>2
    <3> HIDE DEF new
    <3>4. /\ chunks'[nchunk] = new
          /\ \A j \in 1 .. nchunk - 1 : chunks'[j] = chunks[j]
          /\ \A j \in 1 .. nchunk' - 1 : j = nchunk \/ j \in 1 .. nchunk - 1
          /\ nchunk \in 1 .. nchunk' - 1 /\ nchunk \notin 1 .. nchunk - 1
          /\ \A j \in 1 .. nchunk - 1 : j \in 1 .. nchunk' - 1
      BY <3>1, <1>2
    <3>5. nchunk \in HolderIn(chunks', nchunk', p) /\ chunks'[nchunk].cells[Sub(p)] = v
      BY <1>1, <3>3, <3>4 DEF HolderIn
    <3>6. ASSUME NEW q \in Points, q # p
          PROVE  /\ HolderIn(chunks', nchunk', q) = HolderIn(chunks, nchunk, q)
                 /\ \A j \in HolderIn(chunks, nchunk, q) :
                      chunks'[j].cells[Sub(q)] = chunks[j].cells[Sub(q)]
      <4>1. nchunk \notin HolderIn(chunks', nchunk', q)
        BY <1>1, <1>4, <3>3, <3>4, <3>6 DEF HolderIn
      <4>2. \A j \in 1 .. nchunk - 1 :
              j \in HolderIn(chunks', nchunk', q) <=> j \in HolderIn(chunks, nchunk, q)
        BY <3>4 DEF HolderIn
      <4>3. /\ HolderIn(chunks', nchunk', q) \subseteq 1 .. nchunk' - 1
            /\ HolderIn(chunks, nchunk, q) \subseteq 1 .. nchunk - 1
        BY DEF HolderIn
      <4>4. QED BY <4>1, <4>2, <4>3, <3>4
    <3>7. QED BY <3>5, <3>6
  <2>3. QED BY <2>1, <2>2
<1>6. In(chunks', nchunk') = PutIn(In(chunks, nchunk), p, v)
  <2>1. PICK i \in HolderIn(chunks', nchunk', p) :
          /\ chunks'[i].cells[Sub(p)] = v
          /\ \A q \in Points : q # p =>
               /\ HolderIn(chunks', nchunk', q) = HolderIn(chunks, nchunk, q)
               /\ \A j \in HolderIn(chunks, nchunk, q) :
                    chunks'[j].cells[Sub(q)] = chunks[j].cells[Sub(q)]
    BY <1>5
  <2>2. QED BY <1>2, <2>1, InPut
<1>7. QED BY <1>6, ContentsAreIn

\* A chunk without the cells in S.
LEMMA WithoutCellsAt ==
  ASSUME NEW c, NEW S
  PROVE  /\ DOMAIN WithoutCells(c, S).cells = DOMAIN c.cells \ S
         /\ WithoutCells(c, S).pos = c.pos
         /\ \A t \in DOMAIN c.cells \ S : WithoutCells(c, S).cells[t] = c.cells[t]
BY DEF WithoutCells

\* remove_point takes out one point.
LEMMA RemovePointContents ==
  ASSUME IndInv, NEW p \in Points
  PROVE  In(ChunksWithout(p), nchunk) = KeepIn(Contents, Points \ {p})
<1> DEFINE lin == Lin(ChunkOf(p))
           i == Active(lin)
           to == ChunksWithout(p)
<1>1. lin \in Nat /\ lin = ChunkOf(p)
  BY ConstantTypes DEF Lin
<1>2. /\ nchunk \in Nat \ {0} /\ chunks \in [0 .. nchunk - 1 -> Chunk]
      /\ OnePerPosition(chunks, nchunk) /\ DOMAIN map = {chunks[j].pos : j \in 1 .. nchunk - 1}
  BY DEF IndInv, TypeInv, TypeOK, Leads, Lin
<1>3. \A q \in Points : q # p /\ ChunkOf(q) = ChunkOf(p) => Sub(q) # Sub(p)
  BY SamePoint
<1>4. to = IF Exists(lin) THEN [chunks EXCEPT ![i] = WithoutCells(chunks[i], {Sub(p)})] ELSE chunks
  BY DEF ChunksWithout
<1>5. /\ Exists(lin) => i \in 1 .. nchunk - 1 /\ chunks[i].pos = lin
      /\ Exists(lin) <=> lin \in DOMAIN map
  BY <1>1, LookupIsRight
<1> HIDE DEF lin, i, to
<1>6. ASSUME NEW j \in 1 .. nchunk - 1
      PROVE  /\ to[j].pos = chunks[j].pos
             /\ \A q \in Points : chunks[j].pos = ChunkOf(q) =>
                  /\ Sub(q) \in DOMAIN to[j].cells <=>
                       Sub(q) \in DOMAIN chunks[j].cells /\ q \in Points \ {p}
                  /\ Sub(q) \in DOMAIN to[j].cells => to[j].cells[Sub(q)] = chunks[j].cells[Sub(q)]
  <2>1. CASE Exists(lin) /\ j = i
    <3>1. to[j] = WithoutCells(chunks[j], {Sub(p)}) /\ chunks[j].pos = ChunkOf(p)
      BY <2>1, <1>1, <1>2, <1>4, <1>5
    <3>2. QED BY <3>1, <1>3, WithoutCellsAt
  <2>2. CASE ~(Exists(lin) /\ j = i)
    <3>1. to[j] = chunks[j] /\ chunks[j].pos # ChunkOf(p)
      BY <2>2, <1>1, <1>2, <1>4, <1>5 DEF OnePerPosition
    <3>2. QED BY <3>1
  <2>3. QED BY <2>1, <2>2
<1>7. In(to, nchunk) = KeepIn(In(chunks, nchunk), Points \ {p})
  <2>1. OnePerPosition(chunks, nchunk) /\ \A j \in 1 .. nchunk - 1 : to[j].pos = chunks[j].pos
    BY <1>2, <1>6
  <2>2. QED BY <2>1, <1>6, InKept
<1>8. QED BY <1>7, ContentsAreIn DEF to

\* remove(Box) takes out the points of the box.
LEMMA RemoveBoxContents ==
  ASSUME IndInv, NEW lo \in Points, NEW hi \in Points
  PROVE  In([i \in DOMAIN chunks |-> WithoutCells(chunks[i], InSection(chunks[i], lo, hi))], nchunk)
         = KeepIn(Contents, Points \ (lo .. hi))
<1> DEFINE to == [i \in DOMAIN chunks |-> WithoutCells(chunks[i], InSection(chunks[i], lo, hi))]
<1>1. /\ nchunk \in Nat \ {0} /\ DOMAIN chunks = 0 .. nchunk - 1
      /\ OnePerPosition(chunks, nchunk)
  BY DEF IndInv, TypeInv, TypeOK
<1>2. ASSUME NEW j \in 1 .. nchunk - 1
      PROVE  to[j] = WithoutCells(chunks[j], InSection(chunks[j], lo, hi))
  BY <1>1
<1> HIDE DEF to
<1>3. ASSUME NEW j \in 1 .. nchunk - 1, NEW q \in Points, chunks[j].pos = ChunkOf(q)
      PROVE  Sub(q) \in InSection(chunks[j], lo, hi) <=> q \in lo .. hi
  <2>1. /\ ChunkOf(q) \in Nat /\ Sub(q) \in Subs /\ q \in Nat /\ lo \in Nat /\ hi \in Nat
        /\ ChunkOf(q) * ChunkSize + Sub(q) = q
    BY ConstantTypes, PointSplits
  <2>2. InSection(chunks[j], lo, hi) =
          {s \in Subs : lo <= ChunkOf(q) * ChunkSize + s /\ ChunkOf(q) * ChunkSize + s <= hi}
    BY <1>3, <2>1 DEF InSection
  <2>3. Sub(q) \in InSection(chunks[j], lo, hi) <=> lo <= q /\ q <= hi
    BY <2>1, <2>2
  <2>4. QED BY <2>1, <2>3
<1>4. ASSUME NEW j \in 1 .. nchunk - 1
      PROVE  /\ to[j].pos = chunks[j].pos
             /\ \A q \in Points : chunks[j].pos = ChunkOf(q) =>
                  /\ Sub(q) \in DOMAIN to[j].cells <=>
                       Sub(q) \in DOMAIN chunks[j].cells /\ q \in Points \ (lo .. hi)
                  /\ Sub(q) \in DOMAIN to[j].cells => to[j].cells[Sub(q)] = chunks[j].cells[Sub(q)]
  BY <1>2, <1>3, WithoutCellsAt
<1>5. In(to, nchunk) = KeepIn(In(chunks, nchunk), Points \ (lo .. hi))
  BY <1>1, <1>4, InKept
<1>6. QED BY <1>5, ContentsAreIn DEF to

\* resize takes out some of the points that do not fit, and no other.
LEMMA ResizeContents ==
  ASSUME IndInv, NEW sz \in Sizes, Resize(sz)
  PROVE  \E gone \in SUBSET {p \in Points : p >= sz} : Contents' = KeepIn(Contents, Points \ gone)
<1> DEFINE out == {i \in DOMAIN chunks \ {0} : FullyOut(chunks[i], sz)}
           ch == [i \in DOMAIN chunks |-> IF i = 0 THEN chunks[0] ELSE Crop(chunks[i], sz)]
           cut == {p \in Points : p > sz /\ ~(ChunkOf(p) = 0 /\ sz <= ChunkSize)}
<1>1. /\ nchunk \in Nat \ {0} /\ chunks \in [0 .. nchunk - 1 -> Chunk]
      /\ OnePerPosition(chunks, nchunk) /\ sz \in Nat /\ ChunkSize \in Nat
  BY ConstantTypes DEF IndInv, TypeInv, TypeOK
<1>2. CASE sz >= g_sm
  <2>1. Contents' = Contents
    BY <1>2 DEF Resize, Contents, Holder
  <2>2. KeepIn(Contents, Points \ {}) = Contents
    BY KeepAll, ContentsAreIn
  <2>3. QED BY <2>1, <2>2
<1>3. CASE ~(sz >= g_sm)
  <2>1. /\ chunks' = RemoveKeys(ch, out, nchunk - Cardinality(out))
        /\ nchunk' = nchunk - Cardinality(out)
    BY <1>3 DEF Resize
  <2>2. /\ out \in SUBSET (1 .. nchunk - 1)
        /\ DOMAIN ch = 0 .. nchunk - 1
        /\ \A j \in 1 .. nchunk - 1 : ch[j] = Crop(chunks[j], sz)
    BY <1>1
  <2>3. \A j \in out : chunks[j].pos * ChunkSize > sz /\ chunks[j].pos \in Nat
    <3>1. ASSUME NEW j \in out
          PROVE  chunks[j].pos * ChunkSize > sz /\ chunks[j].pos \in Nat
      <4>1. FullyOut(chunks[j], sz) /\ j \in 1 .. nchunk - 1
        BY <2>2
      <4>2. chunks[j].pos \in Nat
        BY <4>1, <1>1 DEF OnePerPosition
      <4>3. QED BY <4>1, <4>2 DEF FullyOut
    <3>2. QED BY <3>1
  <2> HIDE DEF out, ch
  <2>4. ASSUME NEW j \in 1 .. nchunk - 1, NEW q \in Points, chunks[j].pos = ChunkOf(q)
        PROVE  /\ ch[j].pos = ChunkOf(q)
               /\ Sub(q) \in DOMAIN ch[j].cells <=> Sub(q) \in DOMAIN chunks[j].cells /\ q \in Points \ cut
               /\ Sub(q) \in DOMAIN ch[j].cells => ch[j].cells[Sub(q)] = chunks[j].cells[Sub(q)]
    <3>1. /\ ChunkOf(q) \in Nat /\ Sub(q) \in Subs /\ q \in Nat
          /\ ChunkOf(q) * ChunkSize + Sub(q) = q
      BY ConstantTypes, PointSplits
    <3>2. CASE ChunkOf(q) = 0 /\ sz <= ChunkSize
      <4>1. ch[j] = chunks[j] /\ q \notin cut
        BY <2>2, <2>4, <3>2 DEF Crop
      <4>2. QED BY <4>1, <2>4
    <3>3. CASE ~(ChunkOf(q) = 0 /\ sz <= ChunkSize)
      <4> DEFINE S == {s \in Subs : ChunkOf(q) * ChunkSize + s > sz}
      <4>1. ch[j] = WithoutCells(chunks[j], S)
        BY <2>2, <2>4, <3>3 DEF Crop
      <4>2. Sub(q) \in S <=> q \in cut
        BY <3>1, <3>3
      <4> HIDE DEF S
      <4>3. QED BY <4>1, <4>2, <2>4, WithoutCellsAt
    <3>4. QED BY <3>2, <3>3
  <2>5. \A j \in 1 .. nchunk - 1 : ch[j].pos = chunks[j].pos
    <3>1. ASSUME NEW c PROVE Crop(c, sz).pos = c.pos
      BY WithoutCellsAt DEF Crop
    <3>2. QED BY <2>2, <3>1
  <2>6. In(ch, nchunk) = KeepIn(In(chunks, nchunk), Points \ cut)
    <3> HIDE DEF cut
    <3>1. QED BY <1>1, <2>4, <2>5, InKept
  <2>7. OnePerPosition(ch, nchunk)
    BY <1>1, <2>5 DEF OnePerPosition
  <2>8. \A j \in out : DOMAIN ch[j].cells = {}
    <3>1. ASSUME NEW j \in out
          PROVE  DOMAIN ch[j].cells = {}
      <4>1. /\ chunks[j].pos * ChunkSize > sz /\ chunks[j].pos \in Nat /\ chunks[j].pos # 0
            /\ chunks[j].pos * ChunkSize \in Nat
        <5>1. chunks[j].pos * ChunkSize > sz /\ chunks[j].pos \in Nat
          BY <2>3
        <5>2. chunks[j].pos * ChunkSize \in Nat
          BY <5>1, <1>1
        <5>3. 0 * ChunkSize = 0
          BY <1>1
        <5>4. QED BY <5>1, <5>2, <5>3, <1>1
      <4> DEFINE S == {s \in Subs : chunks[j].pos * ChunkSize + s > sz}
      <4>2. ch[j] = WithoutCells(chunks[j], S)
        BY <2>2, <4>1 DEF Crop
      <4>3. S = Subs
        <5>1. \A s \in Subs : s \in Nat
          BY <1>1 DEF Subs
        <5>2. QED BY <5>1, <4>1, <1>1
      <4>4. DOMAIN chunks[j].cells \subseteq Subs
        <5>1. chunks[j] \in Chunk
          BY <2>2, <1>1
        <5>2. QED BY <5>1, ChunkFields
      <4> HIDE DEF S
      <4>5. QED BY <4>2, <4>3, <4>4, WithoutCellsAt
    <3>2. QED BY <3>1
  <2>9. In(chunks', nchunk') = In(ch, nchunk)
    <3> DEFINE m == nchunk - Cardinality(out)
    <3>1. /\ \A i \in 1 .. nchunk - 1 : i \notin out =>
               \E j \in 1 .. m - 1 : RemoveKeys(ch, out, m)[j] = ch[i]
          /\ \A j \in 1 .. m - 1 : \E i \in 1 .. nchunk - 1 :
               i \notin out /\ RemoveKeys(ch, out, m)[j] = ch[i]
      <4>1. nchunk \in Nat \ {0} /\ DOMAIN ch = 0 .. nchunk - 1 /\ out \in SUBSET (1 .. nchunk - 1)
        BY <1>1, <2>2
      <4>2. QED BY <4>1, RemoveKeysOnto
    <3> HIDE DEF m
    <3>2. nchunk' = m /\ chunks' = RemoveKeys(ch, out, m)
      BY <2>1 DEF m
    <3>3. \A i \in 1 .. nchunk - 1 : DOMAIN ch[i].cells # {} => \E j \in 1 .. m - 1 : chunks'[j] = ch[i]
      BY <2>8, <3>1, <3>2
    <3>4. \A j \in 1 .. m - 1 : \E i \in 1 .. nchunk - 1 : chunks'[j] = ch[i]
      BY <3>1, <3>2
    <3>5. In(chunks', m) = In(ch, nchunk)
      BY <2>7, <3>3, <3>4, InMoved
    <3>6. QED BY <3>2, <3>5
  <2>10. cut \in SUBSET {p \in Points : p >= sz}
    <3>1. \A p \in Points : p \in Nat
      BY ConstantTypes
    <3>2. QED BY <3>1, <1>1
  <2>11. Contents' = KeepIn(Contents, Points \ cut)
    BY <2>6, <2>9, ContentsAreIn
  <2> HIDE DEF cut
  <2>12. QED BY <2>10, <2>11
<1>4. QED BY <1>2, <1>3

\* clear leaves only the background.
LEMMA ClearContents ==
  ASSUME IndInv, Clear
  PROVE  Contents' = KeepIn(Contents, Points \ Points)
<1>1. nchunk' = 1 /\ 1 .. nchunk' - 1 = {}
  BY DEF Clear
<1>2. \A p \in Points : HolderIn(chunks', nchunk', p) = {}
  BY <1>1 DEF HolderIn
<1> DEFINE none == [p \in {} |-> Contents[p]]
<1>5. DOMAIN none = {} /\ none = [p \in DOMAIN none |-> none[p]]
  OBVIOUS
<1>6. DOMAIN none = {p \in Points : HolderIn(chunks', nchunk', p) # {}}
  BY <1>2, <1>5
<1> HIDE DEF none
<1>7. In(chunks', nchunk') = none
  <2>1. Describes(none, chunks', nchunk')
    BY <1>2, <1>5, <1>6 DEF Describes
  <2>2. QED BY <2>1, InIs
<1>3. KeepIn(Contents, Points \ Points) = none
  <2>1. DOMAIN Contents \cap (Points \ Points) = {}
    OBVIOUS
  <2>2. QED BY <2>1 DEF KeepIn, none
<1>4. QED BY <1>3, <1>7, ContentsAreIn

\* reorder moves chunks only.
LEMMA ReorderContents ==
  ASSUME IndInv, SortIsStable, Reorder
  PROVE  Contents' = Contents
<1>1. /\ nchunk \in Nat \ {0} /\ chunks \in [0 .. nchunk - 1 -> Chunk] /\ nchunk' = nchunk
      /\ chunks[0] = Background /\ OnePerPosition(chunks, nchunk)
      /\ chunks'[0] = Background
  BY ReorderKeeps DEF IndInv, TypeInv, TypeOK, Reorder
<1> DEFINE I == 0 .. nchunk - 1
<1>2. PICK q \in [I -> I] :
        /\ \A i, j \in I : q[i] = q[j] => i = j
        /\ \A i \in I : chunks'[i] = chunks[q[i]]
  <2>1. PICK q \in [DOMAIN chunks -> DOMAIN chunks] :
          /\ \A i, j \in DOMAIN q : q[i] = q[j] => i = j
          /\ chunks' = [i \in DOMAIN chunks |-> chunks[q[i]]]
    BY DEF Reorder
  <2>2. DOMAIN chunks = I /\ DOMAIN q = I
    BY <1>1, <2>1
  <2>3. QED BY <2>1, <2>2
<1>3. \A t \in I : \E i \in I : q[i] = t
  <2>1. IsFiniteSet(I)
    BY <1>1, FS_Interval
  <2> HIDE DEF I
  <2>2. q \in Injection(I, I)
    BY <1>2, Fun_IsInj
  <2>3. q \in Surjection(I, I)
    BY <2>1, <2>2, FS_Injection
  <2>4. QED BY <2>3 DEF Surjection
<1>4. \A i \in I : i = 0 \/ i \in 1 .. nchunk - 1
  BY <1>1
<1>5. \A i \in 1 .. nchunk - 1 : i \in I /\ i # 0 /\ chunks[i].pos # BckCoord
  BY <1>1 DEF OnePerPosition, BckCoord
<1>6. 0 \in I /\ chunks[0].pos = BckCoord
  BY <1>1, BackgroundType
<1> HIDE DEF I
<1>7. q[0] = 0
  <2>1. chunks[q[0]].pos = BckCoord /\ q[0] \in I
    BY <1>1, <1>2, <1>6
  <2>2. QED BY <2>1, <1>4, <1>5
<1>8. \A j \in 1 .. nchunk - 1 : \E i \in 1 .. nchunk - 1 : chunks'[j] = chunks[i]
  <2>1. ASSUME NEW j \in 1 .. nchunk - 1 PROVE q[j] \in 1 .. nchunk - 1
    BY <1>2, <1>4, <1>5, <1>6, <1>7
  <2>2. QED BY <2>1, <1>2, <1>5
<1>9. \A i \in 1 .. nchunk - 1 : \E j \in 1 .. nchunk - 1 : chunks'[j] = chunks[i]
  <2>1. ASSUME NEW i \in 1 .. nchunk - 1 PROVE \E j \in 1 .. nchunk - 1 : chunks'[j] = chunks[i]
    <3>1. PICK j \in I : q[j] = i
      BY <1>3, <1>5
    <3>2. j # 0
      BY <3>1, <1>5, <1>7
    <3>3. QED BY <3>1, <3>2, <1>2, <1>4
  <2>2. QED BY <2>1
<1>10. In(chunks', nchunk) = In(chunks, nchunk)
  <2>1. OnePerPosition(chunks, nchunk)
    BY <1>1
  <2>2. \A i \in 1 .. nchunk - 1 :
          DOMAIN chunks[i].cells # {} => \E j \in 1 .. nchunk - 1 : chunks'[j] = chunks[i]
    BY <1>9
  <2>3. QED BY <2>1, <2>2, <1>8, InMoved
<1>11. QED BY <1>1, <1>10, ContentsAreIn

-----------------------------------------------------------------------------
(* The refinement.                                                         *)

\* What the refinement needs of the client: it does not use both the
\* operations that renew the chunks without the list of empty ones and those
\* that reclaim by the list, which may then name chunks that are no more.
ListIsCurrent ==
  \/ {"resize", "clear"} \cap Calls = {}
  \/ {"remove", "remove_box", "flush_remove"} \cap Calls = {}

MapInv == IndInv /\ ({"resize", "clear"} \cap Calls = {} => ListInRange)

\* remove_point lists a chunk that is there.
LEMMA RemovePointInRange ==
  ASSUME IndInv, ListInRange, NEW p \in Points
  PROVE  EmptyWithout(p).ids \subseteq 1 .. nchunk - 1
<1>1. Lin(ChunkOf(p)) \in Nat
  BY ConstantTypes DEF Lin
<1>2. Exists(Lin(ChunkOf(p))) => Active(Lin(ChunkOf(p))) \in 1 .. nchunk - 1
  BY <1>1, LookupIsRight
<1>3. QED BY <1>2 DEF EmptyWithout, AddEmpty, ListInRange

\* remove, with the reclaiming it may do, takes out one point.
LEMMA RemoveContents ==
  ASSUME MapInv, ListIsCurrent, NEW p \in Points, Remove(p)
  PROVE  Contents' = KeepIn(Contents, Points \ {p}) /\ ListInRange'
<1>1. IndInv /\ ListInRange
  BY DEF MapInv, ListIsCurrent, Remove, Ready
<1>2. /\ ChunksWithout(p) \in [0 .. nchunk - 1 -> Chunk]
      /\ EmptyWithout(p) \in EmptyType
  BY <1>1, RemovePointTypes DEF IndInv
<1>3. \A i \in 0 .. nchunk - 1 :
        ChunksWithout(p)[i].pos = chunks[i].pos /\ Counted(ChunksWithout(p)[i])
  BY <1>1, RemovePointKeeps
<1>4. RemoveEmpty(ChunksWithout(p), EmptyWithout(p), Looked(Lin(ChunkOf(p))))
  BY DEF Remove
<1>5. In(chunks', nchunk') = In(ChunksWithout(p), nchunk) /\ ListInRange'
  BY <1>1, <1>2, <1>3, <1>4, RemovePointInRange, ReclaimContents
<1>6. QED BY <1>1, <1>5, RemovePointContents, ContentsAreIn

\* So does remove_no_flush, which reclaims nothing.
LEMMA RemoveNoFlushContents ==
  ASSUME IndInv, NEW p \in Points, RemoveNoFlush(p)
  PROVE  /\ Contents' = KeepIn(Contents, Points \ {p})
         /\ ListInRange => ListInRange'
<1>1. chunks' = ChunksWithout(p) /\ empty_v' = EmptyWithout(p) /\ nchunk' = nchunk
  BY DEF RemoveNoFlush
<1>2. ListInRange => ListInRange'
  BY <1>1, RemovePointInRange DEF ListInRange
<1>3. QED BY <1>1, <1>2, RemovePointContents, ContentsAreIn

\* flush_remove takes out none.
LEMMA FlushRemoveContents ==
  ASSUME MapInv, ListIsCurrent, FlushRemove
  PROVE  Contents' = Contents /\ ListInRange'
<1>1. IndInv /\ ListInRange
  BY DEF MapInv, ListIsCurrent, FlushRemove, Ready
<1>2. /\ chunks \in [0 .. nchunk - 1 -> Chunk] /\ empty_v \in EmptyType
      /\ \A i \in 0 .. nchunk - 1 : chunks[i].pos = chunks[i].pos /\ Counted(chunks[i])
      /\ empty_v.ids \subseteq 1 .. nchunk - 1
  BY <1>1 DEF IndInv, TypeInv, TypeOK, ListInRange
<1>3. RemoveEmpty(chunks, empty_v, cache)
  BY DEF FlushRemove
<1>4. In(chunks', nchunk') = In(chunks, nchunk) /\ ListInRange'
  BY <1>1, <1>2, <1>3, ReclaimContents
<1>5. QED BY <1>4, ContentsAreIn

\* remove(Box), with the reclaiming it may do, takes out the points of the box.
LEMMA BoxContents ==
  ASSUME MapInv, ListIsCurrent, NEW lo \in Points, NEW hi \in Points, RemoveBox(lo, hi)
  PROVE  Contents' = KeepIn(Contents, Points \ (lo .. hi)) /\ ListInRange'
<1> DEFINE ch == [i \in DOMAIN chunks |-> WithoutCells(chunks[i], InSection(chunks[i], lo, hi))]
           S == {i \in DOMAIN chunks : chunks[i].cells # NoCells /\ ch[i].cells = NoCells}
           ev == AddEmpty(empty_v, S)
<1>1. IndInv /\ ListInRange
  BY DEF MapInv, ListIsCurrent, RemoveBox, Ready
<1>2. RemoveEmpty(ch, ev, cache)
  BY DEF RemoveBox
<1>3. /\ nchunk \in Nat \ {0} /\ chunks \in [0 .. nchunk - 1 -> Chunk]
      /\ empty_v \in EmptyType /\ chunks[0] = Background
      /\ \A i \in 0 .. nchunk - 1 : Counted(chunks[i])
  BY <1>1 DEF IndInv, TypeInv, TypeOK
<1>4. /\ ch \in [0 .. nchunk - 1 -> Chunk]
      /\ \A i \in 0 .. nchunk - 1 : ch[i].pos = chunks[i].pos /\ Counted(ch[i])
  BY <1>3, WithoutCellsType, WithoutCellsCounts
<1>5. S \in SUBSET (1 .. nchunk - 1)
  BY <1>3 DEF Background
<1>6. S \in SUBSET Nat /\ IsFiniteSet(S)
  <2>1. IsFiniteSet(1 .. nchunk - 1)
    BY <1>3, FS_Interval
  <2> HIDE DEF S
  <2>2. IsFiniteSet(S)
    BY <2>1, <1>5, FS_Subset
  <2>3. QED BY <2>2, <1>5
<1>7. In(ch, nchunk) = KeepIn(Contents, Points \ (lo .. hi))
  BY <1>1, RemoveBoxContents
<1> HIDE DEF ch, S
<1>8. ev \in EmptyType /\ ev.ids \subseteq 1 .. nchunk - 1
  BY <1>1, <1>3, <1>5, <1>6, AddEmptyType DEF AddEmpty, ListInRange
<1> HIDE DEF ev
<1>9. In(chunks', nchunk') = In(ch, nchunk) /\ ListInRange'
  BY <1>1, <1>2, <1>4, <1>8, ReclaimContents
<1>10. QED BY <1>7, <1>9, ContentsAreIn

\* Every call does to the map what its name says.
LEMMA EachCall == SortIsStable /\ ListIsCurrent /\ MapInv => CallByCall
<1> SUFFICES ASSUME SortIsStable, ListIsCurrent, MapInv PROVE CallByCall
  OBVIOUS
<1>0. IndInv
  BY DEF MapInv
<1>1. ASSUME NEW p \in Points, NEW v \in Values, Insert(p, v) PROVE Abstract!Put(p, v)
  BY <1>0, <1>1, InsertContents DEF Abstract!Put, PutIn
<1>2. ASSUME NEW p \in Points, Remove(p) \/ RemoveNoFlush(p) PROVE Abstract!Delete({p})
  <2>1. Contents' = KeepIn(Contents, Points \ {p})
    BY <1>0, <1>2, RemoveContents, RemoveNoFlushContents
  <2>2. QED BY <2>1 DEF KeepIn, Abstract!Delete, Abstract!Keep
<1>3. ASSUME NEW lo \in Points, NEW hi \in Points, RemoveBox(lo, hi) PROVE Abstract!Delete(lo .. hi)
  BY <1>3, BoxContents DEF KeepIn, Abstract!Delete, Abstract!Keep
<1>4. ASSUME NEW sz \in Sizes, Resize(sz) PROVE Abstract!Resize(sz)
  BY <1>0, <1>4, ResizeContents DEF KeepIn, Abstract!Resize, Abstract!Keep
<1>5. ASSUME Clear PROVE Abstract!Delete(Points)
  BY <1>0, <1>5, ClearContents DEF KeepIn, Abstract!Delete, Abstract!Keep
<1>6. ASSUME FlushRemove \/ Reorder PROVE UNCHANGED Contents
  BY <1>0, <1>6, FlushRemoveContents, ReorderContents
<1>7. QED BY <1>1, <1>2, <1>3, <1>4, <1>5, <1>6 DEF CallByCall

\* Every step keeps the invariant of the refinement.
LEMMA MapInvNext == SortIsStable /\ ListIsCurrent /\ MapInv /\ [Next]_vars => MapInv'
<1> SUFFICES ASSUME SortIsStable, ListIsCurrent, MapInv, [Next]_vars PROVE MapInv'
  OBVIOUS
<1>1. IndInv /\ IndInv'
  BY IndInvNext DEF MapInv
<1> SUFFICES ASSUME {"resize", "clear"} \cap Calls = {} PROVE ListInRange'
  BY <1>1 DEF MapInv
<1>2. ListInRange /\ nchunk \in Nat \ {0}
  BY <1>1 DEF MapInv, IndInv, TypeInv, TypeOK
<1>3. ASSUME empty_v' = empty_v, nchunk' = nchunk PROVE ListInRange'
  BY <1>2, <1>3 DEF ListInRange
<1>4. ASSUME NEW p \in Points, NEW v \in Values, Insert(p, v) PROVE ListInRange'
  <2>1. empty_v' = empty_v /\ (nchunk' = nchunk \/ nchunk' = nchunk + 1)
    BY <1>4 DEF Insert
  <2>2. QED BY <2>1, <1>2 DEF ListInRange
<1>5. ASSUME NEW p \in Points, Get(p) PROVE ListInRange'
  BY <1>3, <1>5 DEF Get
<1>6. ASSUME NEW p \in Points, Remove(p) \/ RemoveNoFlush(p) PROVE ListInRange'
  BY <1>1, <1>2, <1>6, RemoveContents, RemoveNoFlushContents
<1>7. ASSUME FlushRemove PROVE ListInRange'
  BY <1>7, FlushRemoveContents
<1>8. ASSUME NEW lo \in Points, NEW hi \in Points, RemoveBox(lo, hi) PROVE ListInRange'
  BY <1>8, BoxContents
<1>9. ASSUME \/ Clear \/ \E sz \in Sizes : Resize(sz) PROVE ListInRange'
  BY <1>9 DEF Clear, Resize, Ready
<1>10. ASSUME Reorder PROVE ListInRange'
  BY <1>10 DEF Reorder, NoneEmpty, ListInRange
<1>11. ASSUME \/ \E op \in {"conv", "conv_cross"}, lo, hi \in Points : ConvBegin(op, lo, hi)
              \/ \E lo, hi \in Points : ConvUse(lo, hi)
              \/ ConvSkip \/ ConvLookup \/ ConvEnd
       PROVE  ListInRange'
  BY <1>3, <1>11 DEF ConvBegin, ConvUse, ConvSkip, ConvLookup, ConvEnd
<1>12. ASSUME UNCHANGED vars PROVE ListInRange'
  BY <1>3, <1>12 DEF vars
<1>13. QED
  BY <1>4, <1>5, <1>6, <1>7, <1>8, <1>9, <1>10, <1>11, <1>12 DEF Next

\* It holds at first.
LEMMA MapInvInit == Init => MapInv
<1> SUFFICES ASSUME Init PROVE MapInv
  OBVIOUS
<1>1. empty_v.ids = {}
  BY DEF Init, NoneEmpty
<1>2. QED BY <1>1, IndInvInit DEF MapInv, ListInRange

\* A step of the grid is a step of the map, or leaves it as it is.
LEMMA StepImplements ==
  SortIsStable /\ ListIsCurrent /\ MapInv /\ [Next]_vars => [Abstract!Next]_Contents
<1> SUFFICES ASSUME SortIsStable, ListIsCurrent, MapInv, [Next]_vars
             PROVE  [Abstract!Next]_Contents
  OBVIOUS
<1>1. CallByCall
  BY EachCall
<1>2. ASSUME UNCHANGED <<chunks, nchunk>> PROVE UNCHANGED Contents
  BY <1>2 DEF Contents, Holder
<1>3. ASSUME NEW p \in Points, NEW v \in Values, Insert(p, v) PROVE Abstract!Next
  BY <1>1, <1>3 DEF CallByCall, Abstract!Next
<1>4. ASSUME NEW p \in Points, Remove(p) \/ RemoveNoFlush(p) PROVE Abstract!Next
  <2>1. p .. p = {p}
    BY ConstantTypes
  <2>2. Abstract!Delete(p .. p)
    BY <2>1, <1>1, <1>4 DEF CallByCall
  <2>3. QED BY <2>2 DEF Abstract!Next
<1>5. ASSUME NEW lo \in Points, NEW hi \in Points, RemoveBox(lo, hi) PROVE Abstract!Next
  BY <1>1, <1>5 DEF CallByCall, Abstract!Next
<1>6. ASSUME NEW sz \in Sizes, Resize(sz) PROVE [Abstract!Next]_Contents
  <2>1. CASE sz \in Points
    BY <1>1, <1>6, <2>1 DEF CallByCall, Abstract!Next
  <2>2. CASE sz \notin Points
    <3>1. {p \in Points : p >= sz} = {}
      <4>1. ASSUME NEW p \in Points, p >= sz PROVE FALSE
        <5>1. PICK t \in Sizes : p \in 0 .. t - 1
          BY DEF Points
        <5>2. sz \in Nat /\ t \in Nat
          BY ConstantTypes
        <5>3. sz \in 0 .. t - 1
          BY <5>1, <5>2, <4>1
        <5>4. QED BY <5>3, <2>2 DEF Points
      <4>2. QED BY <4>1
    <3>2. PICK gone \in SUBSET {p \in Points : p >= sz} : Contents' = KeepIn(Contents, Points \ gone)
      BY <1>6, ResizeContents DEF MapInv
    <3>3. gone = {}
      BY <3>1
    <3>4. KeepIn(Contents, Points \ {}) = Contents
      BY KeepAll, ContentsAreIn
    <3>5. QED BY <3>2, <3>3, <3>4
  <2>3. QED BY <2>1, <2>2
<1>7. ASSUME Clear PROVE Abstract!Next
  BY <1>1, <1>7 DEF CallByCall, Abstract!Next
<1>8. ASSUME FlushRemove \/ Reorder PROVE UNCHANGED Contents
  BY <1>1, <1>8 DEF CallByCall
<1>9. ASSUME \/ \E p \in Points : Get(p)
             \/ \E op \in {"conv", "conv_cross"}, lo, hi \in Points : ConvBegin(op, lo, hi)
             \/ \E lo, hi \in Points : ConvUse(lo, hi)
             \/ ConvSkip \/ ConvLookup \/ ConvEnd \/ UNCHANGED vars
      PROVE  UNCHANGED Contents
  <2>1. UNCHANGED <<chunks, nchunk>>
    BY <1>9 DEF Get, ConvBegin, ConvUse, ConvSkip, ConvLookup, ConvEnd, vars
  <2>2. QED BY <2>1, <1>2
<1>10. QED
  BY <1>3, <1>4, <1>5, <1>6, <1>7, <1>8, <1>9 DEF Next

\* A new grid is the empty map.
LEMMA InitImplements == Init => Abstract!Init
<1> SUFFICES ASSUME Init PROVE Abstract!Init
  OBVIOUS
<1> DEFINE none == [p \in {} |-> CHOOSE v \in Values : TRUE]
<1>1. \A p \in Points : HolderIn(chunks, nchunk, p) = {}
  <2>1. nchunk = 1 /\ 1 .. nchunk - 1 = {}
    BY DEF Init
  <2>2. QED BY <2>1 DEF HolderIn
<1>2. DOMAIN none = {} /\ none = [p \in DOMAIN none |-> none[p]]
  OBVIOUS
<1>3. DOMAIN none = {p \in Points : HolderIn(chunks, nchunk, p) # {}}
  BY <1>1, <1>2
<1> HIDE DEF none
<1>4. In(chunks, nchunk) = none
  <2>1. Describes(none, chunks, nchunk)
    BY <1>1, <1>2, <1>3 DEF Describes
  <2>2. QED BY <2>1, InIs
<1>5. QED BY <1>4, ContentsAreIn DEF Abstract!Init, none

\* For every chunk size, every set of grid sizes, any values and threshold: the
\* grid is the map of points, call by call.  Cache, hash map, creation and
\* reclaiming of chunks, crop, reorder and convolutions never lose, move or
\* change a point (sgrid_cpu::insert, get, remove, resize, clear, reorder).
THEOREM GridImplementsMap ==
  ASSUME SortIsStable, ListIsCurrent
  PROVE  Spec => ImplementsMap
<1>1. Init => MapInv /\ Abstract!Init
  BY MapInvInit, InitImplements
<1>2. MapInv /\ [Next]_vars => MapInv'
  BY MapInvNext
<1>3. MapInv /\ [Next]_vars => [Abstract!Next]_Contents
  BY StepImplements
<1>4. MapInv /\ [Next]_vars => [CallByCall]_vars
  BY EachCall
<1>5. QED BY <1>1, <1>2, <1>3, <1>4, PTL DEF Spec, ImplementsMap, Abstract!Spec

-----------------------------------------------------------------------------
(* Empty chunks.                                                           *)

\* The operations that forget which chunks are empty: resize crops chunks
\* without listing them, reorder drops the list.
ListIsKept == {"resize", "reorder"} \cap Calls = {}

Listed(ch, n, ids) == \A i \in 1 .. n - 1 : ch[i].nele = 0 => i \in ids

\* remove_empty leaves no empty chunk when it knows them all.
LEMMA ReclaimsAll ==
  ASSUME IndInv, NEW ch \in [0 .. nchunk - 1 -> Chunk], ch[0] = Background,
         NEW ev \in EmptyType, 0 \notin ev.ids, Listed(ch, nchunk, ev.ids), EmptyIsListed,
         NEW c, RemoveEmpty(ch, ev, c)
  PROVE  EmptyIsListed'
<1>1. nchunk \in Nat \ {0} /\ DOMAIN ch = 0 .. nchunk - 1
  BY DEF IndInv, TypeInv, TypeOK
<1>2. CASE ev.size < FLUSH_REMOVE
  BY <1>2 DEF RemoveEmpty, EmptyIsListed, Listed
<1>3. CASE ~(ev.size < FLUSH_REMOVE)
  <2> DEFINE dead(stale) == ReallyEmpty(ch, ev) \cup stale
             m(stale) == nchunk - Cardinality(dead(stale))
  <2>1. PICK stale \in SUBSET (ev.ids \ DOMAIN ch) :
          IF m(stale) < 1
          THEN ub' = TRUE /\ UNCHANGED <<map, chunks, nchunk, cache, empty_v>>
          ELSE /\ nchunk' = m(stale)
               /\ chunks' = RemoveKeys(ch, dead(stale), m(stale))
               /\ map' = ReconstructMap(chunks')
               /\ empty_v' = NoneEmpty
               /\ cache' = ClearCache(c)
               /\ UNCHANGED ub
    BY <1>3 DEF RemoveEmpty
  <2>2. CASE m(stale) < 1
    BY <2>1, <2>2 DEF EmptyIsListed
  <2>3. CASE ~(m(stale) < 1)
    <3> DEFINE keys == dead(stale)
    <3>1. keys \subseteq ev.ids /\ IsFiniteSet(ev.ids)
      BY DEF ReallyEmpty, EmptyType
    <3>2. IsFiniteSet(keys) /\ 0 \notin keys
      BY <3>1, FS_Subset
    <3>3. \A i \in 1 .. nchunk - 1 : ch[i].nele = 0 => i \in keys
      BY <1>1 DEF Listed, ReallyEmpty
    <3>4. chunks' = RemoveKeys(ch, keys, nchunk - Cardinality(keys)) /\ nchunk' = nchunk - Cardinality(keys)
      BY <2>1, <2>3
    <3>5. nchunk - Cardinality(keys) >= 1
      <4>1. Cardinality(keys) \in Nat
        BY <3>2, FS_CardinalityType
      <4>2. QED BY <4>1, <2>3, <1>1
    <3> HIDE DEF keys
    <3> DEFINE k == nchunk - Cardinality(keys)
    <3>6. k \in Nat \ {0} /\ k <= Cardinality(0 .. nchunk - 1 \ keys)
      <4>1. nchunk \in Nat
        BY <1>1
      <4>2. Cardinality(keys) \in Nat /\ nchunk - Cardinality(keys) <= Cardinality(0 .. nchunk - 1 \ keys)
        BY <4>1, <3>2, Survivors
      <4>3. QED BY <4>2, <3>5, <1>1
    <3> HIDE DEF k
    <3>7. /\ \A i \in 0 .. k - 1 :
               /\ Nth(0 .. nchunk - 1 \ keys, i) \in 0 .. nchunk - 1 \ keys
               /\ RemoveKeys(ch, keys, k)[i] = ch[Nth(0 .. nchunk - 1 \ keys, i)]
          /\ \A i, j \in 0 .. k - 1 :
               Nth(0 .. nchunk - 1 \ keys, i) = Nth(0 .. nchunk - 1 \ keys, j) => i = j
          /\ Nth(0 .. nchunk - 1 \ keys, 0) = 0
      <4>1. k \in Nat /\ nchunk \in Nat /\ 0 < k /\ 0 \in 0 .. nchunk - 1 \ keys
        BY <1>1, <3>2, <3>6
      <4>2. /\ DOMAIN RemoveKeys(ch, keys, k) = 0 .. k - 1
            /\ \A i \in 0 .. k - 1 :
                 /\ Nth(0 .. nchunk - 1 \ keys, i) \in 0 .. nchunk - 1 \ keys
                 /\ RemoveKeys(ch, keys, k)[i] = ch[Nth(0 .. nchunk - 1 \ keys, i)]
            /\ \A i, j \in 0 .. k - 1 :
                 Nth(0 .. nchunk - 1 \ keys, i) = Nth(0 .. nchunk - 1 \ keys, j) => i = j
            /\ 0 < k /\ 0 \in 0 .. nchunk - 1 \ keys => Nth(0 .. nchunk - 1 \ keys, 0) = 0
        BY <4>1, <1>1, <3>6, RemoveKeysKeeps, Zenon
      <4>3. QED BY <4>1, <4>2
    <3>8. ASSUME NEW j \in 1 .. k - 1, chunks'[j].nele = 0 PROVE FALSE
      <4> DEFINE i == Nth(0 .. nchunk - 1 \ keys, j)
      <4>1. j \in 0 .. k - 1 /\ j # 0 /\ 0 \in 0 .. k - 1
        BY <3>6
      <4>2. i \in 0 .. nchunk - 1 /\ i \notin keys /\ i # 0 /\ chunks'[j] = ch[i]
        BY <4>1, <3>4, <3>7 DEF k
      <4> HIDE DEF i
      <4>3. i \in 1 .. nchunk - 1
        BY <4>2, <1>1
      <4>4. QED BY <4>2, <4>3, <3>3, <3>8
    <3>9. nchunk' = k
      BY <3>4 DEF k
    <3>10. QED BY <3>8, <3>9 DEF EmptyIsListed
  <2>4. QED BY <2>2, <2>3
<1>4. QED BY <1>2, <1>3

\* remove_point lists the chunk that lost its last point.
LEMMA RemovePointLists ==
  ASSUME IndInv, EmptyIsListed, NEW p \in Points
  PROVE  Listed(ChunksWithout(p), nchunk, EmptyWithout(p).ids)
<1> DEFINE lin == Lin(ChunkOf(p))
           i == Active(lin)
<1>1. lin \in Nat
  BY ConstantTypes DEF Lin
<1>2. nchunk \in Nat \ {0} /\ chunks \in [0 .. nchunk - 1 -> Chunk]
  BY DEF IndInv, TypeInv, TypeOK
<1>3. Exists(lin) => i \in 1 .. nchunk - 1
  BY <1>1, LookupIsRight
<1>4. ChunksWithout(p) = IF Exists(lin)
                         THEN [chunks EXCEPT ![i] = WithoutCells(chunks[i], {Sub(p)})] ELSE chunks
  BY DEF ChunksWithout
<1>5. EmptyWithout(p) = IF Exists(lin) /\ Sub(p) \in DOMAIN chunks[i].cells /\ chunks[i].nele = 1
                        THEN AddEmpty(empty_v, {i}) ELSE empty_v
  BY DEF EmptyWithout
<1>6. empty_v.ids \subseteq EmptyWithout(p).ids
  BY <1>5 DEF AddEmpty
<1> HIDE DEF lin, i
<1>7. ASSUME NEW j \in 1 .. nchunk - 1, ChunksWithout(p)[j].nele = 0
      PROVE  j \in EmptyWithout(p).ids
  <2>1. CASE chunks[j].nele = 0
    BY <2>1, <1>6 DEF EmptyIsListed
  <2>2. CASE chunks[j].nele # 0
    <3>1. Exists(lin) /\ j = i /\ ChunksWithout(p)[j] = WithoutCells(chunks[j], {Sub(p)})
      BY <2>2, <1>2, <1>3, <1>4, <1>7
    <3>2. chunks[j].nele - Cardinality(DOMAIN chunks[j].cells \cap {Sub(p)}) = 0
      BY <3>1, <1>7 DEF WithoutCells
    <3>3. chunks[j].nele \in Int
      <4>1. chunks[j] \in Chunk
        BY <1>2
      <4>2. QED BY <4>1, ChunkFields
    <3>4. Sub(p) \in DOMAIN chunks[j].cells
      <4>1. Sub(p) \notin DOMAIN chunks[j].cells => DOMAIN chunks[j].cells \cap {Sub(p)} = {}
        OBVIOUS
      <4>2. Sub(p) \notin DOMAIN chunks[j].cells => Cardinality(DOMAIN chunks[j].cells \cap {Sub(p)}) = 0
        BY <4>1, FS_EmptySet
      <4>3. QED BY <4>2, <3>2, <3>3, <2>2
    <3>5. DOMAIN chunks[j].cells \cap {Sub(p)} = {Sub(p)} /\ Cardinality({Sub(p)}) = 1
      BY <3>4, FS_Singleton
    <3>6. chunks[j].nele = 1
      BY <3>2, <3>3, <3>5
    <3>7. QED BY <3>1, <3>4, <3>6, <1>5 DEF AddEmpty
  <2>3. QED BY <2>1, <2>2
<1>8. QED BY <1>7 DEF Listed

\* Every step keeps the list complete.
LEMMA EmptyListedNext ==
  ListIsKept /\ IndInv /\ EmptyIsListed /\ [Next]_vars => EmptyIsListed'
<1> SUFFICES ASSUME ListIsKept, IndInv, EmptyIsListed, [Next]_vars PROVE EmptyIsListed'
  OBVIOUS
<1>1. /\ nchunk \in Nat \ {0} /\ chunks \in [0 .. nchunk - 1 -> Chunk] /\ empty_v \in EmptyType
      /\ chunks[0] = Background /\ 0 \notin empty_v.ids
      /\ \A i \in 0 .. nchunk - 1 : Counted(chunks[i])
      /\ Listed(chunks, nchunk, empty_v.ids)
  BY DEF IndInv, TypeInv, TypeOK, EmptyIsListed, Listed
<1>2. ASSUME UNCHANGED <<chunks, nchunk, empty_v>> PROVE EmptyIsListed'
  BY <1>2 DEF EmptyIsListed
<1>3. ASSUME NEW p \in Points, NEW v \in Values, Insert(p, v) PROVE EmptyIsListed'
  <2> DEFINE lin == Lin(ChunkOf(p))
  <2>1. lin \in Nat /\ Sub(p) \in Subs
    BY ConstantTypes DEF Lin
  <2>2. ASSUME NEW c \in Chunk, Counted(c) PROVE WithCell(c, Sub(p), v).nele # 0
    <3>1. Cardinality(DOMAIN c.cells) \in Nat
      BY ChunkFields, FS_CardinalityType
    <3>2. Sub(p) \in DOMAIN c.cells => Cardinality(DOMAIN c.cells) # 0
      BY ChunkFields, FS_EmptySet
    <3>3. QED BY <2>2, <3>1, <3>2 DEF WithCell, Counted
  <2>3. CASE Exists(lin)
    <3> DEFINE i == Active(lin)
    <3>1. /\ chunks' = [chunks EXCEPT ![i] = WithCell(chunks[i], Sub(p), v)]
          /\ nchunk' = nchunk /\ empty_v' = empty_v
      BY <2>3, <1>3 DEF Insert
    <3>2. i \in 1 .. nchunk - 1
      BY <2>1, <2>3, LookupIsRight
    <3> HIDE DEF i, lin
    <3>3. WithCell(chunks[i], Sub(p), v).nele # 0
      BY <3>2, <2>2, <1>1
    <3>4. \A j \in 1 .. nchunk - 1 : chunks'[j].nele = 0 => chunks[j].nele = 0
      BY <3>1, <3>2, <3>3, <1>1
    <3>5. QED BY <3>1, <3>4 DEF EmptyIsListed
  <2>4. CASE ~Exists(lin)
    <3> DEFINE b == [Background EXCEPT !.pos = ChunkOf(p)]
               new == WithCell(b, Sub(p), v)
    <3>1. /\ nchunk' = nchunk + 1 /\ empty_v' = empty_v
          /\ chunks' = [i \in 0 .. nchunk |-> IF i < nchunk THEN chunks[i] ELSE new]
      BY <2>4, <1>3 DEF Insert
    <3>2. new.nele # 0
      <4>1. b \in Chunk /\ Counted(b)
        BY BackgroundType, BackgroundKept, ConstantTypes DEF Chunk, Counted, Background
      <4> HIDE DEF b
      <4>2. QED BY <4>1, <2>2
    <3> HIDE DEF new
    <3>3. \A j \in 1 .. nchunk' - 1 : chunks'[j].nele = 0 => j \in 1 .. nchunk - 1 /\ chunks[j].nele = 0
      BY <3>1, <3>2, <1>1
    <3>4. QED BY <3>1, <3>3 DEF EmptyIsListed
  <2>5. QED BY <2>3, <2>4
<1>4. ASSUME NEW p \in Points, Remove(p) PROVE EmptyIsListed'
  <2>1. RemoveEmpty(ChunksWithout(p), EmptyWithout(p), Looked(Lin(ChunkOf(p))))
    BY <1>4 DEF Remove
  <2>2. /\ ChunksWithout(p) \in [0 .. nchunk - 1 -> Chunk] /\ EmptyWithout(p) \in EmptyType
        /\ ChunksWithout(p)[0] = Background /\ 0 \notin EmptyWithout(p).ids
    BY RemovePointTypes, RemovePointKeeps DEF IndInv
  <2>3. QED BY <2>1, <2>2, RemovePointLists, ReclaimsAll
<1>5. ASSUME NEW p \in Points, RemoveNoFlush(p) PROVE EmptyIsListed'
  BY <1>5, RemovePointLists DEF RemoveNoFlush, EmptyIsListed, Listed
<1>6. ASSUME FlushRemove PROVE EmptyIsListed'
  BY <1>1, <1>6, ReclaimsAll DEF FlushRemove
<1>7. ASSUME NEW lo \in Points, NEW hi \in Points, RemoveBox(lo, hi) PROVE EmptyIsListed'
  <2> DEFINE ch == [i \in DOMAIN chunks |-> WithoutCells(chunks[i], InSection(chunks[i], lo, hi))]
             S == {i \in DOMAIN chunks : chunks[i].cells # NoCells /\ ch[i].cells = NoCells}
             ev == AddEmpty(empty_v, S)
  <2>1. RemoveEmpty(ch, ev, cache)
    BY <1>7 DEF RemoveBox
  <2>2. /\ ch \in [0 .. nchunk - 1 -> Chunk]
        /\ \A i \in 0 .. nchunk - 1 : Counted(ch[i])
    BY <1>1, WithoutCellsType, WithoutCellsCounts
  <2>3. ch[0] = Background
    BY <1>1, BackgroundKept
  <2>4. S \in SUBSET (0 .. nchunk - 1) /\ 0 \notin S
    BY <1>1 DEF Background
  <2>5. S \in SUBSET Nat /\ IsFiniteSet(S)
    <3>1. IsFiniteSet(0 .. nchunk - 1)
      BY <1>1, FS_Interval
    <3> HIDE DEF S
    <3>2. IsFiniteSet(S)
      BY <3>1, <2>4, FS_Subset
    <3>3. QED BY <3>2, <2>4
  <2>6. Listed(ch, nchunk, empty_v.ids \cup S)
    <3>1. ASSUME NEW j \in 1 .. nchunk - 1, ch[j].nele = 0, j \notin empty_v.ids
          PROVE  j \in S
      <4>1. j \in DOMAIN chunks /\ chunks[j] \in Chunk /\ ch[j] \in Chunk /\ Counted(chunks[j])
            /\ Counted(ch[j]) /\ chunks[j].nele # 0
        BY <1>1, <2>2, <3>1 DEF Listed
      <4> HIDE DEF ch
      <4>2. DOMAIN chunks[j].cells # {} /\ DOMAIN ch[j].cells = {}
        BY <3>1, <4>1, ZeroIsEmpty
      <4>3. chunks[j].cells # NoCells
        BY <4>2 DEF NoCells
      <4>4. ch[j].cells = NoCells
        <5>1. ch[j].cells \in [{} -> Values]
          BY <4>1, <4>2, ChunkFields
        <5>2. QED BY <5>1 DEF NoCells
      <4>5. QED BY <4>1, <4>3, <4>4
    <3>2. QED BY <3>1 DEF Listed
  <2> HIDE DEF ch, S
  <2>7. ev \in EmptyType /\ 0 \notin ev.ids /\ Listed(ch, nchunk, ev.ids)
    BY <1>1, <2>4, <2>5, <2>6, AddEmptyType DEF AddEmpty
  <2> HIDE DEF ev
  <2>8. QED BY <2>1, <2>2, <2>3, <2>7, ReclaimsAll
<1>8. ASSUME Reorder \/ \E sz \in Sizes : Resize(sz) PROVE EmptyIsListed'
  BY <1>8 DEF Resize, Reorder, Ready, ListIsKept
<1>9. ASSUME Clear PROVE EmptyIsListed'
  <2>1. nchunk' = 1 /\ 1 .. nchunk' - 1 = {}
    BY <1>9 DEF Clear
  <2>2. QED BY <2>1 DEF EmptyIsListed
<1>10. ASSUME \/ \E p \in Points : Get(p)
              \/ \E op \in {"conv", "conv_cross"}, lo, hi \in Points : ConvBegin(op, lo, hi)
              \/ \E lo, hi \in Points : ConvUse(lo, hi)
              \/ ConvSkip \/ ConvLookup \/ ConvEnd \/ UNCHANGED vars
       PROVE  EmptyIsListed'
  BY <1>2, <1>10 DEF Get, ConvBegin, ConvUse, ConvSkip, ConvLookup, ConvEnd, vars
<1>11. QED
  BY <1>3, <1>4, <1>5, <1>6, <1>7, <1>8, <1>9, <1>10 DEF Next

\* A client that neither resizes nor reorders never has an empty chunk that
\* remove_empty does not know of: all of them can be reclaimed.
THEOREM EmptyListed ==
  ASSUME ListIsKept
  PROVE  Spec => []EmptyIsListed
<1>1. SortIsStable
  BY DEF ListIsKept, SortIsStable
<1>2. Spec => []IndInv
  BY <1>1, IndInvHolds
<1>3. Init => EmptyIsListed
  BY DEF Init, EmptyIsListed
<1>4. QED BY <1>2, <1>3, EmptyListedNext, PTL DEF Spec
=============================================================================
