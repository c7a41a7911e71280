---------------------------- MODULE MemFast_proof ----------------------------
(***************************************************************************)
(* Proofs about MemFast, for any number of objects, cells, elements and    *)
(* slots, as long as no slot count is 0 (with 0 the block never grows, see *)
(* NoOverrun): every variable keeps its type, the pointers handed to the   *)
(* iterators stay in the block, nothing is written past its end, and the   *)
(* memory is the vector of vectors it claims to be.                        *)
(***************************************************************************)
EXTENDS MemFast, SequenceTheorems, TLAPS

Slotted == 0 \notin SlotCounts

\* The shape of a memory, also of one that was moved from.
Shape(m) ==
  /\ m = [slot |-> m.slot, n |-> m.n, cl_n |-> m.cl_n, cl_base |-> m.cl_base]
  /\ m.slot \in Nat /\ m.n \in Nat
  /\ m.cl_n \in [Cells(m) -> Nat]
  /\ \A i \in DOMAIN m.cl_base : m.cl_base[i] \in Elements \cup {Uninit}

\* A memory in use: the block has the length it should have, and every cell
\* has a slot left.
Good(m) ==
  /\ Shape(m)
  /\ m.slot # 0
  /\ m.cl_base \in [0 .. m.slot * m.n - 1 -> Elements \cup {Uninit}]
  /\ \A c \in Cells(m) : m.cl_n[c] < m.slot

IndInv ==
  /\ DOMAIN mem = Lists
  /\ moved \subseteq Lists
  /\ ub = FALSE
  /\ \A x \in Lists : Shape(mem[x]) /\ (x \notin moved => Good(mem[x]))

-----------------------------------------------------------------------------
(* Places in the block.                                                    *)

\* Products of naturals grow with either factor.
LEMMA TimesGrows ==
  ASSUME NEW a \in Nat, NEW b \in Nat, NEW k \in Nat, a <= b
  PROVE  k * a \in Nat /\ k * a <= k * b
<1>1. PICK d \in Nat : b = a + d
  BY SMT
<1>2. k * b = k * a + k * d
  BY <1>1, SMT
<1>3. k * a \in Nat /\ k * d \in Nat
  BY SMT
<1> QED BY <1>2, <1>3, SMT

\* Slot j of cell c lies in a block of n cells with s slots.
LEMMA PlaceInBlock ==
  ASSUME NEW s \in Nat, NEW n \in Nat, NEW c \in 0 .. n - 1, NEW j \in 0 .. s - 1
  PROVE  s * c + j \in 0 .. s * n - 1
<1>1. s * (c + 1) = s * c + s
  BY SMT
<1>2. s * (c + 1) <= s * n
  BY TimesGrows, SMT
<1>3. s * c \in Nat /\ s * n \in Nat
  BY TimesGrows, SMT
<1> QED BY <1>1, <1>2, <1>3, SMT

\* The cell and the slot of a place.
LEMMA PlaceSplits ==
  ASSUME NEW s \in Nat \ {0}, NEW c \in Nat, NEW j \in 0 .. s - 1
  PROVE  (s * c + j) \div s = c /\ (s * c + j) % s = j
<1> DEFINE p == s * c + j
           q == p \div s
           r == p % s
<1>0. p \in Nat
  <2>1. s * c \in Nat
    BY SMT
  <2> QED BY <2>1, SMT
<1>1. p = s * q + r /\ r \in 0 .. s - 1 /\ q \in Int
  BY <1>0, SMT
<1>2. q = c
  <2>1. CASE q < c
    <3>1. s * (c - q) = s * c - s * q /\ s * (c - q) >= s
      BY <2>1, <1>1, SMT
    <3> QED BY <3>1, <1>1, SMT
  <2>2. CASE q > c
    <3>1. s * (q - c) = s * q - s * c /\ s * (q - c) >= s
      BY <2>2, <1>1, SMT
    <3> QED BY <3>1, <1>1, SMT
  <2> QED BY <2>1, <2>2, <1>1, SMT
<1> QED BY <1>1, <1>2, SMT

\* Every place of a block belongs to a slot of a cell.
LEMMA PlaceHasCell ==
  ASSUME NEW s \in Nat \ {0}, NEW n \in Nat, NEW i \in 0 .. s * n - 1
  PROVE  i \div s \in 0 .. n - 1 /\ i % s \in 0 .. s - 1
<1> DEFINE q == i \div s
           r == i % s
<1>1. i = s * q + r /\ r \in 0 .. s - 1 /\ q \in Int
  <2>1. i \in Nat
    BY SMT
  <2> QED BY <2>1, SMT
<1>2. q >= 0
  <2>1. CASE q < 0
    <3>1. s * (0 - q) >= s /\ s * (0 - q) = 0 - s * q
      BY <2>1, <1>1, SMT
    <3> QED BY <3>1, <1>1, SMT
  <2> QED BY <2>1, <1>1, SMT
<1>3. q < n
  <2>1. CASE q >= n
    <3>1. s * n <= s * q
      BY <2>1, <1>1, TimesGrows, SMT
    <3> QED BY <3>1, <1>1, SMT
  <2> QED BY <2>1, <1>1, SMT
<1> QED BY <1>1, <1>2, <1>3, SMT

-----------------------------------------------------------------------------
(* Operations on one memory.                                               *)

LEMMA NoBlockGood ==
  ASSUME NEW s \in Nat \ {0}
  PROVE  Good(NoBlock(s)) /\ View(NoBlock(s)) = [c \in 0 .. -1 |-> <<>>]
<1>1. s * 0 = 0
  BY SMT
<1>2. Good(NoBlock(s))
  BY <1>1, SMT DEF Good, Shape, NoBlock, Cells
<1>3. Cells(NoBlock(s)) = 0 .. -1
  BY SMT DEF NoBlock, Cells
<1>4. \A c \in 0 .. -1 : FALSE
  BY SMT
<1>5. View(NoBlock(s)) = [c \in 0 .. -1 |-> <<>>]
  BY <1>3, <1>4, Zenon DEF View
<1> QED BY <1>2, <1>5

\* init_to_zero: a block of the right length and empty cells, whatever the
\* memory held.
LEMMA ZeroGood ==
  ASSUME NEW s \in Nat \ {0}, NEW n \in Nat, NEW base,
         \A i \in DOMAIN base : base[i] \in Elements \cup {Uninit},
         NEW m, m = [slot |-> s, n |-> n, cl_n |-> [c \in 0 .. n - 1 |-> 0],
                     cl_base |-> Resized(base, n * s)]
  PROVE  Good(m) /\ View(m) = [c \in 0 .. n - 1 |-> <<>>]
<1>1. m.slot = s /\ m.n = n /\ m.cl_n = [c \in 0 .. n - 1 |-> 0]
      /\ m.cl_base = Resized(base, n * s)
  OBVIOUS
<1>2. n * s = s * n
  BY SMT
<1>3. m.cl_base \in [0 .. m.slot * m.n - 1 -> Elements \cup {Uninit}]
  <2>1. Resized(base, n * s) \in [0 .. n * s - 1 -> Elements \cup {Uninit}]
    BY Zenon DEF Resized
  <2> QED BY <1>1, <1>2, <2>1
<1>6. Good(m)
  <2>1. m.cl_n \in [0 .. n - 1 -> Nat] /\ \A c \in 0 .. n - 1 : m.cl_n[c] = 0
    BY <1>1, SMT
  <2>2. Shape(m)
    BY <1>1, <1>3, <2>1, Zenon DEF Shape, Cells
  <2>3. \A c \in Cells(m) : m.cl_n[c] < m.slot
    BY <1>1, <2>1, SMT DEF Cells
  <2>4. m.slot # 0
    BY <1>1, SMT
  <2> QED BY <1>3, <2>2, <2>3, <2>4, Zenon DEF Good
<1>4. View(m) = [c \in 0 .. n - 1 |-> [k \in 1 .. 0 |-> m.cl_base[m.slot * c + (k - 1)]]]
  BY <1>1, Zenon DEF View, Cells
<1>5. ASSUME NEW c \in 0 .. n - 1
      PROVE  [k \in 1 .. 0 |-> m.cl_base[m.slot * c + (k - 1)]] = <<>>
  BY SMT
<1> QED BY <1>4, <1>5, <1>6, Zenon

\* realloc keeps what every cell shows, and doubles the slots.
LEMMA ReallocKeeps ==
  ASSUME NEW m, Good(m)
  PROVE  /\ Good(Realloc(m)) /\ View(Realloc(m)) = View(m)
         /\ Realloc(m).slot = 2 * m.slot /\ Realloc(m).n = m.n
         /\ Realloc(m).cl_n = m.cl_n
<1> DEFINE w == 2 * m.slot
           g == Realloc(m)
           new(i) == IF i % w < m.cl_n[i \div w]
                     THEN m.cl_base[m.slot * (i \div w) + (i % w)] ELSE Uninit
<1>1. /\ m.slot \in Nat \ {0} /\ m.n \in Nat /\ m.cl_n \in [0 .. m.n - 1 -> Nat]
      /\ m.cl_base \in [0 .. m.slot * m.n - 1 -> Elements \cup {Uninit}]
      /\ \A c \in 0 .. m.n - 1 : m.cl_n[c] < m.slot
  BY SMT DEF Good, Shape, Cells
<1>2. w \in Nat \ {0}
  BY <1>1, SMT
<1>3. /\ g = [slot |-> w, n |-> m.n, cl_n |-> m.cl_n,
              cl_base |-> [i \in 0 .. w * m.n - 1 |-> new(i)]]
      /\ g.slot = w /\ g.n = m.n /\ g.cl_n = m.cl_n
      /\ g.cl_base = [i \in 0 .. w * m.n - 1 |-> new(i)]
  BY DEF Realloc
<1>4. ASSUME NEW i \in 0 .. w * m.n - 1
      PROVE  new(i) \in Elements \cup {Uninit}
  <2>1. i \div w \in 0 .. m.n - 1 /\ i % w \in 0 .. w - 1
    BY <1>1, <1>2, PlaceHasCell
  <2>2. CASE i % w < m.cl_n[i \div w]
    <3>0. m.cl_n[i \div w] \in Nat /\ m.cl_n[i \div w] < m.slot
      BY <1>1, <2>1, Zenon
    <3>1. i % w \in 0 .. m.slot - 1
      BY <1>1, <2>1, <2>2, <3>0, SMT
    <3>2. m.slot * (i \div w) + (i % w) \in 0 .. m.slot * m.n - 1
      BY <1>1, <2>1, <3>1, PlaceInBlock
    <3>3. new(i) = m.cl_base[m.slot * (i \div w) + (i % w)]
      BY <2>2, Zenon
    <3> HIDE DEF new, w
    <3> QED BY <1>1, <3>2, <3>3, Zenon
  <2>3. CASE ~(i % w < m.cl_n[i \div w])
    BY <2>3, Zenon
  <2> QED BY <2>2, <2>3
<1>5. Good(g)
  <2> HIDE DEF new, g
  <2>1. g.cl_base \in [0 .. w * m.n - 1 -> Elements \cup {Uninit}]
    BY <1>3, <1>4, Zenon
  <2>2. Shape(g)
    <3>1. g = [slot |-> g.slot, n |-> g.n, cl_n |-> g.cl_n, cl_base |-> g.cl_base]
      BY <1>3, Zenon
    <3> QED BY <1>1, <1>2, <1>3, <2>1, <3>1, Zenon DEF Shape, Cells
  <2>3. Cells(g) = 0 .. m.n - 1
    BY <1>3, Zenon DEF Cells
  <2>4. ASSUME NEW c \in Cells(g) PROVE g.cl_n[c] < g.slot
    <3>1. m.cl_n[c] < m.slot /\ m.cl_n[c] \in Nat
      BY <1>1, <2>3, Zenon
    <3> QED BY <1>1, <1>3, <3>1, SMT
  <2>5. g.cl_base \in [0 .. g.slot * g.n - 1 -> Elements \cup {Uninit}]
    BY <1>3, <2>1, Zenon
  <2>6. g.slot # 0
    BY <1>2, <1>3, SMT
  <2> QED BY <2>2, <2>4, <2>5, <2>6, Zenon DEF Good
<1>6. ASSUME NEW c \in 0 .. m.n - 1, NEW k \in 1 .. m.cl_n[c]
      PROVE  g.cl_base[w * c + (k - 1)] = m.cl_base[m.slot * c + (k - 1)]
  <2>0. m.cl_n[c] \in Nat /\ m.cl_n[c] < m.slot /\ m.slot \in Nat
    BY <1>1, Zenon
  <2>1. k - 1 \in 0 .. w - 1 /\ k - 1 < m.cl_n[c] /\ c \in Nat
    <3> HIDE DEF new, g
    <3> QED BY <2>0, SMT
  <2>2. w * c + (k - 1) \in 0 .. w * m.n - 1
    BY <1>1, <1>2, <2>1, PlaceInBlock
  <2>3. (w * c + (k - 1)) \div w = c /\ (w * c + (k - 1)) % w = k - 1
    BY <1>2, <2>1, PlaceSplits
  <2>4. g.cl_base[w * c + (k - 1)] = new(w * c + (k - 1))
    BY <1>3, <2>2, Zenon
  <2> QED BY <2>1, <2>3, <2>4
<1>7. View(g) = View(m)
  <2> HIDE DEF new, g, w
  <2>1. View(g) = [c \in 0 .. m.n - 1 |->
                     [k \in 1 .. m.cl_n[c] |-> g.cl_base[w * c + (k - 1)]]]
    <3>1. View(g) = [c \in 0 .. g.n - 1 |->
                       [k \in 1 .. g.cl_n[c] |-> g.cl_base[g.slot * c + (k - 1)]]]
      BY Zenon DEF View, Cells
    <3>2. g.slot = w /\ g.n = m.n /\ g.cl_n = m.cl_n
      BY <1>3
    <3> QED BY <3>1, <3>2
  <2>2. View(m) = [c \in 0 .. m.n - 1 |->
                     [k \in 1 .. m.cl_n[c] |-> m.cl_base[m.slot * c + (k - 1)]]]
    BY Zenon DEF View, Cells
  <2>3. ASSUME NEW c \in 0 .. m.n - 1
        PROVE  [k \in 1 .. m.cl_n[c] |-> g.cl_base[w * c + (k - 1)]]
                 = [k \in 1 .. m.cl_n[c] |-> m.cl_base[m.slot * c + (k - 1)]]
    BY <1>6, Zenon
  <2> QED BY <2>1, <2>2, <2>3, Zenon
<1> QED BY <1>3, <1>5, <1>7

\* Before an element is added its cell has two slots left.
LEMMA GrownKeeps ==
  ASSUME NEW m, Good(m), NEW c \in Cells(m)
  PROVE  /\ Good(Grown(m, c)) /\ View(Grown(m, c)) = View(m)
         /\ Grown(m, c).n = m.n /\ Grown(m, c).cl_n = m.cl_n
         /\ m.cl_n[c] + 1 < Grown(m, c).slot
<1>1. m.slot \in Nat \ {0} /\ m.cl_n[c] \in Nat /\ m.cl_n[c] < m.slot
  BY SMT DEF Good, Shape, Cells
<1>2. CASE m.cl_n[c] + 1 >= m.slot
  <2>1. Grown(m, c) = Realloc(m)
    BY <1>2, Zenon DEF Grown
  <2>2. m.cl_n[c] + 1 < 2 * m.slot \/ (m.slot = 1 /\ m.cl_n[c] = 0)
    BY <1>1, SMT
  <2>3. m.cl_n[c] + 1 < 2 * m.slot
    BY <1>1, <2>2, SMT
  <2> QED BY <2>1, <2>3, ReallocKeeps
<1>3. CASE ~(m.cl_n[c] + 1 >= m.slot)
  <2>1. Grown(m, c) = m
    BY <1>3, Zenon DEF Grown
  <2>2. m.cl_n[c] + 1 < m.slot
    BY <1>1, <1>3, SMT
  <2> QED BY <2>1, <2>2
<1> QED BY <1>2, <1>3

-----------------------------------------------------------------------------
(* The invariant is preserved.                                             *)

\* What addCell makes of a memory that has room.
Added(g, c, e) ==
  [slot |-> g.slot, n |-> g.n, cl_n |-> [g.cl_n EXCEPT ![c] = @ + 1],
   cl_base |-> [g.cl_base EXCEPT ![g.slot * c + g.cl_n[c]] = e]]

\* Add one element to a memory that has room.
LEMMA AddedGood ==
  ASSUME NEW g, Good(g), NEW c \in Cells(g), g.cl_n[c] + 1 < g.slot,
         NEW e \in Elements
  PROVE  /\ g.slot * c + g.cl_n[c] \in DOMAIN g.cl_base
         /\ Good(Added(g, c, e))
         /\ View(Added(g, c, e)) = [View(g) EXCEPT ![c] = Append(@, e)]
<1> DEFINE at == g.slot * c + g.cl_n[c]
           m == Added(g, c, e)
<1>0. m = [slot |-> g.slot, n |-> g.n, cl_n |-> [g.cl_n EXCEPT ![c] = @ + 1],
           cl_base |-> [g.cl_base EXCEPT ![at] = e]]
  BY Zenon DEF Added
<1> HIDE DEF m
<1>1. /\ g.slot \in Nat \ {0} /\ g.n \in Nat /\ g.cl_n \in [0 .. g.n - 1 -> Nat]
      /\ g.cl_base \in [0 .. g.slot * g.n - 1 -> Elements \cup {Uninit}]
      /\ \A d \in 0 .. g.n - 1 : g.cl_n[d] < g.slot
      /\ c \in 0 .. g.n - 1 /\ g.cl_n[c] \in Nat
  BY SMT DEF Good, Shape, Cells
<1>2. at \in 0 .. g.slot * g.n - 1
  <2>1. g.cl_n[c] \in 0 .. g.slot - 1
    BY <1>1, SMT
  <2> QED BY <1>1, <2>1, PlaceInBlock
<1>3. /\ m.slot = g.slot /\ m.n = g.n /\ m.cl_n = [g.cl_n EXCEPT ![c] = @ + 1]
      /\ m.cl_base = [g.cl_base EXCEPT ![at] = e]
      /\ m = [slot |-> m.slot, n |-> m.n, cl_n |-> m.cl_n, cl_base |-> m.cl_base]
  BY <1>0, Zenon
<1> HIDE DEF at
<1>4. Good(m)
  <2>1. m.cl_base \in [0 .. m.slot * m.n - 1 -> Elements \cup {Uninit}]
    BY <1>1, <1>2, <1>3, Zenon
  <2>2. m.cl_n \in [0 .. m.n - 1 -> Nat]
    BY <1>1, <1>3, SMT
  <2>3. \A d \in 0 .. m.n - 1 : m.cl_n[d] < m.slot
    BY <1>1, <1>3, SMT
  <2>4. m.slot # 0
    BY <1>1, <1>3, SMT
  <2>5. Shape(m)
    BY <1>1, <1>3, <2>1, <2>2, Zenon DEF Shape, Cells
  <2> QED BY <2>1, <2>3, <2>4, <2>5, Zenon DEF Good, Cells
<1>5. ASSUME NEW d \in 0 .. g.n - 1
      PROVE  View(m)[d] = IF d = c THEN Append(View(g)[d], e) ELSE View(g)[d]
  <2>1. /\ View(g)[d] = [k \in 1 .. g.cl_n[d] |-> g.cl_base[g.slot * d + (k - 1)]]
        /\ View(m)[d] = [k \in 1 .. m.cl_n[d] |-> m.cl_base[g.slot * d + (k - 1)]]
    <3>1. /\ View(g)[d] = [k \in 1 .. g.cl_n[d] |-> g.cl_base[g.slot * d + (k - 1)]]
          /\ View(m)[d] = [k \in 1 .. m.cl_n[d] |-> m.cl_base[m.slot * d + (k - 1)]]
      BY <1>3, Zenon DEF View, Cells
    <3> QED BY <1>3, <3>1
  <2>2. ASSUME NEW k \in 1 .. g.cl_n[d]
        PROVE  g.slot * d + (k - 1) # at
    <3>0. g.cl_n[d] \in Nat /\ g.cl_n[d] < g.slot /\ g.cl_n[c] \in Nat /\ g.cl_n[c] < g.slot
      BY <1>1, Zenon
    <3>1. k - 1 \in 0 .. g.slot - 1 /\ g.cl_n[c] \in 0 .. g.slot - 1
          /\ d \in Nat /\ c \in Nat /\ k - 1 # g.cl_n[d]
      <4>1. g.slot \in Nat /\ g.n \in Nat /\ c \in 0 .. g.n - 1
        BY <1>1
      <4> QED BY <3>0, <4>1, SMT
    <3>2. (g.slot * d + (k - 1)) \div g.slot = d /\ (g.slot * d + (k - 1)) % g.slot = k - 1
      BY <1>1, <3>1, PlaceSplits
    <3>3. at \div g.slot = c /\ at % g.slot = g.cl_n[c]
      BY <1>1, <3>1, PlaceSplits DEF at
    <3>4. CASE d = c
      BY <3>1, <3>2, <3>3, <3>4, Zenon
    <3>5. CASE d # c
      BY <3>2, <3>3, <3>5, Zenon
    <3> QED BY <3>4, <3>5
  <2>3. ASSUME NEW k \in 1 .. g.cl_n[d]
        PROVE  m.cl_base[g.slot * d + (k - 1)] = g.cl_base[g.slot * d + (k - 1)]
    <3>0. g.cl_n[d] \in Nat /\ g.cl_n[d] < g.slot /\ g.slot \in Nat
      BY <1>1, Zenon
    <3>1. k - 1 \in 0 .. g.slot - 1
      BY <3>0, SMT
    <3>2. g.slot * d + (k - 1) \in 0 .. g.slot * g.n - 1
      BY <1>1, <3>1, PlaceInBlock
    <3> QED BY <1>1, <1>3, <2>2, <3>2, Zenon
  <2>4. CASE d # c
    <3>1. m.cl_n[d] = g.cl_n[d]
      BY <1>1, <1>3, <2>4, Zenon
    <3>2. [k \in 1 .. m.cl_n[d] |-> m.cl_base[g.slot * d + (k - 1)]]
            = [k \in 1 .. g.cl_n[d] |-> m.cl_base[g.slot * d + (k - 1)]]
      BY <3>1
    <3>3. [k \in 1 .. g.cl_n[d] |-> m.cl_base[g.slot * d + (k - 1)]]
            = [k \in 1 .. g.cl_n[d] |-> g.cl_base[g.slot * d + (k - 1)]]
      BY <2>3, Zenon
    <3>4. View(m)[d] = View(g)[d]
      BY <2>1, <3>2, <3>3, Zenon
    <3> QED BY <2>4, <3>4, Zenon
  <2>5. CASE d = c
    <3>1. m.cl_n[d] = g.cl_n[d] + 1 /\ g.cl_n[d] \in Nat
      BY <1>1, <1>3, <2>5, Zenon
    <3>2. m.cl_base[g.slot * d + ((g.cl_n[d] + 1) - 1)] = e
      <4>1. (g.cl_n[d] + 1) - 1 = g.cl_n[d]
        BY <3>1, SMT
      <4>2. m.cl_base[at] = e
        BY <1>1, <1>2, <1>3, Zenon
      <4> QED BY <2>5, <4>1, <4>2, Zenon DEF at
    <3> DEFINE n == g.cl_n[d]
               old == [k \in 1 .. n |-> g.cl_base[g.slot * d + (k - 1)]]
               at1(k) == m.cl_base[g.slot * d + (k - 1)]
               new == [k \in 1 .. n + 1 |-> at1(k)]
    <3>3. \A k \in 1 .. n : new[k] = old[k]
      <4>1. \A k \in 1 .. n : k \in 1 .. n + 1
        BY <3>1, SMT
      <4> QED BY <2>3, <4>1, Zenon
    <3>4. new[n + 1] = e
      <4>1. n + 1 \in 1 .. n + 1
        BY <3>1, SMT
      <4>2. at1(n + 1) = e
        BY <3>2
      <4> HIDE DEF at1, n
      <4> QED BY <4>1, <4>2, Zenon
    <3>5. View(g)[d] = old /\ View(m)[d] = new
      BY <2>1, <3>1
    <3>6. old = [k \in 1 .. n |-> old[k]] /\ new = [k \in 1 .. n + 1 |-> new[k]]
      OBVIOUS
    <3> HIDE DEF old, new
    <3>7. n \in Nat
      BY <3>1
    <3> HIDE DEF n
    <3>8. new = Append(old, e)
      <4>1. Len(old) = n /\ DOMAIN old = 1 .. n
        BY <3>6, <3>7, SMT
      <4>2. Append(old, e) = [k \in 1 .. n + 1 |-> IF k <= n THEN old[k] ELSE e]
        BY <3>6, <3>7, <4>1, SMT
      <4>3. \A k \in 1 .. n + 1 : new[k] = IF k <= n THEN old[k] ELSE e
        BY <3>3, <3>4, <3>7, SMT
      <4> QED BY <3>6, <4>2, <4>3, Zenon
    <3> QED BY <2>5, <3>5, <3>8, Zenon
  <2> QED BY <2>4, <2>5
<1>6. View(m) = [View(g) EXCEPT ![c] = Append(@, e)]
  <2>1. /\ View(m) = [d \in 0 .. g.n - 1 |-> View(m)[d]]
        /\ View(g) = [d \in 0 .. g.n - 1 |-> View(g)[d]]
    <3>1. Cells(m) = 0 .. g.n - 1 /\ Cells(g) = 0 .. g.n - 1
      BY <1>3, Zenon DEF Cells
    <3> QED BY <3>1 DEF View
  <2>2. [View(g) EXCEPT ![c] = Append(@, e)]
          = [d \in 0 .. g.n - 1 |-> IF d = c THEN Append(View(g)[d], e) ELSE View(g)[d]]
    BY <1>1, <2>1, Zenon
  <2> QED BY <1>5, <2>1, <2>2, Zenon
<1>7. at \in DOMAIN g.cl_base
  BY <1>1, <1>2, Zenon
<1> QED BY <1>4, <1>6, <1>7, Zenon DEF at, m

NoCells == [c \in 0 .. -1 |-> <<>>]
CellsOf == [x \in Lists |-> Contents(x)]

\* Contents and the invariant after a step, in terms of the memories after it.
LEMMA ContentsAfter ==
  CellsOf' = [z \in Lists |-> IF z \in moved' THEN NoCells ELSE View(mem'[z])]
BY DEF CellsOf, Contents, View, Cells, NoCells

LEMMA IndInvAfter ==
  ASSUME DOMAIN mem' = Lists, moved' \subseteq Lists, ub' = FALSE,
         \A z \in Lists : Shape(mem'[z]) /\ (z \notin moved' => Good(mem'[z]))
  PROVE  IndInv'
BY DEF IndInv, Shape, Good, Cells

\* One object gets a good memory.
LEMMA OneUpdated ==
  ASSUME IndInv, NEW x \in Lists, NEW m, Good(m),
         mem' = [mem EXCEPT ![x] = m], moved' = moved \ {x}, ub' = ub
  PROVE  IndInv' /\ CellsOf' = [CellsOf EXCEPT ![x] = View(m)]
<1>1. /\ DOMAIN mem = Lists /\ moved \subseteq Lists /\ ub = FALSE
      /\ \A z \in Lists : Shape(mem[z]) /\ (z \notin moved => Good(mem[z]))
  BY DEF IndInv
<1>2. DOMAIN mem' = Lists /\ \A z \in Lists : mem'[z] = IF z = x THEN m ELSE mem[z]
  BY <1>1
<1>3. Shape(m)
  BY Zenon DEF Good
<1>4. \A z \in Lists : Shape(mem'[z]) /\ (z \notin moved' => Good(mem'[z]))
  BY <1>1, <1>2, <1>3
<1>5. IndInv'
  BY <1>1, <1>2, <1>4, IndInvAfter
<1>6. CellsOf = [z \in Lists |-> IF z \in moved THEN NoCells ELSE View(mem[z])]
  BY DEF CellsOf, Contents, NoCells
<1>7. CellsOf' = [CellsOf EXCEPT ![x] = View(m)]
  BY <1>2, <1>6, ContentsAfter
<1> QED BY <1>5, <1>7

-----------------------------------------------------------------------------
(* The steps: each preserves the invariant and does to the cells what the  *)
(* abstract operation of its name does.                                    *)

LEMMA AddStep ==
  ASSUME IndInv, NEW x \in Lists, NEW c \in Cells(mem[x]), NEW e \in Elements,
         AddCell(x, c, e)
  PROVE  IndInv' /\ Cell!Add(x, c, e)
<1> DEFINE g == Grown(mem[x], c)
           m == Added(g, c, e)
<1>1. x \notin moved /\ Good(mem[x]) /\ moved' = moved
  BY DEF AddCell, Usable, IndInv
<1>2. /\ Good(g) /\ View(g) = View(mem[x]) /\ g.n = mem[x].n /\ g.cl_n = mem[x].cl_n
      /\ mem[x].cl_n[c] + 1 < g.slot
  BY <1>1, GrownKeeps
<1>3. c \in Cells(g) /\ g.cl_n[c] + 1 < g.slot
  BY <1>2 DEF Cells
<1>4. IF g.slot * c + g.cl_n[c] \in DOMAIN g.cl_base
      THEN mem' = [mem EXCEPT ![x] = m] /\ UNCHANGED ub
      ELSE ub' = TRUE /\ UNCHANGED mem
  BY Zenon DEF AddCell, Added
<1> HIDE DEF g
<1>5. /\ g.slot * c + g.cl_n[c] \in DOMAIN g.cl_base
      /\ Good(m)
      /\ View(m) = [View(g) EXCEPT ![c] = Append(@, e)]
  <2>1. Good(g) /\ c \in Cells(g) /\ g.cl_n[c] + 1 < g.slot
    BY <1>2, <1>3, Zenon
  <2>2. PICK h : h = g
    OBVIOUS
  <2>3. /\ h.slot * c + h.cl_n[c] \in DOMAIN h.cl_base
        /\ Good(Added(h, c, e))
        /\ View(Added(h, c, e)) = [View(h) EXCEPT ![c] = Append(@, e)]
    BY <2>1, <2>2, AddedGood
  <2> QED BY <2>2, <2>3, Zenon
<1>6. mem' = [mem EXCEPT ![x] = m] /\ ub' = ub
  BY <1>4, <1>5, Zenon
<1> HIDE DEF m
<1>7. IndInv' /\ CellsOf' = [CellsOf EXCEPT ![x] = View(m)]
  <2>1. moved' = moved \ {x}
    BY <1>1
  <2> QED BY <1>5, <1>6, <2>1, OneUpdated
<1>8. CellsOf[x] = View(mem[x]) /\ DOMAIN View(mem[x]) = Cells(mem[x])
  BY <1>1 DEF CellsOf, Contents, View
<1>9. CellsOf' = [CellsOf EXCEPT ![x][c] = Append(@, e)]
  BY <1>2, <1>5, <1>7, <1>8
<1> QED BY <1>1, <1>7, <1>8, <1>9 DEF Cell!Add, CellsOf

LEMMA InitToZeroStep ==
  ASSUME Slotted, IndInv, NEW x \in Lists, NEW s \in SlotCounts, NEW n \in CellCounts,
         InitToZero(x, s, n)
  PROVE  IndInv' /\ Cell!Reset(x, n)
<1> DEFINE m == [slot |-> s, n |-> n, cl_n |-> [c \in 0 .. n - 1 |-> 0],
                 cl_base |-> Resized(mem[x].cl_base, n * s)]
<1>1. s \in Nat \ {0} /\ n \in Nat
  BY MemAssumption DEF Slotted
<1>2. \A i \in DOMAIN mem[x].cl_base : mem[x].cl_base[i] \in Elements \cup {Uninit}
  BY DEF IndInv, Shape
<1>3. Good(m) /\ View(m) = [c \in 0 .. n - 1 |-> <<>>]
  <2>1. PICK k : k = m
    OBVIOUS
  <2>2. Good(k) /\ View(k) = [c \in 0 .. n - 1 |-> <<>>]
    BY <1>1, <1>2, <2>1, ZeroGood
  <2> QED BY <2>1, <2>2
<1>4. mem' = [mem EXCEPT ![x] = m] /\ moved' = moved \ {x} /\ ub' = ub
  BY DEF InitToZero
<1> HIDE DEF m
<1>5. IndInv' /\ CellsOf' = [CellsOf EXCEPT ![x] = View(m)]
  BY <1>3, <1>4, OneUpdated
<1> QED BY <1>3, <1>4, <1>5 DEF Cell!Reset, Cell!Empty, CellsOf

\* A memory whose cells only lose elements stays good.
LEMMA ShorterGood ==
  ASSUME NEW k, Good(k), NEW cl \in [Cells(k) -> Nat],
         \A c \in Cells(k) : cl[c] <= k.cl_n[c],
         NEW m, m = [k EXCEPT !.cl_n = cl]
  PROVE  Good(m) /\ m.n = k.n /\ m.cl_n = cl
<1>1. /\ k = [slot |-> k.slot, n |-> k.n, cl_n |-> k.cl_n, cl_base |-> k.cl_base]
      /\ k.slot \in Nat /\ k.n \in Nat /\ k.slot # 0
      /\ k.cl_n \in [0 .. k.n - 1 -> Nat] /\ \A c \in 0 .. k.n - 1 : k.cl_n[c] < k.slot
      /\ k.cl_base \in [0 .. k.slot * k.n - 1 -> Elements \cup {Uninit}]
  BY Zenon DEF Good, Shape, Cells
<1>2. m = [slot |-> k.slot, n |-> k.n, cl_n |-> cl, cl_base |-> k.cl_base]
  BY <1>1
<1>3. m.slot = k.slot /\ m.n = k.n /\ m.cl_n = cl /\ m.cl_base = k.cl_base
  BY <1>2
<1>4. Cells(m) = 0 .. k.n - 1 /\ Cells(k) = 0 .. k.n - 1
  BY <1>3, Zenon DEF Cells
<1>5. ASSUME NEW c \in Cells(m) PROVE m.cl_n[c] < m.slot
  <2>1. cl[c] \in Nat /\ k.cl_n[c] \in Nat /\ cl[c] <= k.cl_n[c] /\ k.cl_n[c] < k.slot
    BY <1>1, <1>4, Zenon
  <2> QED BY <1>1, <1>3, <2>1, SMT
<1>6. Shape(m)
  BY <1>1, <1>2, <1>3, <1>4, Zenon DEF Shape
<1> QED BY <1>1, <1>3, <1>5, <1>6, Zenon DEF Good

\* Removing the last element of a sequence leaves what is before it.
LEMMA WithoutLast ==
  ASSUME NEW S, NEW s \in Seq(S), NEW n \in Nat \ {0}, n = Len(s)
  PROVE  SubSeq(s, 1, n - 1) \o SubSeq(s, n + 1, n) = [k \in 1 .. n - 1 |-> s[k]]
<1> DEFINE t == SubSeq(s, 1, n - 1)
<1>1. SubSeq(s, n + 1, n) = <<>>
  BY SubSeqEmpty
<1>2. \A k \in 1 .. n : s[k] \in S
  BY LenProperties, ElementOfSeq
<1>3. t \in Seq(S) /\ Len(t) = n - 1 /\ \A k \in 1 .. n - 1 : t[k] = s[k]
  <2>1. \A k \in 1 .. n - 1 : s[k] \in S
    BY <1>2
  <2>2. /\ t \in Seq(S)
        /\ Len(t) = IF 1 <= n - 1 THEN n - 1 - 1 + 1 ELSE 0
        /\ \A k \in 1 .. n - 1 - 1 + 1 : t[k] = s[1 + k - 1]
    BY <2>1, SubSeqProperties
  <2> HIDE DEF t
  <2>3. Len(t) = n - 1
    BY <2>2
  <2>4. ASSUME NEW k \in 1 .. n - 1 PROVE t[k] = s[k]
    <3>1. k \in 1 .. n - 1 - 1 + 1 /\ 1 + k - 1 = k
      OBVIOUS
    <3> QED BY <2>2, <3>1
  <2> QED BY <2>2, <2>3, <2>4
<1> HIDE DEF t
<1>4. t \o <<>> = t
  BY <1>3, ConcatEmptySeq
<1>5. t = [k \in 1 .. n - 1 |-> s[k]]
  <2>1. DOMAIN t = 1 .. n - 1 /\ t = [k \in DOMAIN t |-> t[k]]
    BY <1>3, LenProperties, IsASeq
  <2> QED BY <1>3, <2>1
<1> QED BY <1>1, <1>4, <1>5 DEF t

LEMMA RemoveStep ==
  ASSUME IndInv, NEW x \in Lists, NEW c \in Cells(mem[x]),
         NEW ele \in 0 .. mem[x].cl_n[c] - 1, Remove(x, c, ele)
  PROVE  IndInv' /\ Cell!Remove(x, c, mem[x].cl_n[c])
<1> DEFINE cl == [mem[x].cl_n EXCEPT ![c] = @ - 1]
           m == [mem[x] EXCEPT !.cl_n = cl]
<1>1. x \notin moved /\ Good(mem[x]) /\ moved' = moved /\ ub' = ub /\ DOMAIN mem = Lists
  BY DEF Remove, Usable, IndInv
<1>2. mem[x].cl_n \in [Cells(mem[x]) -> Nat]
  BY <1>1, Zenon DEF Good, Shape
<1>3. mem[x].cl_n[c] \in Nat \ {0}
  BY <1>2, SMT
<1>4. cl \in [Cells(mem[x]) -> Nat] /\ \A d \in Cells(mem[x]) : cl[d] <= mem[x].cl_n[d]
  BY <1>2, <1>3, SMT
<1>5. mem' = [mem EXCEPT ![x] = m]
  BY <1>1 DEF Remove
<1>6. Good(m) /\ m.n = mem[x].n /\ m.cl_n = cl /\ m.slot = mem[x].slot
      /\ m.cl_base = mem[x].cl_base
  <2> HIDE DEF cl
  <2>1. PICK k : k = m
    OBVIOUS
  <2>2. Good(k) /\ k.n = mem[x].n /\ k.cl_n = cl
    BY <1>1, <1>4, <2>1, ShorterGood
  <2>3. m.slot = mem[x].slot /\ m.cl_base = mem[x].cl_base
    BY <1>1, Zenon DEF Good, Shape
  <2> QED BY <2>1, <2>2, <2>3
<1> HIDE DEF m
<1>7. IndInv' /\ CellsOf' = [CellsOf EXCEPT ![x] = View(m)]
  <2>1. moved' = moved \ {x}
    BY <1>1
  <2> QED BY <1>1, <2>1, <1>5, <1>6, OneUpdated
<1>8. CellsOf[x] = View(mem[x]) /\ DOMAIN View(mem[x]) = Cells(mem[x])
  BY <1>1 DEF CellsOf, Contents, View
<1> DEFINE s == View(mem[x])[c]
           n == mem[x].cl_n[c]
           S == Elements \cup {Uninit}
<1>9. /\ s = [k \in 1 .. n |-> mem[x].cl_base[mem[x].slot * c + (k - 1)]]
      /\ s \in Seq(S) /\ Len(s) = n
  <2>1. s = [k \in 1 .. n |-> mem[x].cl_base[mem[x].slot * c + (k - 1)]]
    BY Zenon DEF View
  <2>2. ASSUME NEW k \in 1 .. n
        PROVE  mem[x].cl_base[mem[x].slot * c + (k - 1)] \in S
    <3>1. /\ mem[x].slot \in Nat /\ mem[x].n \in Nat /\ c \in 0 .. mem[x].n - 1
          /\ n \in Nat /\ n < mem[x].slot
          /\ mem[x].cl_base \in [0 .. mem[x].slot * mem[x].n - 1 -> S]
      BY <1>1, <1>3, Zenon DEF Good, Shape, Cells
    <3> HIDE DEF n, S
    <3>2. k - 1 \in 0 .. mem[x].slot - 1
      BY <3>1, SMT
    <3>3. mem[x].slot * c + (k - 1) \in 0 .. mem[x].slot * mem[x].n - 1
      BY <3>1, <3>2, PlaceInBlock
    <3> QED BY <3>1, <3>3, Zenon
  <2>3. n \in Nat
    BY <1>3
  <2> HIDE DEF s, n, S
  <2>4. s \in Seq(S) /\ Len(s) = n
    BY <2>1, <2>2, <2>3, IsASeq
  <2> QED BY <2>1, <2>4
<1>10. View(m) = [View(mem[x]) EXCEPT ![c] = SubSeq(@, 1, n - 1) \o SubSeq(@, n + 1, Len(@))]
  <2>1. SubSeq(s, 1, n - 1) \o SubSeq(s, n + 1, n) = [k \in 1 .. n - 1 |-> s[k]]
    <3>1. n \in Nat \ {0}
      BY <1>3
    <3> HIDE DEF s, n, S
    <3> QED BY <1>9, <3>1, WithoutLast
  <2>2. [k \in 1 .. n - 1 |-> s[k]]
          = [k \in 1 .. n - 1 |-> mem[x].cl_base[mem[x].slot * c + (k - 1)]]
    <3>1. n \in Nat
      BY <1>3
    <3> HIDE DEF s, n
    <3> QED BY <1>9, <3>1
  <2>3. View(m) = [d \in Cells(mem[x]) |->
                     [k \in 1 .. cl[d] |-> mem[x].cl_base[mem[x].slot * d + (k - 1)]]]
    <3>1. Cells(m) = Cells(mem[x])
      BY <1>6, Zenon DEF Cells
    <3> HIDE DEF cl
    <3> QED BY <1>6, <3>1 DEF View
  <2>4. View(mem[x]) = [d \in Cells(mem[x]) |->
           [k \in 1 .. mem[x].cl_n[d] |-> mem[x].cl_base[mem[x].slot * d + (k - 1)]]]
    BY Zenon DEF View
  <2>5. ASSUME NEW d \in Cells(mem[x]) PROVE cl[d] = IF d = c THEN n - 1 ELSE mem[x].cl_n[d]
    BY <1>2
  <2> HIDE DEF cl
  <2>6. ASSUME NEW d \in Cells(mem[x])
        PROVE  View(m)[d] = IF d = c THEN SubSeq(s, 1, n - 1) \o SubSeq(s, n + 1, Len(s))
                            ELSE View(mem[x])[d]
    <3>1. View(m)[d] = [k \in 1 .. cl[d] |-> mem[x].cl_base[mem[x].slot * d + (k - 1)]]
      BY <2>3, Zenon
    <3>2. CASE d = c
      <4>1. View(m)[d] = [k \in 1 .. n - 1 |-> mem[x].cl_base[mem[x].slot * c + (k - 1)]]
        BY <2>5, <3>1, <3>2
      <4> HIDE DEF s, n
      <4> QED BY <1>9, <2>1, <2>2, <3>2, <4>1, Zenon
    <3>3. CASE d # c
      BY <2>4, <2>5, <3>1, <3>3
    <3> QED BY <3>2, <3>3
  <2>7. DOMAIN View(m) = Cells(mem[x]) /\ View(m) = [d \in Cells(mem[x]) |-> View(m)[d]]
    BY <2>3
  <2> QED BY <1>8, <2>6, <2>7
<1>11. CellsOf' = [CellsOf EXCEPT ![x][c] = SubSeq(@, 1, n - 1) \o SubSeq(@, n + 1, Len(@))]
  BY <1>7, <1>8, <1>10
<1>12. n \in 1 .. Len(CellsOf[x][c])
  <2>1. Len(CellsOf[x][c]) = n
    BY <1>8, <1>9
  <2> QED BY <1>3, <2>1
<1> QED BY <1>1, <1>7, <1>8, <1>11, <1>12 DEF Cell!Remove, CellsOf

LEMMA ClearStep ==
  ASSUME IndInv, NEW x \in Lists, Clear(x)
  PROVE  IndInv' /\ Cell!Clear(x)
<1> DEFINE cl == [c \in Cells(mem[x]) |-> 0]
           m == [mem[x] EXCEPT !.cl_n = cl]
<1>1. x \notin moved /\ Good(mem[x]) /\ moved' = moved /\ ub' = ub /\ DOMAIN mem = Lists
  BY DEF Clear, Usable, IndInv
<1>2. mem[x].cl_n \in [Cells(mem[x]) -> Nat]
  BY <1>1, Zenon DEF Good, Shape
<1>3. cl \in [Cells(mem[x]) -> Nat] /\ \A d \in Cells(mem[x]) : cl[d] <= mem[x].cl_n[d]
  BY <1>2, SMT
<1>4. mem' = [mem EXCEPT ![x] = m]
  BY <1>1 DEF Clear
<1>5. Good(m) /\ m.n = mem[x].n /\ m.cl_n = cl
  <2> HIDE DEF cl
  <2>1. PICK k : k = m
    OBVIOUS
  <2>2. Good(k) /\ k.n = mem[x].n /\ k.cl_n = cl
    BY <1>1, <1>3, <2>1, ShorterGood
  <2> QED BY <2>1, <2>2
<1> HIDE DEF m
<1>6. View(m) = [c \in Cells(mem[x]) |-> <<>>]
  <2>1. Cells(m) = Cells(mem[x])
    BY <1>5 DEF Cells
  <2>2. View(m) = [c \in Cells(mem[x]) |->
                    [k \in 1 .. cl[c] |-> m.cl_base[m.slot * c + (k - 1)]]]
    BY <1>5, <2>1, Zenon DEF View
  <2>3. ASSUME NEW c \in Cells(mem[x])
        PROVE  [k \in 1 .. cl[c] |-> m.cl_base[m.slot * c + (k - 1)]] = <<>>
    BY SMT
  <2> QED BY <2>2, <2>3, Zenon
<1>7. IndInv' /\ CellsOf' = [CellsOf EXCEPT ![x] = View(m)]
  <2>1. moved' = moved \ {x}
    BY <1>1
  <2> QED BY <1>1, <2>1, <1>4, <1>5, OneUpdated
<1>8. DOMAIN CellsOf[x] = Cells(mem[x])
  BY <1>1 DEF CellsOf, Contents, View
<1>9. CellsOf' = [CellsOf EXCEPT ![x] = [c \in DOMAIN @ |-> <<>>]]
  BY <1>6, <1>7, <1>8
<1> QED BY <1>1, <1>7, <1>9 DEF Cell!Clear, CellsOf

LEMMA DestroyStep ==
  ASSUME IndInv, NEW x \in Lists, Destroy(x)
  PROVE  IndInv' /\ Cell!Destroy(x)
<1> DEFINE m == NoBlock(mem[x].slot)
<1>1. x \notin moved /\ Good(mem[x]) /\ moved' = moved /\ ub' = ub /\ DOMAIN mem = Lists
  BY DEF Destroy, Usable, IndInv
<1>2. mem[x].slot \in Nat \ {0}
  BY <1>1, Zenon DEF Good, Shape
<1>3. Good(m) /\ View(m) = NoCells
  BY <1>2, NoBlockGood DEF NoCells
<1>4. mem' = [mem EXCEPT ![x] = m]
  BY DEF Destroy
<1> HIDE DEF m
<1>5. IndInv' /\ CellsOf' = [CellsOf EXCEPT ![x] = NoCells]
  <2>1. moved' = moved \ {x}
    BY <1>1
  <2> QED BY <1>1, <2>1, <1>3, <1>4, OneUpdated
<1>6. NoCells = Cell!Empty(0)
  BY DEF NoCells, Cell!Empty
<1> QED BY <1>1, <1>5, <1>6 DEF Cell!Destroy, CellsOf

LEMMA CopyStep ==
  ASSUME IndInv, NEW x \in Lists, NEW y \in Lists, Copy(x, y)
  PROVE  IndInv' /\ Cell!Copy(x, y)
<1>1. /\ y \notin moved /\ Good(mem[y]) /\ moved' = moved \ {x} /\ ub' = ub
      /\ mem' = [mem EXCEPT ![x] = mem[y]]
  BY DEF Copy, Usable, IndInv
<1>2. IndInv' /\ CellsOf' = [CellsOf EXCEPT ![x] = View(mem[y])]
  BY <1>1, OneUpdated
<1>3. CellsOf[y] = View(mem[y])
  BY <1>1 DEF CellsOf, Contents
<1> QED BY <1>1, <1>2, <1>3 DEF Cell!Copy, CellsOf

LEMMA SwapStep ==
  ASSUME IndInv, NEW x \in Lists, NEW y \in Lists, Swap(x, y)
  PROVE  IndInv' /\ Cell!Swap(x, y)
<1>1. /\ x \notin moved /\ y \notin moved /\ moved' = moved /\ ub' = ub
      /\ mem' = [mem EXCEPT ![x] = mem[y], ![y] = mem[x]]
      /\ DOMAIN mem = Lists /\ moved \subseteq Lists /\ ub = FALSE
      /\ \A z \in Lists : Shape(mem[z]) /\ (z \notin moved => Good(mem[z]))
  BY DEF Swap, Usable, IndInv
<1>2. DOMAIN mem' = Lists /\ \A z \in Lists :
        mem'[z] = IF z = y THEN mem[x] ELSE IF z = x THEN mem[y] ELSE mem[z]
  BY <1>1
<1>3. IndInv'
  <2>1. \A z \in Lists : Shape(mem'[z]) /\ (z \notin moved' => Good(mem'[z]))
    BY <1>1, <1>2
  <2> QED BY <1>1, <1>2, <2>1, IndInvAfter
<1>4. CellsOf = [z \in Lists |-> IF z \in moved THEN NoCells ELSE View(mem[z])]
  BY DEF CellsOf, Contents, NoCells
<1>5. CellsOf' = [CellsOf EXCEPT ![x] = CellsOf[y], ![y] = CellsOf[x]]
  BY <1>1, <1>2, <1>4, ContentsAfter
<1> QED BY <1>1, <1>3, <1>5 DEF Cell!Swap, CellsOf

LEMMA SwapMovedStep ==
  ASSUME IndInv, NEW x \in Lists, NEW y \in Lists, SwapMoved(x, y)
  PROVE  IndInv' /\ Cell!Move(x, y)
<1> DEFINE k == [mem[x] EXCEPT !.slot = mem[y].slot]
<1>1. /\ x # y /\ y \notin moved /\ moved' = (moved \ {x}) \cup {y} /\ ub' = ub
      /\ mem' = [mem EXCEPT ![x] = mem[y], ![y] = k]
      /\ DOMAIN mem = Lists /\ moved \subseteq Lists /\ ub = FALSE
      /\ \A z \in Lists : Shape(mem[z]) /\ (z \notin moved => Good(mem[z]))
  BY DEF SwapMoved, IndInv
<1>2. DOMAIN mem' = Lists /\ \A z \in Lists :
        mem'[z] = IF z = y THEN k ELSE IF z = x THEN mem[y] ELSE mem[z]
  BY <1>1
<1>3. Shape(k)
  <2>1. Shape(mem[x]) /\ Shape(mem[y])
    BY <1>1
  <2>2. k = [slot |-> mem[y].slot, n |-> mem[x].n, cl_n |-> mem[x].cl_n,
             cl_base |-> mem[x].cl_base]
    BY <2>1 DEF Shape
  <2> QED BY <2>1, <2>2 DEF Shape, Cells
<1> HIDE DEF k
<1>4. IndInv'
  <2>1. \A z \in Lists : Shape(mem'[z]) /\ (z \notin moved' => Good(mem'[z]))
    BY <1>1, <1>2, <1>3
  <2> QED BY <1>1, <1>2, <2>1, IndInvAfter
<1>5. CellsOf = [z \in Lists |-> IF z \in moved THEN NoCells ELSE View(mem[z])]
  BY DEF CellsOf, Contents, NoCells
<1>6. CellsOf' = [CellsOf EXCEPT ![x] = CellsOf[y], ![y] = NoCells]
  BY <1>1, <1>2, <1>5, ContentsAfter
<1>7. NoCells = Cell!Empty(0)
  BY DEF NoCells, Cell!Empty
<1> QED BY <1>1, <1>4, <1>6, <1>7 DEF Cell!Move, CellsOf

-----------------------------------------------------------------------------
(* The theorems.                                                           *)

LEMMA InitIndInv == Slotted /\ Init => IndInv /\ Cell!Init
<1> SUFFICES ASSUME Slotted, Init PROVE IndInv /\ Cell!Init
  OBVIOUS
<1>1. PICK s \in [Lists -> SlotCounts] : mem = [x \in Lists |-> NoBlock(s[x])]
  BY DEF Init
<1>2. moved = {} /\ ub = FALSE
  BY DEF Init
<1>3. ASSUME NEW x \in Lists
      PROVE  Good(mem[x]) /\ Shape(mem[x]) /\ View(mem[x]) = NoCells
  <2>1. s[x] \in Nat \ {0}
    BY MemAssumption DEF Slotted
  <2>2. Good(NoBlock(s[x])) /\ View(NoBlock(s[x])) = NoCells
    BY <2>1, NoBlockGood DEF NoCells
  <2>3. mem[x] = NoBlock(s[x])
    BY <1>1
  <2> QED BY <2>2, <2>3 DEF Good
<1>4. IndInv
  BY <1>1, <1>2, <1>3 DEF IndInv
<1>5. CellsOf = [x \in Lists |-> NoCells]
  BY <1>2, <1>3 DEF CellsOf, Contents
<1>6. NoCells = Cell!Empty(0)
  BY DEF NoCells, Cell!Empty
<1> QED BY <1>2, <1>4, <1>5, <1>6 DEF Cell!Init, CellsOf

\* A step that changes nothing, or an operation of some object.
LEMMA NextIndInv ==
  ASSUME Slotted, IndInv, [Next]_vars
  PROVE  IndInv' /\ [Cell!Next]_(Cell!vars)
<1>1. CASE UNCHANGED vars
  <2>1. IndInv'
    BY <1>1 DEF vars, IndInv, Shape, Good, Cells
  <2>2. UNCHANGED Cell!vars
    BY <1>1 DEF vars, Cell!vars, Contents, View, Cells
  <2> QED BY <2>1, <2>2
<1>2. CASE Next
  <2> PICK x \in Lists :
        \/ \E s \in SlotCounts, n \in CellCounts : InitToZero(x, s, n)
        \/ \E c \in Cells(mem[x]), e \in Elements : AddCell(x, c, e)
        \/ \E c \in Cells(mem[x]) : \E ele \in 0 .. mem[x].cl_n[c] - 1 : Remove(x, c, ele)
        \/ Clear(x)
        \/ Destroy(x)
        \/ \E y \in Lists : Copy(x, y) \/ Swap(x, y) \/ SwapMoved(x, y)
    BY <1>2 DEF Next
  <2>1. CASE \E s \in SlotCounts, n \in CellCounts : InitToZero(x, s, n)
    BY <2>1, InitToZeroStep DEF Cell!Next
  <2>2. CASE \E c \in Cells(mem[x]), e \in Elements : AddCell(x, c, e)
    <3>1. PICK c \in Cells(mem[x]), e \in Elements : AddCell(x, c, e)
      BY <2>2
    <3>2. IndInv' /\ Cell!Add(x, c, e)
      BY <3>1, AddStep
    <3> QED BY <3>2 DEF Cell!Next, Cell!Add
  <2>3. CASE \E c \in Cells(mem[x]) : \E ele \in 0 .. mem[x].cl_n[c] - 1 : Remove(x, c, ele)
    <3>0. PICK c \in Cells(mem[x]) : \E ele \in 0 .. mem[x].cl_n[c] - 1 : Remove(x, c, ele)
      BY <2>3
    <3>1. PICK ele \in 0 .. mem[x].cl_n[c] - 1 : Remove(x, c, ele)
      BY <3>0
    <3>2. IndInv' /\ Cell!Remove(x, c, mem[x].cl_n[c])
      BY <3>1, RemoveStep
    <3> QED BY <3>2 DEF Cell!Next, Cell!Remove
  <2>4. CASE Clear(x)
    BY <2>4, ClearStep DEF Cell!Next
  <2>5. CASE Destroy(x)
    BY <2>5, DestroyStep DEF Cell!Next
  <2>6. CASE \E y \in Lists : Copy(x, y) \/ Swap(x, y) \/ SwapMoved(x, y)
    BY <2>6, CopyStep, SwapStep, SwapMovedStep DEF Cell!Next
  <2> QED BY <2>1, <2>2, <2>3, <2>4, <2>5, <2>6
<1> QED BY <1>1, <1>2

LEMMA Invariance == ASSUME Slotted PROVE Spec => []IndInv
<1>1. Init => IndInv
  BY InitIndInv
<1>2. IndInv /\ [Next]_vars => IndInv'
  BY NextIndInv
<1> QED BY <1>1, <1>2, PTL DEF Spec

\* The invariant is stronger than what it is needed for.
LEMMA IndInvSuffices == IndInv => TypeOK /\ StopInBlock /\ NoOverrun
<1> SUFFICES ASSUME IndInv PROVE TypeOK /\ StopInBlock /\ NoOverrun
  OBVIOUS
<1>1. TypeOK
  BY Zenon DEF IndInv, Shape, Good, TypeOK
<1>2. StopInBlock
  <2> SUFFICES ASSUME NEW x \in Lists \ moved, NEW c \in Cells(mem[x])
               PROVE  /\ mem[x].cl_n[c] < mem[x].slot
                      /\ mem[x].slot * c + mem[x].cl_n[c] \in DOMAIN mem[x].cl_base
    BY DEF StopInBlock
  <2>1. Good(mem[x])
    BY DEF IndInv
  <2>2. /\ mem[x].slot \in Nat /\ mem[x].n \in Nat /\ c \in 0 .. mem[x].n - 1
        /\ mem[x].cl_n[c] \in Nat /\ mem[x].cl_n[c] < mem[x].slot
        /\ DOMAIN mem[x].cl_base = 0 .. mem[x].slot * mem[x].n - 1
    BY <2>1 DEF Good, Shape, Cells
  <2>3. mem[x].cl_n[c] \in 0 .. mem[x].slot - 1
    BY <2>2, SMT
  <2> QED BY <2>2, <2>3, PlaceInBlock
<1> QED BY <1>1, <1>2 DEF IndInv, NoOverrun

\* Every variable keeps its type: in particular the block of an object in use
\* always has slots times cells places.
THEOREM TypeCorrect == ASSUME Slotted PROVE Spec => []TypeOK
BY Invariance, IndInvSuffices, PTL

\* getStartId and getStopId point into the block, in the slots of the cell.
THEOREM StopCorrect == ASSUME Slotted PROVE Spec => []StopInBlock
BY Invariance, IndInvSuffices, PTL

\* With at least one slot addCell never writes past the end of the block.
THEOREM NothingOverrun == ASSUME Slotted PROVE Spec => []NoOverrun
BY Invariance, IndInvSuffices, PTL

\* The memory is a vector of vectors: growing, copying and swapping blocks is
\* invisible.  (remove takes out the last element, which is one the vector of
\* vectors may remove, if not the one it was given.)
THEOREM Refinement == ASSUME Slotted PROVE Spec => ImplementsCellMemory
<1>1. Init => Cell!Init
  BY InitIndInv
<1>2. IndInv /\ [Next]_vars => [Cell!Next]_(Cell!vars)
  BY NextIndInv
<1> QED BY <1>1, <1>2, Invariance, PTL DEF Spec, ImplementsCellMemory, Cell!Spec
=============================================================================
