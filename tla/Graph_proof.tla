---------------------------- MODULE Graph_proof ----------------------------
(***************************************************************************)
(* Proofs about Graph, for any graph objects, properties, slots and        *)
(* clients within the layout: every variable keeps its type, the entries   *)
(* in use name every edge exactly once, an edge iterator visits every edge *)
(* that was there when it began although the graph grows under it, and the *)
(* graphs are the multigraphs they claim to be.                            *)
(***************************************************************************)
EXTENDS Graph, SequenceTheorems, FiniteSetTheorems, TLAPS

GraphRec ==
  [v_slot : Nat \ {0}, v : Seq(Value), v_l : Seq(Nat), e : Seq(Value),
   e_l : Seq(Entry), e_invalid : Seq(Value)]

\* What holds of every graph: its type, and that its entries name its edges.
Good(g) == g \in GraphRec /\ GraphOK(g) /\ EdgesNamedOnce(g)

-----------------------------------------------------------------------------
(* The layout.                                                             *)

\* Slot j of vertex c is one of the entries of n vertices with s slots.
LEMMA SlotInside ==
  ASSUME NEW s \in Nat \ {0}, NEW n \in Nat, NEW c \in 0 .. n - 1, NEW j \in 0 .. s - 1
  PROVE  c * s + 1 + j \in 1 .. n * s
<1>1. PICK d \in Nat : n = c + 1 + d
  BY SMT
<1>2. n * s = c * s + s + d * s
  BY <1>1, SMT
<1>3. c * s \in Nat /\ d * s \in Nat
  BY SMT
<1>4. QED BY <1>2, <1>3, SMT

SlotEntry(s, c, j) == c * s + 1 + j

\* Two slots of one vertex, or of two, are two entries.
LEMMA SlotsDiffer ==
  ASSUME NEW s \in Nat \ {0}, NEW c \in Nat, NEW d \in Nat,
         NEW j \in 0 .. s - 1, NEW k \in 0 .. s - 1, SlotEntry(s, c, j) = SlotEntry(s, d, k)
  PROVE  c = d /\ j = k
<1> USE DEF SlotEntry
<1>1. c * s \in Nat /\ d * s \in Nat
  BY SMT
<1>2. ~(c < d)
  <2>1. SUFFICES ASSUME c < d PROVE FALSE
    OBVIOUS
  <2>2. PICK i \in Nat : d = c + 1 + i
    BY <2>1, SMT
  <2>3. d * s = c * s + s + i * s /\ i * s \in Nat
    BY <2>2, SMT
  <2>4. QED BY <2>3, <1>1, SMT
<1>3. ~(d < c)
  <2>1. SUFFICES ASSUME d < c PROVE FALSE
    OBVIOUS
  <2>2. PICK i \in Nat : c = d + 1 + i
    BY <2>1, SMT
  <2>3. c * s = d * s + s + i * s /\ i * s \in Nat
    BY <2>2, SMT
  <2>4. QED BY <2>3, <1>1, SMT
<1>4. QED BY <1>1, <1>2, <1>3, SMT

\* A position is a vertex and the number of one of its edges, less than v_slot.
LEMMA PositionIs ==
  ASSUME NEW g, g \in GraphRec, GraphOK(g), NEW p
  PROVE  p \in Positions(g) <=>
           \E c \in 0 .. Len(g.v) - 1, j \in 0 .. g.v_slot - 1 :
             p = <<c, j>> /\ j < g.v_l[c + 1]
<1>1. g.v_slot \in Nat \ {0} /\ g.v_l \in [1 .. Len(g.v) -> 0 .. g.v_slot] /\ Len(g.v) \in Nat
  BY DEF GraphRec, GraphOK
<1>2. ASSUME p \in Positions(g)
      PROVE  \E c \in 0 .. Len(g.v) - 1, j \in 0 .. g.v_slot - 1 :
               p = <<c, j>> /\ j < g.v_l[c + 1]
  <2>1. PICK c \in 0 .. Len(g.v) - 1, j \in 0 .. g.v_slot : p = <<c, j>> /\ j < g.v_l[c + 1]
    BY <1>2 DEF Positions, Vertices, getNChilds
  <2>2. g.v_l[c + 1] \in 0 .. g.v_slot
    BY <1>1
  <2>3. j \in 0 .. g.v_slot - 1
    BY <2>1, <2>2, <1>1
  <2>4. QED BY <2>1, <2>3
<1>3. ASSUME NEW c \in 0 .. Len(g.v) - 1, NEW j \in 0 .. g.v_slot - 1, p = <<c, j>>, j < g.v_l[c + 1]
      PROVE  p \in Positions(g)
  <2>1. p \in Vertices(g) \X (0 .. g.v_slot) /\ p[2] = j /\ p[1] = c
    BY <1>1, <1>3 DEF Vertices
  <2>2. QED BY <2>1, <1>3 DEF Positions, getNChilds
<1>4. QED BY <1>2, <1>3

\* The entry of a position is in e_l once that is allocated.
LEMMA PositionInside ==
  ASSUME NEW g, g \in GraphRec, GraphOK(g), Allocated(g),
         NEW c \in 0 .. Len(g.v) - 1, NEW j \in 0 .. g.v_slot - 1
  PROVE  /\ FirstEntry(g, c) + j \in 1 .. Len(g.e_l)
         /\ EntryAt(g, <<c, j>>) = g.e_l[FirstEntry(g, c) + j]
<1>1. g.v_slot \in Nat \ {0} /\ Len(g.v) \in Nat /\ Len(g.e_l) = Len(g.v) * g.v_slot
      /\ DOMAIN g.e_l = 1 .. Len(g.e_l)
  BY DEF GraphRec, GraphOK, Allocated
<1>2. c * g.v_slot + 1 + j \in 1 .. Len(g.e_l)
  BY <1>1, SlotInside
<1>3. FirstEntry(g, c) + j = c * g.v_slot + 1 + j
  BY DEF FirstEntry
<1>4. <<c, j>>[1] = c /\ <<c, j>>[2] = j
  OBVIOUS
<1>5. QED BY <1>1, <1>2, <1>3, <1>4 DEF EntryAt

\* A graph with an edge is allocated.
LEMMA PositionAllocates ==
  ASSUME NEW g, g \in GraphRec, GraphOK(g), Positions(g) # {}
  PROVE  Allocated(g)
<1>1. PICK c \in 0 .. Len(g.v) - 1, j \in 0 .. g.v_slot - 1 : j < g.v_l[c + 1]
  BY PositionIs
<1>2. g.v_slot \in Nat \ {0} /\ Len(g.v) \in Nat
  BY DEF GraphRec
<1>3. c \in Vertices(g) /\ getNChilds(g, c) # 0
  BY <1>1, <1>2 DEF Vertices, getNChilds
<1>4. QED BY <1>3 DEF GraphOK

\* Nothing has its edges in any way but one: k has the entry of p and no other.
Named(g, k, p) ==
  /\ p \in Positions(g) /\ EntryAt(g, p).eid = k
  /\ \A q \in Positions(g) : EntryAt(g, q).eid = k => q = p

\* A graph with the positions, the entries and the edges of another one has its
\* edges named as well.
LEMMA SamePositions ==
  ASSUME NEW g, NEW h, EdgesNamedOnce(g), g \in GraphRec, h \in GraphRec,
         Positions(h) = Positions(g), \A p \in Positions(g) : EntryAt(h, p) = EntryAt(g, p),
         Len(h.e) = Len(g.e), Len(h.v) >= Len(g.v)
  PROVE  EdgesNamedOnce(h)
<1>1. Len(g.v) \in Nat /\ Len(h.v) \in Nat
  BY DEF GraphRec
<1>2. Vertices(g) \subseteq Vertices(h)
  BY <1>1 DEF Vertices
<1>3. \A p \in Positions(h) : EntryAt(h, p) \in [vid : Vertices(h), eid : 0 .. Len(h.e) - 1]
  BY <1>2 DEF EdgesNamedOnce
<1>4. \A k \in 0 .. Len(h.e) - 1 : \E p \in Positions(h) : Named(h, k, p)
  BY DEF EdgesNamedOnce, Named
<1>5. QED BY <1>3, <1>4 DEF EdgesNamedOnce, Named

-----------------------------------------------------------------------------
(* The operations on one graph.                                            *)

LEMMA NoEntryIs == NoEntry \in Entry
BY DEF NoEntry, Entry

LEMMA ResizedIs ==
  ASSUME NEW s \in Seq(Entry), NEW n \in Nat
  PROVE  /\ Resized(s, n, NoEntry) \in Seq(Entry) /\ Len(Resized(s, n, NoEntry)) = n
         /\ \A i \in 1 .. n : Resized(s, n, NoEntry)[i] = IF i <= Len(s) THEN s[i] ELSE NoEntry
<1>1. Resized(s, n, NoEntry) \in [1 .. n -> Entry]
  BY NoEntryIs DEF Resized
<1>2. Resized(s, n, NoEntry) \in Seq(Entry)
  BY <1>1, IsASeq DEF Resized
<1>3. QED BY <1>2 DEF Resized

\* A new graph has no edge.
LEMMA NewGood ==
  ASSUME NEW n \in Nat, NEW s \in Nat \ {0}
  PROVE  Good(Graph_CSR(n, s))
<1> DEFINE g == Graph_CSR(n, s)
<1>1. /\ g.v_slot = s /\ g.v = [i \in 1 .. n |-> Unset] /\ g.v_l = [i \in 1 .. n |-> 0]
      /\ g.e = << >> /\ g.e_l = << >> /\ g.e_invalid = <<Unset>>
  BY DEF Graph_CSR
<1>2. Unset \in Value
  BY DEF Value
<1>3. g.v \in Seq(Value) /\ Len(g.v) = n /\ g.v_l \in Seq(Nat) /\ g.e_invalid \in Seq(Value)
      /\ Len(g.e_invalid) = 1 /\ g.e \in Seq(Value) /\ g.e_l \in Seq(Entry) /\ Len(g.e) = 0
  <2>1. g.v \in Seq(Value) /\ g.v_l \in Seq(Nat)
    BY <1>1, <1>2, IsASeq
  <2>2. QED BY <2>1, <1>1, <1>2
<1>4. g \in GraphRec
  BY <1>1, <1>3 DEF GraphRec, Graph_CSR
<1>5. GraphOK(g)
  <2>1. g.v_l \in [1 .. Len(g.v) -> 0 .. g.v_slot]
    BY <1>1, <1>3
  <2>2. \A c \in Vertices(g) : getNChilds(g, c) = 0
    BY <1>1, <1>3 DEF Vertices, getNChilds
  <2>3. QED BY <2>1, <2>2, <1>1, <1>3 DEF GraphOK
<1> HIDE DEF g
<1>6. Positions(g) = {}
  BY <1>5, <1>1, <1>3, <1>4, PositionIs
<1>7. EdgesNamedOnce(g)
  BY <1>6, <1>3 DEF EdgesNamedOnce
<1>8. QED BY <1>4, <1>5, <1>7 DEF Good, g

\* clear keeps the slots and nothing else.
LEMMA ClearGood ==
  ASSUME NEW g, Good(g)
  PROVE  Good(clear(g))
<1> DEFINE h == clear(g)
<1>1. /\ h.v_slot = g.v_slot /\ h.v = << >> /\ h.v_l = << >>
      /\ h.e = << >> /\ h.e_l = << >> /\ h.e_invalid = << >> /\ h \in GraphRec
  <2>1. g \in GraphRec
    BY DEF Good
  <2>2. << >> \in Seq(Value) /\ << >> \in Seq(Nat) /\ << >> \in Seq(Entry)
    OBVIOUS
  <2>3. QED BY <2>1, <2>2 DEF clear, GraphRec
<1>2. h.v_slot \in Nat \ {0}
  BY <1>1 DEF GraphRec
<1> HIDE DEF h
<1>3. GraphOK(h)
  BY <1>1, <1>2 DEF GraphOK, Vertices, getNChilds
<1>4. Positions(h) = {}
  BY <1>1, <1>3, PositionIs
<1>5. EdgesNamedOnce(h)
  BY <1>1, <1>4 DEF EdgesNamedOnce
<1>6. QED BY <1>1, <1>3, <1>5 DEF Good, h

\* addVertex leaves every edge where it is, and gives the new vertex none.
LEMMA AddVertexGood ==
  ASSUME NEW g, Good(g), Allocated(g), NEW p \in Value
  PROVE  /\ Good(addVertex(g, p)) /\ Positions(addVertex(g, p)) = Positions(g)
         /\ \A q \in Positions(g) : EntryAt(addVertex(g, p), q) = EntryAt(g, q)
         /\ addVertex(g, p).v = Append(g.v, p) /\ addVertex(g, p).e = g.e
         /\ addVertex(g, p).v_slot = g.v_slot
         /\ \A c \in 0 .. Len(g.v) - 1 : getNChilds(addVertex(g, p), c) = getNChilds(g, c)
<1> DEFINE h == addVertex(g, p)
           n == Len(g.v)
           s == g.v_slot
<1>1. /\ g \in GraphRec /\ GraphOK(g) /\ EdgesNamedOnce(g)
      /\ n \in Nat /\ s \in Nat \ {0}
      /\ g.v_l \in [1 .. n -> 0 .. s] /\ g.v_l \in Seq(Nat) /\ g.v \in Seq(Value)
      /\ g.e_l \in Seq(Entry) /\ Len(g.e_l) = n * s
      /\ g.e \in Seq(Value) /\ g.e_invalid \in Seq(Value) /\ Len(g.e_invalid) <= 1
  BY DEF Good, GraphRec, GraphOK, Allocated
<1>2. /\ n * s \in Nat /\ n * s + s = (n + 1) * s
  BY <1>1
<1>4. /\ h.v_slot = s /\ h.v = Append(g.v, p) /\ h.v_l = Append(g.v_l, 0) /\ h.e = g.e
      /\ h.e_l = Resized(g.e_l, n * s + s, NoEntry) /\ h.e_invalid = g.e_invalid
      /\ h = [g EXCEPT !.v = h.v, !.v_l = h.v_l, !.e_l = h.e_l]
  BY <1>1 DEF addVertex, GraphRec
<1> HIDE DEF h
<1>5. /\ h.e_l \in Seq(Entry) /\ Len(h.e_l) = (n + 1) * s
      /\ \A i \in 1 .. n * s : h.e_l[i] = g.e_l[i]
  <2>1. PICK m \in Nat : m = n * s + s
    BY <1>1, <1>2
  <2>2. h.e_l = Resized(g.e_l, m, NoEntry)
    BY <2>1, <1>4
  <2>3. /\ h.e_l \in Seq(Entry) /\ Len(h.e_l) = m
        /\ \A i \in 1 .. m : h.e_l[i] = IF i <= Len(g.e_l) THEN g.e_l[i] ELSE NoEntry
    <3>1. g.e_l \in Seq(Entry)
      BY <1>1
    <3>2. /\ Resized(g.e_l, m, NoEntry) \in Seq(Entry)
          /\ Len(Resized(g.e_l, m, NoEntry)) = m
          /\ \A i \in 1 .. m : Resized(g.e_l, m, NoEntry)[i] =
               IF i <= Len(g.e_l) THEN g.e_l[i] ELSE NoEntry
      BY <3>1, NoEntryIs, ResizedIs
    <3>3. QED BY <3>2, <2>2
  <2>4. \A i \in 1 .. n * s : i \in 1 .. m /\ i <= Len(g.e_l)
    BY <2>1, <1>1, <1>2
  <2>5. QED BY <2>1, <2>3, <2>4, <1>2
<1>6. /\ h.v \in Seq(Value) /\ Len(h.v) = n + 1
      /\ h.v_l \in Seq(Nat) /\ Len(h.v_l) = n + 1 /\ h.v_l[n + 1] = 0
      /\ \A i \in 1 .. n : h.v_l[i] = g.v_l[i]
  <2>1. Len(g.v_l) = n /\ g.v_l \in Seq(Nat) /\ 0 \in Nat
    BY <1>1
  <2>2. /\ h.v_l \in Seq(Nat) /\ Len(h.v_l) = n + 1 /\ h.v_l[n + 1] = 0
        /\ \A i \in 1 .. n : h.v_l[i] = g.v_l[i]
    BY <2>1, <1>4, AppendProperties
  <2>3. h.v \in Seq(Value) /\ Len(h.v) = n + 1
    BY <1>1, <1>4, AppendProperties
  <2>4. QED BY <2>2, <2>3
<1>7. h \in GraphRec
  BY <1>1, <1>4, <1>5, <1>6 DEF GraphRec
<1>8. GraphOK(h)
  <2>1. h.v_l \in [1 .. Len(h.v) -> 0 .. h.v_slot]
    <3>1. DOMAIN h.v_l = 1 .. Len(h.v) /\ h.v_l = [i \in 1 .. Len(h.v_l) |-> h.v_l[i]]
      BY <1>6
    <3>2. \A i \in 1 .. Len(h.v) : h.v_l[i] \in 0 .. h.v_slot
      <4>1. TAKE i \in 1 .. Len(h.v)
      <4>2. CASE i = n + 1
        BY <4>2, <1>1, <1>4, <1>6
      <4>3. CASE i \in 1 .. n
        <5>1. g.v_l[i] \in 0 .. s
          BY <4>3, <1>1
        <5>2. QED BY <5>1, <4>3, <1>4, <1>6
      <4>4. QED BY <4>2, <4>3, <1>1, <1>6
    <3>3. QED BY <3>1, <3>2, <1>6
  <2>2. Allocated(h)
    BY <1>4, <1>5, <1>6 DEF Allocated
  <2>3. QED BY <2>1, <2>2, <1>1, <1>4, <1>5, <1>6 DEF GraphOK
<1>9. \A q : q \in Positions(h) <=> q \in Positions(g)
  <2>1. TAKE q
  <2>2. q \in Positions(h) <=> \E c \in 0 .. n, j \in 0 .. s - 1 : q = <<c, j>> /\ j < h.v_l[c + 1]
    <3>1. Len(h.v) - 1 = n /\ h.v_slot = s
      BY <1>4, <1>6, <1>1
    <3>2. QED BY <3>1, <1>7, <1>8, PositionIs
  <2>3. q \in Positions(g) <=> \E c \in 0 .. n - 1, j \in 0 .. s - 1 : q = <<c, j>> /\ j < g.v_l[c + 1]
    BY <1>1, PositionIs
  <2>4. ASSUME NEW c \in 0 .. n, NEW j \in 0 .. s - 1
        PROVE  j < h.v_l[c + 1] <=> c \in 0 .. n - 1 /\ j < g.v_l[c + 1]
    <3>1. CASE c = n
      <4>1. h.v_l[c + 1] = 0
        BY <3>1, <1>6
      <4>2. ~(j < 0) /\ c \notin 0 .. n - 1
        BY <3>1, <1>1
      <4>3. QED BY <4>1, <4>2
    <3>2. CASE c \in 0 .. n - 1
      <4>1. c + 1 \in 1 .. n
        BY <3>2, <1>1
      <4>2. QED BY <4>1, <3>2, <1>6
    <3>3. QED BY <3>1, <3>2, <1>1
  <2>5. \A c : c \in 0 .. n - 1 => c \in 0 .. n
    BY <1>1
  <2>6. QED BY <2>2, <2>3, <2>4, <2>5
<1>10. Positions(h) = Positions(g)
  BY <1>9
<1>11. \A q \in Positions(g) : EntryAt(h, q) = EntryAt(g, q)
  <2>1. TAKE q \in Positions(g)
  <2>2. PICK c \in 0 .. n - 1, j \in 0 .. s - 1 : q = <<c, j>>
    BY <1>1, PositionIs
  <2>3. c \in 0 .. Len(h.v) - 1 /\ j \in 0 .. h.v_slot - 1 /\ Allocated(h)
    BY <1>1, <1>4, <1>5, <1>6 DEF Allocated
  <2>4. /\ FirstEntry(g, c) + j \in 1 .. Len(g.e_l)
        /\ EntryAt(g, <<c, j>>) = g.e_l[FirstEntry(g, c) + j]
    BY <1>1, PositionInside
  <2>5. EntryAt(h, <<c, j>>) = h.e_l[FirstEntry(h, c) + j]
    BY <2>3, <1>7, <1>8, PositionInside
  <2>6. FirstEntry(h, c) = FirstEntry(g, c)
    BY <1>4 DEF FirstEntry
  <2>7. QED BY <2>2, <2>4, <2>5, <2>6, <1>1, <1>5
<1>12. EdgesNamedOnce(h)
  <2>1. Len(h.e) = Len(g.e) /\ Len(h.v) >= Len(g.v)
    BY <1>1, <1>4, <1>6
  <2>2. QED BY <2>1, <1>1, <1>7, <1>10, <1>11, SamePositions
<1>13. \A c \in 0 .. Len(g.v) - 1 : getNChilds(h, c) = getNChilds(g, c)
  <2>1. TAKE c \in 0 .. Len(g.v) - 1
  <2>2. c + 1 \in 1 .. n
    BY <1>1
  <2>3. QED BY <2>2, <1>6 DEF getNChilds
<1>14. QED BY <1>4, <1>7, <1>8, <1>10, <1>11, <1>12, <1>13 DEF Good, h


\* h is g with an edge more, in the free slot at end of vertex a.
EdgeAdded(g, a, b, p, end, h) ==
  /\ h = [g EXCEPT !.e_l = h.e_l, !.e = h.e, !.v_l = h.v_l]
  /\ h.v_slot = g.v_slot /\ h.v = g.v /\ h.e_invalid = g.e_invalid
  /\ h.e = Append(g.e, p)
  /\ h.v_l = [g.v_l EXCEPT ![a + 1] = end + 1]
  /\ h.e_l = [(IF Allocated(g) THEN g.e_l ELSE Resized(g.e_l, Len(g.v) * g.v_slot, NoEntry))
                EXCEPT ![FirstEntry(g, a) + end] = [vid |-> b, eid |-> Len(g.e)]]

LEMMA AddEdgeIs ==
  ASSUME NEW g, Good(g), NEW a \in Vertices(g), NEW b, FreeSlot(g, a), NEW p
  PROVE  EdgeAdded(g, a, b, p, getNChilds(g, a), addEdge(g, a, b, p))
<1> DEFINE el == IF Allocated(g) THEN g.e_l ELSE Resized(g.e_l, Len(g.v) * g.v_slot, NoEntry)
           new == [vid |-> b, eid |-> Len(g.e)]
           el2 == [el EXCEPT ![FirstEntry(g, a) + getNChilds(g, a)] = new]
           vl2 == [g.v_l EXCEPT ![a + 1] = getNChilds(g, a) + 1]
           e2 == Append(g.e, p)
           h == addEdge(g, a, b, p)
<1>1. /\ g \in GraphRec /\ GraphOK(g) /\ Len(g.v) \in Nat /\ g.v_slot \in Nat \ {0}
      /\ g.v_l \in [1 .. Len(g.v) -> 0 .. g.v_slot]
      /\ g.e_l \in Seq(Entry)
  BY DEF Good, GraphRec, GraphOK
<1>2. a + 1 \in 1 .. Len(g.v) /\ getNChilds(g, a) \in 0 .. g.v_slot - 1
  <2>1. a + 1 \in 1 .. Len(g.v)
    BY <1>1 DEF Vertices
  <2>2. QED BY <2>1, <1>1 DEF getNChilds, FreeSlot
<1>3. ~(getNChilds(g, a) >= g.v_slot)
  BY <1>1, <1>2
<1>4. getNChilds(g, a) >= Len(g.e_l) <=> ~Allocated(g)
  <2>1. CASE Allocated(g)
    <3>1. FirstEntry(g, a) + getNChilds(g, a) \in 1 .. Len(g.e_l)
      BY <2>1, <1>1, <1>2, PositionInside DEF Vertices
    <3>2. a * g.v_slot \in Nat
      BY <1>1 DEF Vertices
    <3>3. getNChilds(g, a) < Len(g.e_l)
      BY <3>1, <3>2, <1>2, <1>1 DEF FirstEntry
    <3>4. QED BY <2>1, <3>3, <1>2, <1>1
  <2>2. CASE ~Allocated(g)
    <3>1. Len(g.e_l) = 0
      BY <2>2, <1>1 DEF GraphOK
    <3>2. QED BY <3>1, <2>2, <1>2
  <2>3. QED BY <2>1, <2>2
<1>5. (IF getNChilds(g, a) >= Len(g.e_l) THEN Resized(g.e_l, Len(g.v) * g.v_slot, NoEntry)
       ELSE g.e_l) = el
  BY <1>4
<1> HIDE DEF el
<1>6. h = [g EXCEPT !.e_l = el2, !.e = Append(@, p), !.v_l[a + 1] = @ + 1]
  BY <1>3, <1>5 DEF addEdge, NextEid
<1>7. g.v_l[a + 1] = getNChilds(g, a)
  BY DEF getNChilds
<1> HIDE DEF el2, h
<1>11. h = [g EXCEPT !.e_l = el2, !.e = e2, !.v_l = vl2]
  BY <1>1, <1>6, <1>7 DEF GraphRec
<1> HIDE DEF e2, vl2
<1>9. /\ h.v_slot = g.v_slot /\ h.v = g.v /\ h.e_invalid = g.e_invalid
      /\ h.e = e2 /\ h.v_l = vl2 /\ h.e_l = el2
  BY <1>1, <1>11 DEF GraphRec
<1>10. QED BY <1>11, <1>9 DEF EdgeAdded, el, el2, h, e2, vl2

\* h has every edge of g where g has it, and the edge from a to b after them.
EdgeNamed(g, a, b, p, h) ==
  /\ Good(h)
  /\ Positions(h) = Positions(g) \union {<<a, getNChilds(g, a)>>}
  /\ <<a, getNChilds(g, a)>> \notin Positions(g)
  /\ \A q \in Positions(g) : EntryAt(h, q) = EntryAt(g, q)
  /\ EntryAt(h, <<a, getNChilds(g, a)>>) = [vid |-> b, eid |-> Len(g.e)]
  /\ h.v = g.v /\ h.e = Append(g.e, p)

\* addEdge in a free slot keeps every edge where it is, and the new position
\* names the new edge.
LEMMA AddEdgeGood ==
  ASSUME NEW g, Good(g), NEW a \in Vertices(g), NEW b \in Vertices(g), FreeSlot(g, a),
         NEW p \in Value
  PROVE  EdgeNamed(g, a, b, p, addEdge(g, a, b, p))
<1> DEFINE h == addEdge(g, a, b, p)
           n == Len(g.v)
           s == g.v_slot
           end == getNChilds(g, a)
           at == <<a, end>>
           el == IF Allocated(g) THEN g.e_l ELSE Resized(g.e_l, n * s, NoEntry)
           new == [vid |-> b, eid |-> Len(g.e)]
<1>1. /\ g \in GraphRec /\ GraphOK(g) /\ EdgesNamedOnce(g)
      /\ n \in Nat /\ s \in Nat \ {0} /\ n * s \in Nat /\ n = Len(g.v) /\ s = g.v_slot
      /\ g.v_l \in [1 .. n -> 0 .. s] /\ g.v \in Seq(Value)
      /\ g.e_l \in Seq(Entry)
      /\ g.e \in Seq(Value) /\ g.e_invalid \in Seq(Value) /\ Len(g.e_invalid) <= 1
  BY DEF Good, GraphRec, GraphOK
<1>n. n \in Nat /\ s \in Nat \ {0} /\ n * s \in Nat /\ n = Len(g.v) /\ s = g.v_slot
  BY <1>1
<1>a. EdgeAdded(g, a, b, p, end, h)
  BY AddEdgeIs
<1> HIDE DEF h, n, s
<1>2. /\ a \in 0 .. n - 1 /\ b \in 0 .. n - 1 /\ a + 1 \in 1 .. n
      /\ end \in 0 .. s - 1 /\ end + 1 \in 0 .. s /\ end = g.v_l[a + 1]
  <2>1. a \in 0 .. n - 1 /\ b \in 0 .. n - 1 /\ a + 1 \in 1 .. n
    BY <1>1 DEF Vertices
  <2>2. g.v_l[a + 1] \in 0 .. s
    BY <2>1, <1>1
  <2>3. end = g.v_l[a + 1] /\ end < s
    BY <1>n DEF getNChilds, FreeSlot
  <2>4. end \in 0 .. s - 1 /\ end + 1 \in 0 .. s
    BY <2>2, <2>3, <1>n
  <2>5. QED BY <2>1, <2>3, <2>4
<1>e. end \in 0 .. s - 1 /\ end \in Nat /\ a \in Nat
  BY <1>2, <1>n
<1>3. el \in Seq(Entry) /\ Len(el) = n * s
  <2>1. CASE Allocated(g)
    BY <2>1, <1>1 DEF Allocated
  <2>2. CASE ~Allocated(g)
    <3>1. PICK m \in Nat : m = n * s
      BY <1>1
    <3>2. Resized(g.e_l, m, NoEntry) \in Seq(Entry) /\ Len(Resized(g.e_l, m, NoEntry)) = m
      BY <1>1, ResizedIs
    <3>3. QED BY <3>1, <3>2, <2>2
  <2>3. QED BY <2>1, <2>2
<1>4. FirstEntry(g, a) + end = a * s + 1 + end /\ a * s + 1 + end \in 1 .. n * s
  <2>1. a * s + 1 + end \in 1 .. n * s
    BY <1>1, <1>2, SlotInside
  <2>2. QED BY <2>1, <1>n DEF FirstEntry
<1>5. /\ h = [g EXCEPT !.e_l = h.e_l, !.e = h.e, !.v_l = h.v_l]
      /\ h.v_slot = s /\ h.v = g.v /\ h.e_invalid = g.e_invalid
      /\ h.e = Append(g.e, p)
      /\ h.v_l = [g.v_l EXCEPT ![a + 1] = end + 1]
      /\ h.e_l = [el EXCEPT ![FirstEntry(g, a) + end] = new]
  BY <1>1, <1>a DEF EdgeAdded
<1> HIDE DEF el, end
<1>6. new \in Entry /\ new.vid = b /\ new.eid = Len(g.e)
  <2>1. b \in Nat /\ Len(g.e) \in Nat
    BY <1>1, <1>2, <1>n, SMTT(20)
  <2>2. QED BY <2>1 DEF Entry
<1> HIDE DEF new
<1>7. /\ h.e_l \in Seq(Entry) /\ Len(h.e_l) = n * s
      /\ h.e_l[a * s + 1 + end] = new
      /\ \A i \in 1 .. n * s : i # a * s + 1 + end => h.e_l[i] = el[i]
  <2>1. PICK i : i = a * s + 1 + end
    OBVIOUS
  <2>2. i \in 1 .. Len(el) /\ h.e_l = [el EXCEPT ![i] = new]
    BY <2>1, <1>3, <1>4, <1>5
  <2>3. QED BY <2>1, <2>2, <1>3, <1>6
<1>8. /\ h.v_l \in [1 .. n -> 0 .. s] /\ h.v_l \in Seq(Nat)
      /\ h.v_l[a + 1] = end + 1
      /\ \A i \in 1 .. n : i # a + 1 => h.v_l[i] = g.v_l[i]
  <2>2. h.v_l \in [1 .. n -> 0 .. s] /\ h.v_l[a + 1] = end + 1
        /\ \A i \in 1 .. n : i # a + 1 => h.v_l[i] = g.v_l[i]
    <3>1. PICK i, m : i = a + 1 /\ m = end + 1
      OBVIOUS
    <3>2. h.v_l = [g.v_l EXCEPT ![i] = m] /\ g.v_l \in [1 .. n -> 0 .. s]
      BY <3>1, <1>1, <1>5
    <3>3. i \in 1 .. n /\ m \in 0 .. s
      BY <3>1, <1>2
    <3>4. QED BY <3>1, <3>2, <3>3
  <2>3. h.v_l \in [1 .. n -> Nat]
    BY <2>2, <1>1
  <2>4. h.v_l \in Seq(Nat)
    BY <2>3, <1>n
  <2>5. QED BY <2>2, <2>4
<1>9. h.e \in Seq(Value) /\ Len(h.e) = Len(g.e) + 1 /\ Len(g.e) \in Nat
  BY <1>1, <1>5
<1>10. h \in GraphRec
  BY <1>1, <1>5, <1>7, <1>8, <1>9 DEF GraphRec
<1>11. Allocated(h) /\ GraphOK(h)
  BY <1>1, <1>5, <1>7, <1>8, <1>9, <1>10 DEF GraphOK, Allocated
<1>12. \A q : q \in Positions(h) <=> q \in Positions(g) \/ q = at
  <2>1. TAKE q
  <2>2. q \in Positions(h) <=> \E c \in 0 .. n - 1, j \in 0 .. s - 1 : q = <<c, j>> /\ j < h.v_l[c + 1]
    <3>1. Len(h.v) = n /\ h.v_slot = s
      BY <1>5, <1>n
    <3>2. QED BY <3>1, <1>10, <1>11, PositionIs
  <2>3. q \in Positions(g) <=> \E c \in 0 .. n - 1, j \in 0 .. s - 1 : q = <<c, j>> /\ j < g.v_l[c + 1]
    BY <1>1, <1>n, PositionIs
  <2>4. ASSUME NEW c \in 0 .. n - 1, NEW j \in 0 .. s - 1
        PROVE  j < h.v_l[c + 1] <=> j < g.v_l[c + 1] \/ <<c, j>> = at
    <3>1. CASE c = a
      <4>1. j < end + 1 <=> j < end \/ j = end
        BY <1>n, <1>e
      <4>2. QED BY <3>1, <4>1, <1>2, <1>8
    <3>2. CASE c # a
      <4>1. c + 1 \in 1 .. n /\ c + 1 # a + 1
        BY <3>2, <1>1, <1>2
      <4>2. QED BY <4>1, <3>2, <1>8
    <3>3. QED BY <3>1, <3>2
  <2>5. QED BY <2>2, <2>3, <2>4, <1>2
<1>13. at \notin Positions(g)
  <2>1. SUFFICES ASSUME at \in Positions(g) PROVE FALSE
    OBVIOUS
  <2>2. PICK c \in 0 .. n - 1, j \in 0 .. s - 1 : at = <<c, j>> /\ j < g.v_l[c + 1]
    BY <2>1, <1>1, PositionIs
  <2>3. QED BY <2>2, <1>1, <1>2
<1>14. EntryAt(h, at) = new
  <2>1. EntryAt(h, at) = h.e_l[FirstEntry(h, a) + end]
    <3>1. a \in 0 .. Len(h.v) - 1 /\ end \in 0 .. h.v_slot - 1
      BY <1>1, <1>2, <1>5
    <3>2. QED BY <3>1, <1>10, <1>11, PositionInside
  <2>2. FirstEntry(h, a) + end = a * s + 1 + end
    BY <1>5 DEF FirstEntry
  <2>3. QED BY <2>1, <2>2, <1>7
<1>15. \A q \in Positions(g) : EntryAt(h, q) = EntryAt(g, q)
  <2>1. TAKE q \in Positions(g)
  <2>2. PICK c \in 0 .. n - 1, j \in 0 .. s - 1 : q = <<c, j>>
    BY <1>1, <1>n, PositionIs
  <2>3. Allocated(g) /\ el = g.e_l
    BY <1>1, PositionAllocates DEF el
  <2>4. /\ c * s + 1 + j \in 1 .. n * s
        /\ EntryAt(g, q) = g.e_l[c * s + 1 + j] /\ EntryAt(h, q) = h.e_l[c * s + 1 + j]
    <3>1. FirstEntry(g, c) + j = c * s + 1 + j /\ FirstEntry(h, c) + j = c * s + 1 + j
      BY <1>5, <1>n DEF FirstEntry
    <3>2. EntryAt(g, q) = g.e_l[FirstEntry(g, c) + j]
      BY <2>2, <2>3, <1>1, PositionInside
    <3>3. EntryAt(h, q) = h.e_l[FirstEntry(h, c) + j]
      <4>1. c \in 0 .. Len(h.v) - 1 /\ j \in 0 .. h.v_slot - 1
        BY <1>1, <1>5
      <4>2. QED BY <4>1, <2>2, <1>10, <1>11, PositionInside
    <3>4. c * s + 1 + j \in 1 .. n * s
      BY <1>1, SlotInside
    <3>5. QED BY <2>2, <3>1, <3>2, <3>3, <3>4
  <2>5. c * s + 1 + j # a * s + 1 + end
    <3>1. SUFFICES ASSUME c * s + 1 + j = a * s + 1 + end PROVE FALSE
      OBVIOUS
    <3>2. c = a /\ j = end
      <4>1. c \in Nat /\ a \in Nat
        BY <1>1, <1>2
      <4>2. SlotEntry(s, c, j) = SlotEntry(s, a, end)
        BY <3>1 DEF SlotEntry
      <4>3. QED BY <4>1, <4>2, <1>n, <1>e, SlotsDiffer
    <3>3. QED BY <3>2, <2>2, <1>13
  <2>6. QED BY <2>3, <2>4, <2>5, <1>7
<1>16. EdgesNamedOnce(h)
  <2>1. Vertices(h) = Vertices(g) /\ b \in Vertices(h)
    BY <1>5 DEF Vertices
  <2>2. \A q \in Positions(h) : EntryAt(h, q) \in [vid : Vertices(h), eid : 0 .. Len(h.e) - 1]
    <3>1. new \in [vid : Vertices(h), eid : 0 .. Len(h.e) - 1]
      BY <2>1, <1>9 DEF new
    <3>2. \A q \in Positions(g) : EntryAt(g, q) \in [vid : Vertices(g), eid : 0 .. Len(g.e) - 1]
      BY <1>1 DEF EdgesNamedOnce
    <3>3. \A q \in Positions(g) : EntryAt(g, q) \in [vid : Vertices(h), eid : 0 .. Len(h.e) - 1]
      BY <3>2, <2>1, <1>9
    <3>4. QED BY <3>1, <3>3, <1>12, <1>14, <1>15
  <2>3. ASSUME NEW k \in 0 .. Len(h.e) - 1
        PROVE  \E q \in Positions(h) : Named(h, k, q)
    <3>1. CASE k = Len(g.e)
      <4>1. \A q \in Positions(g) : EntryAt(g, q).eid # k
        <5>1. TAKE q \in Positions(g)
        <5>2. EntryAt(g, q).eid \in 0 .. Len(g.e) - 1
          BY <1>1 DEF EdgesNamedOnce
        <5>3. QED BY <5>2, <3>1, <1>9
      <4>2. Named(h, k, at)
        BY <4>1, <3>1, <1>6, <1>12, <1>14, <1>15 DEF Named
      <4>3. QED BY <4>2, <1>12
    <3>2. CASE k \in 0 .. Len(g.e) - 1
      <4>1. PICK q \in Positions(g) : Named(g, k, q)
        BY <3>2, <1>1 DEF EdgesNamedOnce, Named
      <4>2. k # Len(g.e)
        BY <3>2, <1>9
      <4>3. Named(h, k, q)
        BY <4>1, <4>2, <1>6, <1>12, <1>14, <1>15 DEF Named
      <4>4. QED BY <4>3, <1>12
    <3>3. QED BY <3>1, <3>2, <1>9
  <2>4. QED BY <2>2, <2>3 DEF EdgesNamedOnce, Named
<1>18. Positions(h) = Positions(g) \union {at}
  BY <1>12
<1>19. QED BY <1>5, <1>10, <1>11, <1>13, <1>14, <1>15, <1>16, <1>18 DEF EdgeNamed, Good, h, end, new

-----------------------------------------------------------------------------
(* The edge iterator.                                                      *)

\* Every set of naturals that is not empty has a least member.
LEMMA LeastNat ==
  ASSUME NEW S, S \subseteq Nat, S # {}
  PROVE  \E n \in S : \A m \in S : n <= m
<1> DEFINE R == OpToRel(<, Nat)
<1>1. R = {ss \in Nat \X Nat : ss[1] < ss[2]}
  BY DEF OpToRel
<1>2. IsWellFoundedOn(R, Nat)
  BY NatLessThanWellFounded
<1> HIDE DEF R
<1>3. PICK n \in S : \A m \in S : ~(<<m, n>> \in R)
  BY <1>2, WFMin
<1>4. \A m \in S : <<m, n>> \in Nat \X Nat
  OBVIOUS
<1>5. \A m \in S : ~(m < n)
  BY <1>1, <1>3, <1>4
<1>6. QED BY <1>5

IterRec ==
  [on : {TRUE}, g : Graphs, pos : Nat, pos_e : Nat, atStart : Nat,
   seen : SUBSET (Nat \union {Unset}), astray : BOOLEAN, ended : BOOLEAN]

\* The order in which positions are visited.
Before(p, q) == p[1] < q[1] \/ (p[1] = q[1] /\ p[2] < q[2])

\* The edges seen are those at positions passed, and only a vertex 0 without
\* edges can have shown nothing; the edges that are left are not passed.
OnTheWay(i, g) ==
  LET here == <<i.pos, i.pos_e>>
  IN  /\ i.pos < Len(g.v)
      /\ here \in Positions(g) \/ here = <<0, 0>>
      /\ \A k \in i.seen : \/ k = Unset /\ i.pos > 0
                           \/ \E p \in Positions(g) : EntryAt(g, p).eid = k /\ Before(p, here)
      /\ \A k \in 0 .. i.atStart - 1 :
           \/ k \in i.seen
           \/ \E p \in Positions(g) : EntryAt(g, p).eid = k /\ ~Before(p, here)

IterOK(i, g) ==
  /\ ~i.astray /\ i.atStart <= Len(g.e)
  /\ IF i.ended THEN 0 .. i.atStart - 1 \subseteq i.seen ELSE OnTheWay(i, g)

\* h has the edges of g where g has them.
Keeps(g, h) ==
  /\ Positions(g) \subseteq Positions(h)
  /\ \A p \in Positions(g) : EntryAt(h, p) = EntryAt(g, p)
  /\ Len(h.v) >= Len(g.v) /\ Len(h.e) >= Len(g.e)

\* A graph that grows while it is iterated over does not lead the iterator
\* astray.
LEMMA GrowthKeepsIterator ==
  ASSUME NEW g, NEW h, g \in GraphRec, h \in GraphRec, NEW i \in IterRec,
         IterOK(i, g), Keeps(g, h)
  PROVE  IterOK(i, h)
<1>1. /\ Len(g.v) \in Nat /\ Len(h.v) \in Nat /\ Len(g.e) \in Nat /\ Len(h.e) \in Nat
      /\ i.pos \in Nat /\ i.atStart \in Nat
  BY DEF GraphRec, IterRec
<1>2. i.atStart <= Len(h.e)
  BY <1>1 DEF IterOK, Keeps
<1>3. ASSUME OnTheWay(i, g) PROVE OnTheWay(i, h)
  <2>1. i.pos < Len(h.v)
    BY <1>1, <1>3 DEF OnTheWay, Keeps
  <2>2. QED BY <2>1, <1>3 DEF OnTheWay, Keeps
<1>4. QED BY <1>2, <1>3 DEF IterOK

\* An iterator that starts has everything before it.
LEMMA IteratorStarts ==
  ASSUME NEW g, Good(g), Len(g.v) # 0, NEW x \in Graphs
  PROVE  LET i == [on |-> TRUE, g |-> x, pos |-> 0, pos_e |-> 0, atStart |-> Len(g.e),
                   seen |-> {}, astray |-> FALSE, ended |-> FALSE]
         IN  i \in IterRec /\ IterOK(i, g)
<1> DEFINE i == [on |-> TRUE, g |-> x, pos |-> 0, pos_e |-> 0, atStart |-> Len(g.e),
                 seen |-> {}, astray |-> FALSE, ended |-> FALSE]
<1>1. g \in GraphRec /\ GraphOK(g) /\ Len(g.v) \in Nat /\ Len(g.e) \in Nat
  BY DEF Good, GraphRec
<1>2. i \in IterRec
  BY <1>1 DEF IterRec
<1>3. \A p \in Positions(g) : ~Before(p, <<0, 0>>)
  <2>1. TAKE p \in Positions(g)
  <2>2. PICK c \in Nat, j \in Nat : p = <<c, j>>
    BY <1>1, PositionIs DEF GraphRec
  <2>3. QED BY <2>2 DEF Before
<1>4. \A k \in 0 .. Len(g.e) - 1 : \E p \in Positions(g) : EntryAt(g, p).eid = k
  BY DEF Good, EdgesNamedOnce
<1>5. OnTheWay(i, g)
  BY <1>1, <1>3, <1>4 DEF OnTheWay
<1>6. IterOK(i, g)
  BY <1>1, <1>5 DEF IterOK
<1>7. QED BY <1>2, <1>6

\* ++ goes to the first position after here, or past the last vertex when there
\* is none.
LEMMA FollowingIs ==
  ASSUME NEW g, Good(g), NEW pos \in Nat, NEW pos_e \in Nat, pos < Len(g.v)
  PROVE  \E c \in Nat, j \in Nat :
           /\ Following(g, pos, pos_e) = <<c, j>>
           /\ Before(<<pos, pos_e>>, <<c, j>>)
           /\ c <= Len(g.v) /\ (c < Len(g.v) => <<c, j>> \in Positions(g))
           /\ \A p \in Positions(g) : Before(p, <<c, j>>) =>
                                        Before(p, <<pos, pos_e>>) \/ p = <<pos, pos_e>>
           /\ c = 0 => pos = 0 /\ <<pos, pos_e + 1>> \in Positions(g)
<1>1. /\ g \in GraphRec /\ GraphOK(g) /\ Len(g.v) \in Nat /\ g.v_slot \in Nat \ {0}
      /\ g.v_l \in [1 .. Len(g.v) -> 0 .. g.v_slot]
  BY DEF Good, GraphRec, GraphOK
<1>2. \A c \in 0 .. Len(g.v) - 1 : c + 1 \in 1 .. Len(g.v) /\ getNChilds(g, c) \in 0 .. g.v_slot
  BY <1>1 DEF getNChilds
<1>3. \A c, j : <<c, j>> \in Positions(g) <=>
                  /\ c \in 0 .. Len(g.v) - 1 /\ j \in 0 .. g.v_slot - 1
                  /\ j < getNChilds(g, c)
  <2>1. TAKE c, j
  <2>2. <<c, j>> \in Positions(g) <=>
          \E d \in 0 .. Len(g.v) - 1, k \in 0 .. g.v_slot - 1 :
            <<c, j>> = <<d, k>> /\ k < g.v_l[d + 1]
    BY <1>1, PositionIs
  <2>3. \A d, k : <<c, j>> = <<d, k>> <=> c = d /\ j = k
    OBVIOUS
  <2>4. QED BY <2>2, <2>3 DEF getNChilds
<1>4. \A p \in Positions(g) : \E c, j : p = <<c, j>>
  BY <1>1, PositionIs
<1>5. pos \in 0 .. Len(g.v) - 1 /\ getNChilds(g, pos) \in 0 .. g.v_slot
  BY <1>1, <1>2
<1>6. CASE pos_e + 1 >= getNChilds(g, pos)
  <2> DEFINE rest == {c \in pos + 1 .. Len(g.v) : c < Len(g.v) => getNChilds(g, c) # 0}
  <2>1. rest \subseteq Nat /\ Len(g.v) \in rest
    BY <1>1, <1>5
  <2>2. \E c \in rest : \A d \in rest : c <= d
    BY <2>1, LeastNat
  <2>3. PICK c \in rest : c = (CHOOSE k \in rest : \A d \in rest : k <= d) /\ \A d \in rest : c <= d
    BY <2>2
  <2>4. Following(g, pos, pos_e) = <<c, 0>>
    BY <1>6, <2>3 DEF Following
  <2>5. c \in Nat /\ c > pos /\ c <= Len(g.v) /\ (c < Len(g.v) => getNChilds(g, c) # 0)
    <3>1. c \in pos + 1 .. Len(g.v) /\ (c < Len(g.v) => getNChilds(g, c) # 0)
      BY <2>3
    <3>2. QED BY <3>1, <1>1
  <2>6. c < Len(g.v) => <<c, 0>> \in Positions(g)
    BY <1>1, <1>2, <1>3, <2>5
  <2>7. ASSUME NEW p \in Positions(g), Before(p, <<c, 0>>)
        PROVE  Before(p, <<pos, pos_e>>) \/ p = <<pos, pos_e>>
    <3>1. PICK d, j : p = <<d, j>>
      BY <1>4
    <3>2. d \in 0 .. Len(g.v) - 1 /\ j \in 0 .. g.v_slot - 1 /\ j < getNChilds(g, d)
      BY <3>1, <1>3
    <3>3. d < c
      BY <3>1, <3>2, <2>5, <2>7, <1>1 DEF Before
    <3>4. d <= pos
      <4>1. d \notin rest
        <5>1. \A m \in rest : c <= m
          BY <2>3
        <5>2. ~(c <= d)
          BY <3>2, <3>3, <2>5, <1>1
        <5>3. QED BY <5>1, <5>2
      <4>2. getNChilds(g, d) # 0
        BY <3>2, <1>1, <1>2
      <4>3. QED BY <4>1, <4>2, <3>2, <1>1
    <3>5. d = pos => j <= pos_e
      BY <3>2, <1>5, <1>6, <1>1
    <3>6. QED BY <3>1, <3>2, <3>4, <3>5, <1>1 DEF Before
  <2>8. Before(<<pos, pos_e>>, <<c, 0>>) /\ c # 0
    BY <2>5 DEF Before
  <2>9. QED BY <2>4, <2>5, <2>6, <2>7, <2>8
<1>7. CASE ~(pos_e + 1 >= getNChilds(g, pos))
  <2>1. Following(g, pos, pos_e) = <<pos, pos_e + 1>>
    BY <1>7 DEF Following
  <2>2. <<pos, pos_e + 1>> \in Positions(g)
    BY <1>3, <1>5, <1>7, <1>1
  <2>3. Before(<<pos, pos_e>>, <<pos, pos_e + 1>>)
    BY DEF Before
  <2>4. ASSUME NEW p \in Positions(g), Before(p, <<pos, pos_e + 1>>)
        PROVE  Before(p, <<pos, pos_e>>) \/ p = <<pos, pos_e>>
    <3>1. PICK d, j : p = <<d, j>>
      BY <1>4
    <3>2. d \in Nat /\ j \in Nat
      BY <3>1, <1>3, <1>1
    <3>3. QED BY <3>1, <3>2, <2>4 DEF Before
  <2>5. pos <= Len(g.v) /\ pos_e + 1 \in Nat
    BY <1>1
  <2>6. QED BY <2>1, <2>2, <2>3, <2>4, <2>5
<1>8. QED BY <1>6, <1>7

LEMMA BeforeIsOrder ==
  ASSUME NEW a \in Nat, NEW i \in Nat, NEW b \in Nat, NEW j \in Nat, NEW c \in Nat, NEW k \in Nat
  PROVE  /\ ~Before(<<a, i>>, <<a, i>>)
         /\ Before(<<a, i>>, <<b, j>>) /\ Before(<<b, j>>, <<c, k>>) => Before(<<a, i>>, <<c, k>>)
BY DEF Before

What(g, here) == IF here \in Positions(g) THEN EntryAt(g, here).eid ELSE Unset

\* The iterator after reading the edge at its position, and ++.
Stepped(i, g) ==
  LET here == <<i.pos, i.pos_e>>
      next == Following(g, i.pos, i.pos_e)
      what == What(g, here)
  IN  [i EXCEPT !.pos = next[1], !.pos_e = next[2], !.seen = @ \union {what},
                !.astray = @ \/ what \in i.seen \/ (what = Unset /\ here # <<0, 0>>),
                !.ended = next[1] >= Len(g.v)]

LEMMA IteratorSteps ==
  ASSUME NEW g, Good(g), NEW i \in IterRec, IterOK(i, g), ~i.ended
  PROVE  Stepped(i, g) \in IterRec /\ IterOK(Stepped(i, g), g)
<1> PICK what, next, l :
      /\ what = What(g, <<i.pos, i.pos_e>>) /\ next = Following(g, i.pos, i.pos_e)
      /\ l = Stepped(i, g)
  OBVIOUS
<1> DEFINE here == <<i.pos, i.pos_e>>
<1>0. l = [i EXCEPT !.pos = next[1], !.pos_e = next[2], !.seen = @ \union {what},
                    !.astray = @ \/ what \in i.seen \/ (what = Unset /\ here # <<0, 0>>),
                    !.ended = next[1] >= Len(g.v)]
  BY DEF Stepped
<1>1. /\ g \in GraphRec /\ GraphOK(g) /\ Len(g.v) \in Nat /\ Len(g.e) \in Nat
      /\ EdgesNamedOnce(g)
      /\ i.pos \in Nat /\ i.pos_e \in Nat /\ i.atStart \in Nat /\ i.astray = FALSE
      /\ i.seen \subseteq Nat \union {Unset}
  BY DEF Good, GraphRec, IterRec, IterOK
<1>2. OnTheWay(i, g) /\ i.atStart <= Len(g.e)
  BY DEF IterOK
<1>3. \A p \in Positions(g) : EntryAt(g, p).eid \in 0 .. Len(g.e) - 1
  BY <1>1 DEF EdgesNamedOnce
<1>4. here \in Positions(g) \/ (here = <<0, 0>> /\ here \notin Positions(g))
  BY <1>2 DEF OnTheWay
<1>5. \A p \in Positions(g) : \E c \in 0 .. Len(g.v) - 1, m \in Nat : p = <<c, m>>
  BY <1>1, PositionIs DEF GraphRec
<1>6. Unset \notin Nat
  BY GraphAssumption
<1>7. what \in Nat \union {Unset} /\ (what = Unset <=> here \notin Positions(g))
      /\ (here \in Positions(g) => what = EntryAt(g, here).eid)
  BY <1>1, <1>3, <1>6 DEF What
<1>8. \A p \in Positions(g) : here \in Positions(g) /\ EntryAt(g, p).eid = what => p = here
  <2>1. SUFFICES ASSUME NEW p \in Positions(g), here \in Positions(g), EntryAt(g, p).eid = what
                 PROVE  p = here
    OBVIOUS
  <2>2. what \in 0 .. Len(g.e) - 1
    BY <2>1, <1>3
  <2>3. PICK q \in Positions(g) : \A r \in Positions(g) : EntryAt(g, r).eid = what => r = q
    BY <2>2, <1>1 DEF EdgesNamedOnce
  <2>4. QED BY <2>1, <2>3, <1>7
<1>9. PICK c \in Nat, j \in Nat :
           /\ next = <<c, j>>
           /\ Before(here, <<c, j>>)
           /\ c <= Len(g.v) /\ (c < Len(g.v) => <<c, j>> \in Positions(g))
           /\ \A p \in Positions(g) : Before(p, <<c, j>>) => Before(p, here) \/ p = here
           /\ c = 0 => i.pos = 0 /\ <<i.pos, i.pos_e + 1>> \in Positions(g)
  <2>1. i.pos < Len(g.v)
    BY <1>2 DEF OnTheWay
  <2>2. PICK c \in Nat, j \in Nat :
           /\ Following(g, i.pos, i.pos_e) = <<c, j>>
           /\ Before(<<i.pos, i.pos_e>>, <<c, j>>)
           /\ c <= Len(g.v) /\ (c < Len(g.v) => <<c, j>> \in Positions(g))
           /\ \A p \in Positions(g) : Before(p, <<c, j>>) =>
                                        Before(p, <<i.pos, i.pos_e>>) \/ p = <<i.pos, i.pos_e>>
           /\ c = 0 => i.pos = 0 /\ <<i.pos, i.pos_e + 1>> \in Positions(g)
    BY <2>1, <1>1, FollowingIs
  <2>3. QED BY <2>2
<1>10. next[1] = c /\ next[2] = j
  BY <1>9
<1>11. what \notin i.seen
  <2>1. SUFFICES ASSUME what \in i.seen PROVE FALSE
    OBVIOUS
  <2>2. \/ what = Unset /\ i.pos > 0
        \/ \E p \in Positions(g) : EntryAt(g, p).eid = what /\ Before(p, here)
    BY <2>1, <1>2 DEF OnTheWay
  <2>3. CASE here \in Positions(g)
    <3>1. Before(here, here)
      BY <2>2, <2>3, <1>7, <1>8
    <3>2. QED BY <3>1, <1>1, BeforeIsOrder
  <2>4. CASE here = <<0, 0>> /\ here \notin Positions(g)
    <3>1. i.pos = 0 /\ what = Unset
      BY <2>4, <1>7
    <3>2. PICK p \in Positions(g) : Before(p, <<0, 0>>)
      BY <2>2, <2>4, <3>1
    <3>3. PICK d \in 0 .. Len(g.v) - 1, m \in Nat : p = <<d, m>>
      BY <1>5
    <3>4. QED BY <3>2, <3>3, <1>1 DEF Before
  <2>5. QED BY <2>3, <2>4, <1>4
<1>12. what = Unset => here = <<0, 0>>
  BY <1>4, <1>7
<1>13. /\ l.pos = c /\ l.pos_e = j /\ l.seen = i.seen \union {what} /\ l.astray = FALSE
       /\ l.ended = (c >= Len(g.v)) /\ l.atStart = i.atStart
  BY <1>0, <1>1, <1>10, <1>11, <1>12 DEF IterRec
<1>14. l \in IterRec
  <2>1. PICK S, e : S = i.seen \union {what} /\ e = (c >= Len(g.v))
    OBVIOUS
  <2>2. l = [i EXCEPT !.pos = c, !.pos_e = j, !.seen = S, !.astray = FALSE, !.ended = e]
    <3>1. (i.astray \/ what \in i.seen \/ (what = Unset /\ here # <<0, 0>>)) = FALSE
      BY <1>1, <1>11, <1>12
    <3>2. (next[1] >= Len(g.v)) = e
      BY <2>1, <1>10
    <3>3. QED BY <1>0, <2>1, <3>1, <3>2, <1>10
  <2>3. S \in SUBSET (Nat \union {Unset}) /\ e \in BOOLEAN
    BY <2>1, <1>1, <1>7
  <2>4. QED BY <2>2, <2>3 DEF IterRec
<1>15. \A p \in Positions(g) : Before(p, <<c, j>>) => Before(p, here) \/ p = here
  BY <1>9
<1>16. ASSUME NEW k \in 0 .. i.atStart - 1
       PROVE  \/ k \in l.seen
              \/ \E p \in Positions(g) : EntryAt(g, p).eid = k /\ ~Before(p, <<c, j>>)
  <2>1. CASE k \in i.seen
    BY <2>1, <1>13
  <2>2. CASE k \notin i.seen
    <3>1. PICK p \in Positions(g) : EntryAt(g, p).eid = k /\ ~Before(p, here)
      BY <2>2, <1>2 DEF OnTheWay
    <3>2. CASE p = here
      BY <3>1, <3>2, <1>7, <1>13
    <3>3. CASE p # here
      BY <3>1, <3>3, <1>15
    <3>4. QED BY <3>2, <3>3
  <2>3. QED BY <2>1, <2>2
<1>17. CASE c >= Len(g.v)
  <2>1. \A p \in Positions(g) : Before(p, <<c, j>>)
    <3>1. TAKE p \in Positions(g)
    <3>2. PICK d \in 0 .. Len(g.v) - 1, m \in Nat : p = <<d, m>>
      BY <1>5
    <3>3. QED BY <3>2, <1>1, <1>17 DEF Before
  <2>2. 0 .. i.atStart - 1 \subseteq l.seen
    BY <2>1, <1>16
  <2>3. QED BY <2>2, <1>2, <1>13, <1>14, <1>17 DEF IterOK
<1>18. CASE ~(c >= Len(g.v))
  <2>1. c < Len(g.v) /\ <<c, j>> \in Positions(g)
    BY <1>18, <1>9, <1>1
  <2>2. ASSUME NEW k \in i.seen
        PROVE  \/ k = Unset /\ c > 0
               \/ \E p \in Positions(g) : EntryAt(g, p).eid = k /\ Before(p, <<c, j>>)
    <3>1. CASE k = Unset /\ i.pos > 0
      <4>1. c > 0
        BY <3>1, <1>1, <1>9 DEF Before
      <4>2. QED BY <4>1, <3>1
    <3>2. CASE \E p \in Positions(g) : EntryAt(g, p).eid = k /\ Before(p, here)
      <4>1. PICK p \in Positions(g) : EntryAt(g, p).eid = k /\ Before(p, here)
        BY <3>2
      <4>2. PICK d \in 0 .. Len(g.v) - 1, m \in Nat : p = <<d, m>>
        BY <1>5
      <4>3. d \in Nat
        BY <1>1
      <4>4. Before(p, <<c, j>>)
        BY <4>1, <4>2, <4>3, <1>1, <1>9, BeforeIsOrder
      <4>5. QED BY <4>1, <4>4
    <3>3. QED BY <3>1, <3>2, <1>2 DEF OnTheWay
  <2>3. \/ what = Unset /\ c > 0
        \/ \E p \in Positions(g) : EntryAt(g, p).eid = what /\ Before(p, <<c, j>>)
    <3>1. CASE here \in Positions(g)
      BY <3>1, <1>7, <1>9
    <3>2. CASE here = <<0, 0>> /\ here \notin Positions(g)
      <4>1. what = Unset /\ i.pos = 0 /\ i.pos_e = 0
        BY <3>2, <1>7
      <4>2. ASSUME c = 0 PROVE FALSE
        <5>1. <<0, 1>> \in Positions(g)
          BY <4>1, <4>2, <1>9
        <5>2. g.v_slot \in Nat \ {0}
          BY <1>1 DEF GraphRec
        <5>3. PICK d \in 0 .. Len(g.v) - 1, m \in 0 .. g.v_slot - 1 : <<0, 1>> = <<d, m>> /\ m < g.v_l[d + 1]
          BY <5>1, <1>1, PositionIs
        <5>4. d = 0 /\ m = 1
          BY <5>3
        <5>5. 0 \in 0 .. Len(g.v) - 1 /\ 0 \in 0 .. g.v_slot - 1
          BY <5>3, <5>2, <5>4, <1>1
        <5>6. 1 \in 1 .. Len(g.v) /\ g.v_l[1] \in 0 .. g.v_slot
          <6>1. 1 \in 1 .. Len(g.v)
            BY <5>5, <1>1
          <6>2. g.v_l \in [1 .. Len(g.v) -> 0 .. g.v_slot]
            BY <1>1 DEF GraphOK
          <6>3. QED BY <6>1, <6>2
        <5>7. 0 < g.v_l[0 + 1]
          BY <5>3, <5>4, <5>6, <5>2
        <5>8. <<0, 0>> \in Positions(g)
          BY <5>5, <5>7, <1>1, PositionIs
        <5>9. QED BY <5>8, <3>2
      <4>3. QED BY <4>1, <4>2
    <3>3. QED BY <3>1, <3>2, <1>4
  <2>4. OnTheWay(l, g)
    BY <2>1, <2>2, <2>3, <1>13, <1>16 DEF OnTheWay
  <2>5. QED BY <2>4, <1>2, <1>13, <1>14, <1>18 DEF IterOK
<1>19. QED BY <1>17, <1>18

-----------------------------------------------------------------------------
(* The client.                                                             *)

GraphsGood == graph \in [Graphs -> GraphRec] /\ \A x \in Graphs : Good(graph[x])

IteratorGood ==
  it \in IterRec \union {NoIterator} /\ (it.on => IterOK(it, graph[it.g]))

\* The inductive invariant.
IndInv == GraphsGood /\ IteratorGood /\ client \in Clients

\* Only graph x changes, to one with no edge where it had another.
Grows(x, h) ==
  /\ x \in Graphs /\ h \in GraphRec /\ Good(h)
  /\ graph' = [graph EXCEPT ![x] = h]
  /\ Keeps(graph[x], h)
  /\ UNCHANGED <<it, client>>

LEMMA GoodIsRec ==
  ASSUME NEW g, Good(g)
  PROVE  g \in GraphRec
BY DEF Good

LEMMA InitIndInv == Init => IndInv
<1> SUFFICES ASSUME Init PROVE IndInv
  OBVIOUS
<1>1. PICK n \in News : graph = [x \in Graphs |-> Graph_CSR(0, n[2])]
  BY DEF Init
<1>2. n[2] \in Nat \ {0}
  BY <1>1, GraphAssumption
<1>3. Good(Graph_CSR(0, n[2]))
  BY <1>2, NewGood
<1>4. Graph_CSR(0, n[2]) \in GraphRec
  BY <1>3, GoodIsRec
<1>5. GraphsGood
  BY <1>1, <1>3, <1>4 DEF GraphsGood
<1>6. IteratorGood /\ client \in Clients
  BY DEF Init, IteratorGood, NoIterator
<1>7. QED BY <1>5, <1>6 DEF IndInv

LEMMA IteratorIs ==
  ASSUME IndInv, it.on
  PROVE  it \in IterRec /\ it.g \in Graphs /\ IterOK(it, graph[it.g])
<1>1. it \in IterRec \union {NoIterator} /\ IterOK(it, graph[it.g])
  BY DEF IndInv, IteratorGood
<1>2. it # NoIterator
  BY DEF NoIterator
<1>3. it \in IterRec
  BY <1>1, <1>2
<1>4. QED BY <1>1, <1>3 DEF IterRec

\* A step that lets a graph grow keeps the invariant.
LEMMA GrowsKeeps ==
  ASSUME IndInv, NEW x, NEW h, Grows(x, h)
  PROVE  IndInv'
<1>1. GraphsGood'
  BY DEF IndInv, GraphsGood, Grows
<1>2. ASSUME it.on PROVE IterOK(it, graph'[it.g])
  <2>1. it \in IterRec /\ it.g \in Graphs /\ IterOK(it, graph[it.g])
    BY <1>2, IteratorIs
  <2>2. graph \in [Graphs -> GraphRec]
    BY DEF IndInv, GraphsGood
  <2>3. CASE it.g = x
    <3>1. graph'[it.g] = h /\ graph[it.g] \in GraphRec /\ Keeps(graph[it.g], h) /\ h \in GraphRec
      BY <2>1, <2>2, <2>3 DEF Grows
    <3>2. QED BY <3>1, <2>1, GrowthKeepsIterator
  <2>4. CASE it.g # x
    BY <2>1, <2>2, <2>4 DEF Grows
  <2>5. QED BY <2>3, <2>4
<1>3. IteratorGood'
  BY <1>2 DEF IndInv, IteratorGood, Grows
<1>4. QED BY <1>1, <1>3 DEF IndInv, Grows

\* What may happen to graphs nobody iterates over.
LEMMA OthersKeep ==
  ASSUME IndInv, NEW S, UNCHANGED <<it, client>>, it.on => it.g \notin S,
         graph' \in [Graphs -> GraphRec],
         \A x \in Graphs : x \notin S => graph'[x] = graph[x],
         \A x \in Graphs : x \in S => Good(graph'[x])
  PROVE  IndInv'
<1>1. GraphsGood'
  BY DEF IndInv, GraphsGood
<1>2. ASSUME it.on PROVE IterOK(it, graph'[it.g])
  <2>1. it \in IterRec /\ it.g \in Graphs /\ IterOK(it, graph[it.g])
    BY <1>2, IteratorIs
  <2>2. QED BY <2>1, <1>2
<1>3. IteratorGood'
  BY <1>2 DEF IndInv, IteratorGood
<1>4. QED BY <1>1, <1>3 DEF IndInv

LEMMA NewKeeps ==
  ASSUME IndInv, NEW x \in Graphs, New(x)
  PROVE  IndInv'
<1>1. PICK n \in News : graph' = [graph EXCEPT ![x] = Graph_CSR(n[1], n[2])]
  BY DEF New
<1>2. n[1] \in Nat /\ n[2] \in Nat \ {0}
  BY <1>1, GraphAssumption
<1>3. PICK h : h = Graph_CSR(n[1], n[2])
  OBVIOUS
<1>4. Good(h) /\ h \in GraphRec
  BY <1>2, <1>3, NewGood, GoodIsRec
<1>5. graph \in [Graphs -> GraphRec]
  BY DEF IndInv, GraphsGood
<1>6. /\ graph' \in [Graphs -> GraphRec] /\ graph'[x] = h
      /\ \A y \in Graphs : y \notin {x} => graph'[y] = graph[y]
  BY <1>1, <1>3, <1>4, <1>5
<1>7. UNCHANGED <<it, client>> /\ (it.on => it.g \notin {x})
  BY DEF New, Iterating
<1>8. QED BY <1>4, <1>6, <1>7, OthersKeep

LEMMA ClearKeeps ==
  ASSUME IndInv, NEW x \in Graphs, Clear(x)
  PROVE  IndInv'
<1>1. PICK h : h = clear(graph[x])
  OBVIOUS
<1>2. graph \in [Graphs -> GraphRec] /\ Good(graph[x])
  BY DEF IndInv, GraphsGood
<1>3. Good(h) /\ h \in GraphRec
  BY <1>1, <1>2, ClearGood, GoodIsRec
<1>4. graph' = [graph EXCEPT ![x] = h]
  BY <1>1 DEF Clear
<1>5. /\ graph' \in [Graphs -> GraphRec] /\ graph'[x] = h
      /\ \A y \in Graphs : y \notin {x} => graph'[y] = graph[y]
  BY <1>2, <1>3, <1>4
<1>6. UNCHANGED <<it, client>> /\ (it.on => it.g \notin {x})
  BY DEF Clear, Iterating
<1>7. QED BY <1>3, <1>5, <1>6, OthersKeep

LEMMA AssignKeeps ==
  ASSUME IndInv, NEW x \in Graphs, NEW y \in Graphs, Assign(x, y)
  PROVE  IndInv'
<1>1. graph \in [Graphs -> GraphRec] /\ Good(graph[y])
  BY DEF IndInv, GraphsGood
<1>2. /\ graph' \in [Graphs -> GraphRec] /\ graph'[x] = graph[y]
      /\ \A z \in Graphs : z \notin {x} => graph'[z] = graph[z]
  BY <1>1 DEF Assign
<1>3. UNCHANGED <<it, client>> /\ (it.on => it.g \notin {x})
  BY DEF Assign, Iterating
<1>4. QED BY <1>1, <1>2, <1>3, OthersKeep

\* A move exchanges the graphs, like a swap: the slots are equally many.
LEMMA MoveIsSwap ==
  ASSUME IndInv, NEW x \in Graphs, NEW y \in Graphs, MoveAssign(x, y)
  PROVE  graph' = [graph EXCEPT ![x] = graph[y], ![y] = graph[x]]
<1>1. graph[x] \in GraphRec /\ graph[y] \in GraphRec /\ graph[x].v_slot = graph[y].v_slot
  BY DEF IndInv, GraphsGood, MoveAssign
<1>2. /\ [graph[y] EXCEPT !.v_slot = graph[x].v_slot] = graph[y]
      /\ [graph[x] EXCEPT !.v_slot = graph[y].v_slot] = graph[x]
  BY <1>1 DEF GraphRec
<1>3. QED BY <1>2 DEF MoveAssign

LEMMA SwapKeeps ==
  ASSUME IndInv, NEW x \in Graphs, NEW y \in Graphs, ~Iterating(x), ~Iterating(y),
         graph' = [graph EXCEPT ![x] = graph[y], ![y] = graph[x]],
         UNCHANGED <<it, client>>
  PROVE  IndInv'
<1>1. graph \in [Graphs -> GraphRec] /\ Good(graph[y]) /\ Good(graph[x])
  BY DEF IndInv, GraphsGood
<1>2. /\ graph' \in [Graphs -> GraphRec]
      /\ \A z \in Graphs : z \in {x, y} => Good(graph'[z])
      /\ \A z \in Graphs : z \notin {x, y} => graph'[z] = graph[z]
  BY <1>1
<1>3. it.on => it.g \notin {x, y}
  BY DEF Iterating
<1>4. QED BY <1>2, <1>3, OthersKeep

LEMMA AddVertexKeeps ==
  ASSUME IndInv, NEW x \in Graphs, AddVertex(x)
  PROVE  IndInv'
<1>1. PICK p \in client.writes : graph' = [graph EXCEPT ![x] = addVertex(@, p)]
  BY DEF AddVertex
<1>2. p \in Value
  BY <1>1, GraphAssumption DEF IndInv
<1>3. Good(graph[x]) /\ graph[x] \in GraphRec /\ Allocated(graph[x])
  BY DEF IndInv, GraphsGood, AddVertex
<1>4. PICK h : h = addVertex(graph[x], p)
  OBVIOUS
<1>5. /\ Good(h) /\ Positions(h) = Positions(graph[x])
      /\ \A q \in Positions(graph[x]) : EntryAt(h, q) = EntryAt(graph[x], q)
      /\ h.v = Append(graph[x].v, p) /\ h.e = graph[x].e
  BY <1>2, <1>3, <1>4, AddVertexGood
<1>6. Len(h.v) >= Len(graph[x].v) /\ Len(h.e) >= Len(graph[x].e)
  <2>1. graph[x].v \in Seq(Value) /\ graph[x].e \in Seq(Value)
    BY <1>3 DEF GraphRec
  <2>2. QED BY <2>1, <1>2, <1>5
<1>7. Grows(x, h)
  BY <1>1, <1>4, <1>5, <1>6, GoodIsRec DEF Grows, Keeps, AddVertex
<1>8. QED BY <1>7, GrowsKeeps

LEMMA AddEdgeKeeps ==
  ASSUME IndInv, NEW x \in Graphs, AddEdge(x)
  PROVE  IndInv'
<1>1. PICK a \in Vertices(graph[x]), b \in Vertices(graph[x]), p \in client.writes :
        FreeSlot(graph[x], a) /\ graph' = [graph EXCEPT ![x] = addEdge(@, a, b, p)]
  BY DEF AddEdge
<1>2. p \in Value
  BY <1>1, GraphAssumption DEF IndInv
<1>3. Good(graph[x]) /\ graph[x] \in GraphRec
  BY DEF IndInv, GraphsGood
<1>4. PICK h, g : h = addEdge(g, a, b, p) /\ g = graph[x]
  OBVIOUS
<1>5. /\ Good(h) /\ Positions(graph[x]) \subseteq Positions(h)
      /\ \A q \in Positions(graph[x]) : EntryAt(h, q) = EntryAt(graph[x], q)
      /\ h.v = graph[x].v /\ h.e = Append(graph[x].e, p)
  <2>1. Good(g) /\ a \in Vertices(g) /\ b \in Vertices(g) /\ FreeSlot(g, a)
    BY <1>1, <1>3, <1>4
  <2>2. /\ Good(h) /\ Positions(h) = Positions(g) \union {<<a, getNChilds(g, a)>>}
        /\ \A q \in Positions(g) : EntryAt(h, q) = EntryAt(g, q)
        /\ h.v = g.v /\ h.e = Append(g.e, p)
    <3>1. EdgeNamed(g, a, b, p, addEdge(g, a, b, p))
      BY <2>1, <1>2, AddEdgeGood
    <3>2. EdgeNamed(g, a, b, p, h)
      BY <3>1, <1>4
    <3>3. QED BY <3>2 DEF EdgeNamed
  <2>3. QED BY <2>2, <1>4
<1>6. Len(h.v) >= Len(graph[x].v) /\ Len(h.e) >= Len(graph[x].e)
  <2>1. graph[x].v \in Seq(Value) /\ graph[x].e \in Seq(Value)
    BY <1>3 DEF GraphRec
  <2>2. QED BY <2>1, <1>2, <1>5
<1>7. Grows(x, h)
  BY <1>1, <1>4, <1>5, <1>6, GoodIsRec DEF Grows, Keeps, AddEdge
<1>8. QED BY <1>7, GrowsKeeps

\* An edge to a vertex that does not exist writes the stub and nothing else.
LEMMA RefusedIs ==
  ASSUME NEW g, Good(g), NEW a, NEW p \in Value
  PROVE  LET h == addEdgeChecked(g, a, Len(g.v), p)
         IN  /\ h \in GraphRec
             /\ h.v_slot = g.v_slot /\ h.v = g.v /\ h.v_l = g.v_l /\ h.e = g.e /\ h.e_l = g.e_l
             /\ Len(h.e_invalid) = Len(g.e_invalid)
<1> DEFINE h == addEdgeChecked(g, a, Len(g.v), p)
<1>1. g \in GraphRec /\ Len(g.v) \in Nat /\ g.e_invalid \in Seq(Value)
  BY DEF Good, GraphRec
<1>2. Len(g.v) \notin Vertices(g)
  BY <1>1 DEF Vertices
<1>3. PICK s : s = [i \in DOMAIN g.e_invalid |-> p]
  OBVIOUS
<1>4. s \in Seq(Value) /\ Len(s) = Len(g.e_invalid)
  <2>1. DOMAIN g.e_invalid = 1 .. Len(g.e_invalid) /\ Len(g.e_invalid) \in Nat
    BY <1>1
  <2>2. QED BY <2>1, <1>3
<1>5. h = [g EXCEPT !.e_invalid = s]
  BY <1>2, <1>3 DEF addEdgeChecked
<1>6. QED BY <1>1, <1>4, <1>5 DEF GraphRec

\* The entries of a graph lie in its slots, vertices and adjacency only.
LEMMA SameLayout ==
  ASSUME NEW g, NEW h, h.v_slot = g.v_slot, h.v = g.v, h.v_l = g.v_l, h.e_l = g.e_l
  PROVE  Positions(h) = Positions(g) /\ \A q : EntryAt(h, q) = EntryAt(g, q)
BY DEF Positions, Vertices, getNChilds, EntryAt, FirstEntry

LEMMA RefusedGood ==
  ASSUME NEW g, Good(g), NEW h, h \in GraphRec,
         h.v_slot = g.v_slot, h.v = g.v, h.v_l = g.v_l, h.e = g.e, h.e_l = g.e_l,
         Len(h.e_invalid) = Len(g.e_invalid)
  PROVE  Good(h) /\ Keeps(g, h)
<1>1. Positions(h) = Positions(g) /\ \A q : EntryAt(h, q) = EntryAt(g, q)
  BY SameLayout
<1>2. /\ g \in GraphRec /\ GraphOK(g) /\ EdgesNamedOnce(g)
      /\ Len(g.v) \in Nat /\ Len(g.e) \in Nat
  BY DEF Good, GraphRec
<1>3. GraphOK(h)
  <2>1. h.e_invalid \in Seq(Value)
    BY DEF GraphRec
  <2>2. QED BY <2>1, <1>2 DEF GraphOK, Allocated, Vertices, getNChilds
<1>4. EdgesNamedOnce(h)
  BY <1>1, <1>2, SamePositions
<1>5. QED BY <1>1, <1>2, <1>3, <1>4 DEF Good, Keeps

LEMMA AddEdgeRefusedKeeps ==
  ASSUME IndInv, NEW x \in Graphs, AddEdgeRefused(x)
  PROVE  IndInv'
<1>1. PICK a \in Vertices(graph[x]), p \in client.writes :
        graph' = [graph EXCEPT ![x] = addEdgeChecked(@, a, Len(graph[x].v), p)]
  BY DEF AddEdgeRefused
<1>2. p \in Value
  BY <1>1, GraphAssumption DEF IndInv
<1>3. Good(graph[x])
  BY DEF IndInv, GraphsGood
<1>4. PICK g, h : g = graph[x] /\ h = addEdgeChecked(g, a, Len(g.v), p)
  OBVIOUS
<1>5. Good(g)
  BY <1>3, <1>4
<1>6. /\ h \in GraphRec
      /\ h.v_slot = g.v_slot /\ h.v = g.v /\ h.v_l = g.v_l /\ h.e = g.e /\ h.e_l = g.e_l
      /\ Len(h.e_invalid) = Len(g.e_invalid)
  BY <1>2, <1>4, <1>5, RefusedIs
<1>7. Good(h) /\ Keeps(g, h)
  BY <1>5, <1>6, RefusedGood
<1>8. Grows(x, h)
  BY <1>1, <1>4, <1>6, <1>7 DEF Grows, AddEdgeRefused
<1>9. QED BY <1>8, GrowsKeeps

\* The iterator.
LEMMA BeginEdgesKeeps ==
  ASSUME IndInv, NEW x \in Graphs, BeginEdges(x)
  PROVE  IndInv'
<1>1. Good(graph[x]) /\ graph[x].v # << >>
  BY DEF IndInv, GraphsGood, BeginEdges
<1>2. Len(graph[x].v) # 0
  <2>1. graph[x].v \in Seq(Value)
    BY <1>1 DEF Good, GraphRec
  <2>2. QED BY <2>1, <1>1
<1>3. PICK g : g = graph[x]
  OBVIOUS
<1>4. it' = [on |-> TRUE, g |-> x, pos |-> 0, pos_e |-> 0, atStart |-> Len(g.e),
             seen |-> {}, astray |-> FALSE, ended |-> FALSE]
  BY <1>3 DEF BeginEdges
<1>5. it' \in IterRec /\ IterOK(it', g)
  BY <1>1, <1>2, <1>3, <1>4, IteratorStarts
<1>6. it'.g = x
  BY <1>4
<1>7. IteratorGood'
  BY <1>3, <1>5, <1>6 DEF IteratorGood, BeginEdges
<1>8. GraphsGood' /\ (client \in Clients)'
  BY DEF IndInv, GraphsGood, BeginEdges
<1>9. QED BY <1>7, <1>8 DEF IndInv

LEMMA NextEdgeKeeps ==
  ASSUME IndInv, NextEdge
  PROVE  IndInv'
<1>1. it.on /\ ~it.ended /\ it \in IterRec /\ it.g \in Graphs /\ IterOK(it, graph[it.g])
  BY IteratorIs DEF NextEdge
<1>2. PICK g : g = graph[it.g]
  OBVIOUS
<1>3. Good(g)
  BY <1>1, <1>2 DEF IndInv, GraphsGood
<1>4. it' = Stepped(it, g)
  BY <1>2 DEF NextEdge, Stepped, What
<1>5. PICK i : i = it
  OBVIOUS
<1>6. Stepped(i, g) \in IterRec /\ IterOK(Stepped(i, g), g)
  BY <1>1, <1>2, <1>3, <1>5, IteratorSteps
<1>8. it' \in IterRec /\ IterOK(it', g)
  BY <1>4, <1>5, <1>6
<1>9. it'.g = it.g
  BY <1>1, <1>4 DEF IterRec, Stepped
<1>10. IteratorGood'
  BY <1>2, <1>8, <1>9 DEF IteratorGood, NextEdge
<1>11. GraphsGood' /\ (client \in Clients)'
  BY DEF IndInv, GraphsGood, NextEdge
<1>12. QED BY <1>10, <1>11 DEF IndInv

LEMMA NextIndInv == IndInv /\ [Next]_vars => IndInv'
<1> SUFFICES ASSUME IndInv, [Next]_vars PROVE IndInv'
  OBVIOUS
<1>1. client.uses \subseteq Graphs
  BY GraphAssumption DEF IndInv
<1>2. ASSUME NEW x \in client.uses,
             New(x) \/ AddVertex(x) \/ AddEdge(x) \/ AddEdgeRefused(x) \/ Clear(x) \/ BeginEdges(x)
      PROVE  IndInv'
  BY <1>1, <1>2, NewKeeps, AddVertexKeeps, AddEdgeKeeps, AddEdgeRefusedKeeps, ClearKeeps,
     BeginEdgesKeeps
<1>3. ASSUME NEW x \in client.uses, NEW y \in client.uses,
             Assign(x, y) \/ Swap(x, y) \/ MoveAssign(x, y)
      PROVE  IndInv'
  <2>1. x \in Graphs /\ y \in Graphs
    BY <1>1
  <2>2. CASE Assign(x, y)
    BY <2>1, <2>2, AssignKeeps
  <2>3. CASE Swap(x, y)
    BY <2>1, <2>3, SwapKeeps DEF Swap
  <2>4. CASE MoveAssign(x, y)
    BY <2>1, <2>4, MoveIsSwap, SwapKeeps DEF MoveAssign
  <2>5. QED BY <1>3, <2>2, <2>3, <2>4
<1>4. CASE NextEdge
  BY <1>4, NextEdgeKeeps
<1>5. CASE EndEdges
  BY <1>5 DEF EndEdges, IndInv, GraphsGood, IteratorGood, NoIterator
<1>6. CASE UNCHANGED vars
  BY <1>6 DEF vars, IndInv, GraphsGood, IteratorGood
<1>7. QED BY <1>2, <1>3, <1>4, <1>5, <1>6 DEF Next

LEMMA IndInvHolds == Spec => []IndInv
BY InitIndInv, NextIndInv, PTL DEF Spec

\* Whatever the client adds, copies, swaps, moves or clears, and wherever an
\* iterator is, every vector of every graph keeps its type and its size.
THEOREM TypeCorrect == Spec => []TypeOK
<1>1. IndInv => TypeOK
  BY DEF IndInv, GraphsGood, Good, TypeOK
<1>2. QED BY <1>1, IndInvHolds, PTL

\* No call loses the adjacency of an edge or lets two edges share a property:
\* the entries in use name every edge exactly once.
THEOREM NamesCorrect == Spec => []EdgesNamed
<1>1. IndInv => EdgesNamed
  BY DEF IndInv, GraphsGood, Good, EdgesNamed
<1>2. QED BY <1>1, IndInvHolds, PTL

\* An edge iterator visits every edge that was there when it began, each once,
\* although vertices and edges are added behind and ahead of it.
THEOREM IteratorCorrect == Spec => []VisitsEveryEdge
<1>1. IndInv => VisitsEveryEdge
  <2>1. SUFFICES ASSUME IndInv, it.on, it.ended
                 PROVE  0 .. it.atStart - 1 \subseteq it.seen /\ ~it.astray
    BY DEF VisitsEveryEdge
  <2>2. QED BY <2>1, IteratorIs DEF IterOK
<1>2. QED BY <1>1, IndInvHolds, PTL

-----------------------------------------------------------------------------
(* The graphs implement the multigraphs.                                   *)

\* The edge that a position names.
EdgeAt(g, k, p) == [src |-> p[1], dst |-> EntryAt(g, p).vid, prop |-> g.e[k + 1]]

LEMMA AsEdgeIs ==
  ASSUME NEW g, NEW k, NEW p, Named(g, k, p)
  PROVE  AsEdge(g, k) = EdgeAt(g, k, p)
<1> DEFINE ps == {q \in Positions(g) : EntryAt(g, q).eid = k}
<1>1. ps = {p}
  BY DEF Named
<1>2. Cardinality(ps) = 1
  BY <1>1, FS_Singleton
<1>3. (CHOOSE q \in ps : TRUE) = p
  BY <1>1
<1> HIDE DEF ps
<1>4. AsEdge(g, k) = IF Cardinality(ps) # 1 THEN Unset
                     ELSE LET q == CHOOSE q \in ps : TRUE
                          IN [src |-> q[1], dst |-> EntryAt(g, q).vid, prop |-> g.e[k + 1]]
  BY DEF AsEdge, ps
<1>5. QED BY <1>2, <1>3, <1>4 DEF EdgeAt

\* What a reader of g sees, as a sequence of edges.
EdgesOf(g) == [k \in 1 .. Len(g.e) |-> AsEdge(g, k - 1)]

LEMMA EdgesAreKept ==
  ASSUME NEW g, NEW h, Good(g), Positions(h) = Positions(g), h.e = g.e,
         \A p \in Positions(g) : EntryAt(h, p) = EntryAt(g, p)
  PROVE  EdgesOf(h) = EdgesOf(g)
<1>1. ASSUME NEW k \in 1 .. Len(g.e)
      PROVE  AsEdge(h, k - 1) = AsEdge(g, k - 1)
  <2>1. Len(g.e) \in Nat
    BY DEF Good, GraphRec
  <2>2. k - 1 \in 0 .. Len(g.e) - 1
    BY <2>1
  <2>3. PICK p \in Positions(g) : Named(g, k - 1, p)
    BY <2>2 DEF Good, EdgesNamedOnce, Named
  <2>4. Named(h, k - 1, p)
    BY <2>3 DEF Named
  <2>5. EdgeAt(h, k - 1, p) = EdgeAt(g, k - 1, p)
    BY DEF EdgeAt
  <2>6. QED BY <2>3, <2>4, <2>5, AsEdgeIs
<1>2. QED BY <1>1 DEF EdgesOf

LEMMA FunctionIsSeq ==
  ASSUME NEW S, NEW n \in Nat, NEW f \in [1 .. n -> S]
  PROVE  f \in Seq(S)
OBVIOUS

LEMMA EdgeIsAppended ==
  ASSUME NEW g, NEW h, Good(g), NEW a, NEW b, NEW p \in Value, EdgeNamed(g, a, b, p, h)
  PROVE  EdgesOf(h) = Append(EdgesOf(g), [src |-> a, dst |-> b, prop |-> p])
<1> DEFINE at == <<a, getNChilds(g, a)>>
           n == Len(g.e)
           new == [src |-> a, dst |-> b, prop |-> p]
<1>1. /\ n \in Nat /\ g.e \in Seq(Value) /\ h.e = Append(g.e, p)
      /\ \A q \in Positions(g) : EntryAt(g, q).eid \in 0 .. n - 1
      /\ EntryAt(h, at) = [vid |-> b, eid |-> n] /\ at \in Positions(h)
      /\ Positions(h) = Positions(g) \union {at}
      /\ \A q \in Positions(g) : EntryAt(h, q) = EntryAt(g, q)
  BY DEF Good, GraphRec, EdgesNamedOnce, EdgeNamed
<1> HIDE DEF at
<1>2. Len(h.e) = n + 1 /\ h.e[n + 1] = p /\ \A k \in 1 .. n : h.e[k] = g.e[k]
  BY <1>1
<1>3. AsEdge(h, n) = new
  <2>1. Named(h, n, at)
    BY <1>1 DEF Named
  <2>2. EdgeAt(h, n, at) = new
    BY <1>1, <1>2 DEF EdgeAt, at
  <2>3. QED BY <2>1, <2>2, AsEdgeIs
<1>4. ASSUME NEW k \in 1 .. n
      PROVE  AsEdge(h, k - 1) = AsEdge(g, k - 1)
  <2>1. k - 1 \in 0 .. n - 1 /\ k - 1 # n /\ (k - 1) + 1 = k
    BY <1>1
  <2>2. PICK q \in Positions(g) : Named(g, k - 1, q)
    BY <2>1 DEF Good, EdgesNamedOnce, Named
  <2>3. Named(h, k - 1, q)
    BY <2>1, <2>2, <1>1 DEF Named
  <2>4. EdgeAt(h, k - 1, q) = EdgeAt(g, k - 1, q)
    BY <2>1, <1>1, <1>2 DEF EdgeAt
  <2>5. QED BY <2>2, <2>3, <2>4, AsEdgeIs
<1> HIDE DEF new
<1>5. EdgesOf(g) = [k \in 1 .. n |-> AsEdge(g, k - 1)] /\ EdgesOf(h) = [k \in 1 .. n + 1 |-> AsEdge(h, k - 1)]
  BY <1>2 DEF EdgesOf
<1>6. Len(EdgesOf(g)) = n /\ DOMAIN EdgesOf(g) = 1 .. n
  BY <1>1, <1>5
<1> DEFINE S == {AsEdge(h, k - 1) : k \in 1 .. n + 1} \union {AsEdge(g, k - 1) : k \in 1 .. n}
<1>7. EdgesOf(g) \in Seq(S) /\ EdgesOf(h) \in Seq(S) /\ new \in S
  <2>1. \A k \in 1 .. n : AsEdge(g, k - 1) \in S
    OBVIOUS
  <2>2. \A k \in 1 .. n + 1 : AsEdge(h, k - 1) \in S
    OBVIOUS
  <2>3. n + 1 \in 1 .. n + 1 /\ (n + 1) - 1 = n
    BY <1>1
  <2>4. new \in S
    BY <2>2, <2>3, <1>3
  <2> HIDE DEF S
  <2>5. EdgesOf(g) \in [1 .. n -> S]
    BY <1>5, <2>1
  <2>6. PICK m \in Nat : m = n + 1
    BY <1>1
  <2>7. EdgesOf(h) \in [1 .. m -> S]
    BY <1>5, <2>2, <2>6
  <2>8. EdgesOf(g) \in Seq(S) /\ EdgesOf(h) \in Seq(S)
    <3>1. n \in Nat
      BY <1>1
    <3>2. QED BY <2>5, <2>7, <3>1, FunctionIsSeq
  <2>9. QED BY <2>4, <2>8
<1> HIDE DEF S
<1>8. \A k \in 1 .. n + 1 : AsEdge(h, k - 1) = IF k <= n THEN EdgesOf(g)[k] ELSE new
  <2>1. TAKE k \in 1 .. n + 1
  <2>2. CASE k \in 1 .. n
    BY <2>2, <1>1, <1>4, <1>5
  <2>3. CASE k = n + 1
    <3>1. k - 1 = n /\ ~(k <= n)
      BY <2>3, <1>1
    <3>2. QED BY <3>1, <1>3
  <2>4. QED BY <2>2, <2>3, <1>1
<1>9. /\ Append(EdgesOf(g), new) \in Seq(S)
      /\ Len(Append(EdgesOf(g), new)) = n + 1
      /\ \A k \in 1 .. n + 1 : Append(EdgesOf(g), new)[k] = IF k <= n THEN EdgesOf(g)[k] ELSE new
  BY <1>1, <1>6, <1>7
<1>10. Len(EdgesOf(h)) = n + 1 /\ \A k \in 1 .. n + 1 : EdgesOf(h)[k] = AsEdge(h, k - 1)
  BY <1>5, <1>1
<1>11. \A k \in 1 .. n + 1 : EdgesOf(h)[k] = Append(EdgesOf(g), new)[k]
  BY <1>8, <1>9, <1>10
<1>12. EdgesOf(h) = Append(EdgesOf(g), new)
  BY <1>7, <1>9, <1>10, <1>11, SeqEqual
<1>13. QED BY <1>12 DEF new

LEMMA MultigraphIs ==
  ASSUME NEW g
  PROVE  AsMultigraph(g) = [vs |-> g.v, es |-> EdgesOf(g)]
BY DEF AsMultigraph, EdgesOf

-----------------------------------------------------------------------------

\* The operations on one graph are those of the multigraph.
LEMMA NewIsNew ==
  ASSUME NEW g, g.v \in Seq({Unset}), g.e = << >>
  PROVE  Multi!IsNew(AsMultigraph(g))
<1>1. EdgesOf(g) = << >>
  BY DEF EdgesOf
<1>2. QED BY <1>1, MultigraphIs DEF Multi!IsNew

LEMMA AddVertexRefines ==
  ASSUME NEW g, Good(g), Allocated(g), NEW p \in Value
  PROVE  Multi!AddVertex(AsMultigraph(g), AsMultigraph(addVertex(g, p)))
<1>1. PICK h : h = addVertex(g, p)
  OBVIOUS
<1>2. /\ Positions(h) = Positions(g) /\ h.e = g.e /\ h.v = Append(g.v, p)
      /\ \A q \in Positions(g) : EntryAt(h, q) = EntryAt(g, q)
  BY <1>1, AddVertexGood
<1>3. EdgesOf(h) = EdgesOf(g)
  BY <1>2, EdgesAreKept
<1>4. Multi!AddVertex(AsMultigraph(g), AsMultigraph(h))
  BY <1>2, <1>3, MultigraphIs DEF Multi!AddVertex, Multi!Value, Value
<1>5. QED BY <1>1, <1>4

LEMMA AddEdgeRefines ==
  ASSUME NEW g, Good(g), NEW a \in Vertices(g), NEW b \in Vertices(g), FreeSlot(g, a),
         NEW p \in Value
  PROVE  Multi!AddEdge(AsMultigraph(g), AsMultigraph(addEdge(g, a, b, p)))
<1>1. PICK h : h = addEdge(g, a, b, p)
  OBVIOUS
<1>2. EdgeNamed(g, a, b, p, h)
  BY <1>1, AddEdgeGood
<1>3. EdgesOf(h) = Append(EdgesOf(g), [src |-> a, dst |-> b, prop |-> p])
  BY <1>2, EdgeIsAppended
<1>4. h.v = g.v
  BY <1>2 DEF EdgeNamed
<1>5. Multi!AddEdge(AsMultigraph(g), AsMultigraph(h))
  <2>1. /\ AsMultigraph(h).vs = AsMultigraph(g).vs
        /\ AsMultigraph(h).es = Append(AsMultigraph(g).es, [src |-> a, dst |-> b, prop |-> p])
    BY <1>3, <1>4, MultigraphIs
  <2>2. a \in Multi!Vertices(AsMultigraph(g)) /\ b \in Multi!Vertices(AsMultigraph(g))
    BY MultigraphIs DEF Multi!Vertices, Vertices
  <2>3. p \in Multi!Value
    BY DEF Multi!Value, Value
  <2>4. QED BY <2>1, <2>2, <2>3 DEF Multi!AddEdge
<1>6. QED BY <1>1, <1>5

LEMMA RefusedRefines ==
  ASSUME NEW g, Good(g), NEW a, NEW p \in Value
  PROVE  AsMultigraph(addEdgeChecked(g, a, Len(g.v), p)) = AsMultigraph(g)
<1>1. PICK h : h = addEdgeChecked(g, a, Len(g.v), p)
  OBVIOUS
<1>2. /\ h.v_slot = g.v_slot /\ h.v = g.v /\ h.v_l = g.v_l /\ h.e = g.e /\ h.e_l = g.e_l
  BY <1>1, RefusedIs
<1>3. Positions(h) = Positions(g) /\ \A q : EntryAt(h, q) = EntryAt(g, q)
  BY <1>2, SameLayout
<1>4. EdgesOf(h) = EdgesOf(g)
  BY <1>2, <1>3, EdgesAreKept
<1>5. QED BY <1>1, <1>2, <1>4, MultigraphIs

\* What the graphs look like together.
View == [x \in Graphs |-> AsMultigraph(graph[x])]

\* A step on graph x is a step on multigraph x.
LEMMA ChangeIsStep ==
  ASSUME IndInv, NEW x \in Graphs, NEW h, graph' = [graph EXCEPT ![x] = h],
         Multi!Change(AsMultigraph(graph[x]), AsMultigraph(h))
  PROVE  Multi!Step(View, View')
<1>1. DOMAIN graph = Graphs
  BY DEF IndInv, GraphsGood
<1>2. graph'[x] = h /\ \A y \in Graphs \ {x} : graph'[y] = graph[y]
  BY <1>1
<1>3. /\ View[x] = AsMultigraph(graph[x]) /\ View'[x] = AsMultigraph(h)
      /\ \A y \in Graphs \ {x} : View'[y] = View[y]
  BY <1>2 DEF View
<1>4. Multi!Change(View[x], View'[x])
  BY <1>3
<1>5. QED BY <1>3, <1>4 DEF Multi!Step

LEMMA SwapIsStep ==
  ASSUME IndInv, NEW x \in Graphs, NEW y \in Graphs,
         graph' = [graph EXCEPT ![x] = graph[y], ![y] = graph[x]]
  PROVE  Multi!Step(View, View')
<1>1. DOMAIN graph = Graphs
  BY DEF IndInv, GraphsGood
<1>2. /\ graph'[y] = graph[x] /\ (x # y => graph'[x] = graph[y])
      /\ \A z \in Graphs \ {x, y} : graph'[z] = graph[z]
  BY <1>1
<1>3. View' = [View EXCEPT ![x] = View[y], ![y] = View[x]]
  <2>1. /\ View'[y] = View[x] /\ (x # y => View'[x] = View[y])
        /\ \A z \in Graphs \ {x, y} : View'[z] = View[z]
    <3>1. \A z \in Graphs : View[z] = AsMultigraph(graph[z]) /\ View'[z] = AsMultigraph(graph'[z])
      BY DEF View
    <3> HIDE DEF View
    <3>2. QED BY <1>2, <3>1
  <2>2. /\ DOMAIN View' = Graphs /\ View' = [z \in Graphs |-> View'[z]]
        /\ DOMAIN View = Graphs /\ View = [z \in Graphs |-> View[z]]
    BY DEF View
  <2> HIDE DEF View
  <2>3. QED BY <2>1, <2>2
<1>4. QED BY <1>3 DEF Multi!Step

LEMMA AssignIsStep ==
  ASSUME IndInv, NEW x \in Graphs, NEW y \in Graphs, graph' = [graph EXCEPT ![x] = graph[y]]
  PROVE  Multi!Step(View, View')
<1>1. DOMAIN graph = Graphs
  BY DEF IndInv, GraphsGood
<1>2. graph'[x] = graph[y] /\ \A z \in Graphs \ {x} : graph'[z] = graph[z]
  BY <1>1
<1>3. View'[x] = View[y] /\ \A z \in Graphs \ {x} : View'[z] = View[z]
  BY <1>2 DEF View
<1>4. QED BY <1>3 DEF Multi!Step

LEMMA CallRefines ==
  ASSUME IndInv, NEW x \in Graphs,
         New(x) \/ AddVertex(x) \/ AddEdge(x) \/ AddEdgeRefused(x) \/ Clear(x)
  PROVE  Multi!Step(View, View') \/ View' = View
<1>1. Good(graph[x])
  BY DEF IndInv, GraphsGood
<1>2. PICK g : g = graph[x]
  OBVIOUS
<1>3. Good(g)
  BY <1>1, <1>2
<1>4. CASE New(x)
  <2>1. PICK n \in News : graph' = [graph EXCEPT ![x] = Graph_CSR(n[1], n[2])]
    BY <1>4 DEF New
  <2>2. PICK h : h = Graph_CSR(n[1], n[2])
    OBVIOUS
  <2>3. h.v = [i \in 1 .. n[1] |-> Unset] /\ h.e = << >> /\ n[1] \in Nat
    BY <2>1, <2>2, GraphAssumption DEF Graph_CSR
  <2>4. h.v \in Seq({Unset})
    BY <2>3
  <2>5. Multi!Change(AsMultigraph(graph[x]), AsMultigraph(h))
    BY <2>3, <2>4, NewIsNew DEF Multi!Change
  <2>6. QED BY <2>1, <2>2, <2>5, ChangeIsStep
<1>5. CASE Clear(x)
  <2>1. PICK h : h = clear(graph[x])
    OBVIOUS
  <2>2. h.v = << >> /\ h.e = << >>
    BY <2>1, <1>1 DEF clear, Good, GraphRec
  <2>3. h.v \in Seq({Unset})
    BY <2>2
  <2>4. Multi!Change(AsMultigraph(graph[x]), AsMultigraph(h))
    BY <2>2, <2>3, NewIsNew DEF Multi!Change
  <2>5. graph' = [graph EXCEPT ![x] = h]
    BY <2>1, <1>5 DEF Clear
  <2>6. QED BY <2>4, <2>5, ChangeIsStep
<1>6. CASE AddVertex(x)
  <2>1. PICK p \in client.writes : graph' = [graph EXCEPT ![x] = addVertex(@, p)]
    BY <1>6 DEF AddVertex
  <2>2. p \in Value /\ Allocated(g)
    BY <2>1, <1>2, <1>6, GraphAssumption DEF IndInv, AddVertex
  <2>3. Multi!Change(AsMultigraph(g), AsMultigraph(addVertex(g, p)))
    BY <2>2, <1>3, AddVertexRefines DEF Multi!Change
  <2>4. graph' = [graph EXCEPT ![x] = addVertex(g, p)]
    BY <2>1, <1>2
  <2>5. QED BY <2>3, <2>4, <1>2, ChangeIsStep
<1>7. CASE AddEdge(x)
  <2>1. PICK a \in Vertices(graph[x]), b \in Vertices(graph[x]), p \in client.writes :
          FreeSlot(graph[x], a) /\ graph' = [graph EXCEPT ![x] = addEdge(@, a, b, p)]
    BY <1>7 DEF AddEdge
  <2>2. p \in Value /\ a \in Vertices(g) /\ b \in Vertices(g) /\ FreeSlot(g, a)
    BY <2>1, <1>2, GraphAssumption DEF IndInv
  <2>3. Multi!AddEdge(AsMultigraph(g), AsMultigraph(addEdge(g, a, b, p)))
    BY <2>2, <1>3, AddEdgeRefines
  <2>4. Multi!Change(AsMultigraph(g), AsMultigraph(addEdge(g, a, b, p)))
    BY <2>3 DEF Multi!Change
  <2>5. graph' = [graph EXCEPT ![x] = addEdge(g, a, b, p)]
    BY <2>1, <1>2
  <2>6. QED BY <2>4, <2>5, <1>2, ChangeIsStep
<1>8. CASE AddEdgeRefused(x)
  <2>1. PICK a \in Vertices(graph[x]), p \in client.writes :
          graph' = [graph EXCEPT ![x] = addEdgeChecked(@, a, Len(graph[x].v), p)]
    BY <1>8 DEF AddEdgeRefused
  <2>2. p \in Value
    BY <2>1, GraphAssumption DEF IndInv
  <2>3. PICK h : h = addEdgeChecked(g, a, Len(g.v), p)
    OBVIOUS
  <2>4. AsMultigraph(h) = AsMultigraph(g)
    BY <2>2, <2>3, <1>3, RefusedRefines
  <2>5. graph' = [graph EXCEPT ![x] = h] /\ DOMAIN graph = Graphs
    BY <2>1, <2>3, <1>2 DEF IndInv, GraphsGood
  <2>6. \A y \in Graphs : AsMultigraph(graph'[y]) = AsMultigraph(graph[y])
    BY <2>4, <2>5, <1>2
  <2>7. QED BY <2>6 DEF View
<1>9. QED BY <1>4, <1>5, <1>6, <1>7, <1>8

LEMMA NextRefines == IndInv /\ [Next]_vars => Multi!Step(View, View') \/ View' = View
<1> SUFFICES ASSUME IndInv, [Next]_vars
             PROVE  Multi!Step(View, View') \/ View' = View
  OBVIOUS
<1>1. client.uses \subseteq Graphs
  BY GraphAssumption DEF IndInv
<1>2. ASSUME NEW x \in client.uses,
             New(x) \/ AddVertex(x) \/ AddEdge(x) \/ AddEdgeRefused(x) \/ Clear(x)
      PROVE  Multi!Step(View, View') \/ View' = View
  BY <1>1, <1>2, CallRefines
<1>3. ASSUME NEW x \in client.uses, NEW y \in client.uses,
             Assign(x, y) \/ Swap(x, y) \/ MoveAssign(x, y)
      PROVE  Multi!Step(View, View')
  <2>1. x \in Graphs /\ y \in Graphs
    BY <1>1
  <2>2. CASE Assign(x, y)
    BY <2>1, <2>2, AssignIsStep DEF Assign
  <2>3. CASE Swap(x, y)
    BY <2>1, <2>3, SwapIsStep DEF Swap
  <2>4. CASE MoveAssign(x, y)
    BY <2>1, <2>4, MoveIsSwap, SwapIsStep
  <2>5. QED BY <1>3, <2>2, <2>3, <2>4
<1>4. ASSUME UNCHANGED graph PROVE View' = View
  BY <1>4 DEF View
<1>5. CASE NextEdge \/ EndEdges \/ (\E x \in client.uses : BeginEdges(x)) \/ UNCHANGED vars
  BY <1>4, <1>5 DEF NextEdge, EndEdges, BeginEdges, vars
<1>6. QED BY <1>2, <1>3, <1>5 DEF Next

LEMMA InitRefines == Init => Multi!Init
<1> SUFFICES ASSUME Init PROVE Multi!Init
  OBVIOUS
<1>1. PICK n \in News : graph = [x \in Graphs |-> Graph_CSR(0, n[2])]
  BY DEF Init
<1>2. ASSUME NEW x \in Graphs PROVE Multi!IsNew(View[x])
  <2>1. PICK g : g = Graph_CSR(0, n[2])
    OBVIOUS
  <2>2. g.e = << >> /\ g.v = [i \in 1 .. 0 |-> Unset]
    BY <2>1 DEF Graph_CSR
  <2>3. g.v \in Seq({Unset})
    BY <2>2
  <2>4. Multi!IsNew(AsMultigraph(g))
    BY <2>2, <2>3, NewIsNew
  <2>5. View[x] = AsMultigraph(g)
    BY <1>1, <2>1 DEF View
  <2>6. QED BY <2>4, <2>5
<1>3. QED BY <1>2 DEF Multi!Init, View

\* However the adjacency is laid out, allocated, copied, swapped or moved, the
\* graphs are multigraphs: each call does to the vertices, the end points and
\* the properties what it says, and the iterator does nothing.
THEOREM GraphImplementsMultigraph == Spec => ImplementsMultigraph
<1>1. Init => Multi!Init
  BY InitRefines
<1>2. IndInv /\ [Next]_vars => Multi!Next \/ View' = View
  BY NextRefines DEF Multi!Next, View
<1>3. IndInv /\ [Next]_vars => [Multi!Next]_([x \in Graphs |-> AsMultigraph(graph[x])])
  BY <1>2 DEF View
<1>4. QED BY <1>1, <1>3, IndInvHolds, PTL DEF Spec, ImplementsMultigraph, Multi!Spec

=============================================================================
