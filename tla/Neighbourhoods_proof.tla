------------------------- MODULE Neighbourhoods_proof -------------------------
(***************************************************************************)
(* Proofs about CellList and VerletList, which is built from it, for any   *)
(* boxes, cells, lists, particles, points, radii, cut-offs, frames, phases *)
(* and clients.  The cell list: a particle is in a cell whose box contains *)
(* it, a list stores a particle once, and the radius neighbourhood of a    *)
(* list that is not nested meets every near particle once.  The Verlet     *)
(* list: the full lists are exact, a pair of near particles is in one of   *)
(* two symmetric lists, once, and the CRS scheme finds every pair that     *)
(* touches the domain.                                                     *)
(***************************************************************************)
EXTENDS VerletList, SequenceTheorems, FiniteSetTheorems, TLAPS

-----------------------------------------------------------------------------
(* Whole numbers.                                                          *)

\* Division rounds down.
LEMMA DivBounds ==
  ASSUME NEW x \in Int, NEW u \in Nat \ {0}
  PROVE  /\ x \div u \in Int
         /\ u * (x \div u) <= x /\ x < u * (x \div u) + u
BY SMT

\* The part below one, so that products of u are compared by their factors.
LEMMA TimesCancels ==
  ASSUME NEW a \in Int, NEW b \in Int, NEW u \in Nat \ {0}, u * a < u * b
  PROVE  a < b
<1>1. SUFFICES ASSUME b <= a PROVE FALSE
  BY SMT
<1>2. u * (a - b) \in Nat /\ u * (a - b) = u * a - u * b
  BY <1>1, SMT
<1>3. QED BY <1>2, SMT

LEMMA TimesOne ==
  ASSUME NEW a \in Int, NEW u \in Nat \ {0}
  PROVE  /\ u * a \in Int
         /\ u * (a + 1) = u * a + u /\ u * (a - 1) = u * a - u
BY SMT

LEMMA TimesSum ==
  ASSUME NEW a \in Int, NEW b \in Int, NEW u \in Nat \ {0}
  PROVE  /\ u * a \in Int /\ u * b \in Int
         /\ u * (a + b) = u * a + u * b /\ u * (a - b) = u * a - u * b
BY SMT

\* The square of a distance is no smaller than that of a shorter one.
LEMMA SquareGrows ==
  ASSUME NEW a \in Nat, NEW b \in Int, a <= b \/ a <= -b
  PROVE  a * a <= b * b /\ a * a \in Nat
<1>1. CASE a <= b
  <2>1. a * (b - a) \in Nat /\ a * (b - a) = a * b - a * a
    BY <1>1, SMT
  <2>2. b * (b - a) \in Nat /\ b * (b - a) = b * b - a * b
    BY <1>1, SMT
  <2>3. a * a \in Nat /\ a * b \in Int /\ b * b \in Int
    BY SMT
  <2>4. QED BY <2>1, <2>2, <2>3, SMT
<1>2. CASE a <= -b
  <2>1. a * (-b - a) \in Nat /\ a * (-b - a) = -(a * b) - a * a
    BY <1>2, SMT
  <2>2. -b * (-b - a) \in Nat /\ -b * (-b - a) = b * b + a * b
    BY <1>2, SMT
  <2>3. a * a \in Nat /\ a * b \in Int /\ b * b \in Int
    BY SMT
  <2>4. QED BY <2>1, <2>2, <2>3, SMT
<1>3. QED BY <1>1, <1>2

\* The floor of a negative coordinate is one below the last cell.
LEMMA FloorBounds ==
  ASSUME NEW x \in Int, NEW u \in Nat \ {0}
  PROVE  /\ SizeTFloor(x, u) \in Int
         /\ u * SizeTFloor(x, u) <= x /\ x <= u * SizeTFloor(x, u) + u
         /\ x >= 0 => x < u * SizeTFloor(x, u) + u
         /\ x < 0 => u * SizeTFloor(x, u) < x
<1>1. CASE x >= 0
  <2>1. SizeTFloor(x, u) = x \div u
    BY <1>1 DEF SizeTFloor
  <2>2. QED BY <2>1, <1>1, DivBounds, SMT
<1>2. CASE x < 0
  <2> DEFINE m == (-x) \div u
  <2>1. SizeTFloor(x, u) = -m - 1
    BY <1>2, SMT DEF SizeTFloor
  <2>2. -x \in Int
    BY SMT
  <2>3. m \in Int /\ u * m <= -x /\ -x < u * m + u
    BY <2>2, DivBounds
  <2> HIDE DEF m
  <2>4. u * (-m - 1) = -(u * m) - u /\ u * m \in Int
    BY <2>3, SMT
  <2>5. QED BY <2>1, <2>3, <2>4, <1>2, SMT
<1>3. QED BY <1>1, <1>2, SMT

\* The ceiling is the first multiple that is not below.
LEMMA CeilBounds ==
  ASSUME NEW x \in Int, NEW u \in Nat \ {0}
  PROVE  /\ Ceil(x, u) \in Int
         /\ x <= u * Ceil(x, u) /\ u * Ceil(x, u) < x + u
<1> DEFINE m == (-x) \div u
<1>1. -x \in Int
  BY SMT
<1>2. m \in Int /\ u * m <= -x /\ -x < u * m + u
  BY <1>1, DivBounds
<1>3. Ceil(x, u) = -m
  BY DEF Ceil
<1> HIDE DEF m
<1>4. u * (-m) = -(u * m) /\ u * m \in Int
  BY <1>2, SMT
<1>5. QED BY <1>2, <1>3, <1>4, SMT

-----------------------------------------------------------------------------
(* Decompositions.                                                         *)

\* The nested cells of a decomposition lie in those of its box.
Sound(g) ==
  /\ g.off \in Nat \ {0}
  /\ \A s \in Dims :
       /\ g.low[s] \in Int /\ g.unit[s] \in Nat \ {0}
       /\ g.div[s] \in Nat \ {0} /\ g.div2[s] \in Nat /\ g.cell_shift[s] \in Nat
       /\ g.cell_shift[s] + g.div2[s] <= g.div[s]

LEMMA TwoDims ==
  ASSUME NEW s \in Dims
  PROVE  s = 1 \/ s = 2
BY SMT DEF Dims

\* A decomposition that is not nested, and a part of its box.
Unnested(g) ==
  /\ g = Whole(g.low, g.unit, g.div, g.off) /\ g.off \in Nat \ {0}
  /\ \A s \in Dims : g.low[s] \in Int /\ g.unit[s] \in Nat \ {0} /\ g.div[s] \in Nat \ {0}

PartOf(b, g) ==
  \A s \in Dims :
    /\ b.low[s] \in Int /\ b.high[s] \in Int /\ b.low[s] <= b.high[s]
    /\ g.low[s] <= b.low[s] /\ b.high[s] <= High(g, s)

LEMMA GivenUnnested ==
  /\ \A g \in Decompositions : Unnested(g)
  /\ \A g \in Decompositions, b \in SubBoxes : PartOf(b, g)
BY CellAssumption DEF Unnested, PartOf

LEMMA WholeSound ==
  ASSUME NEW g, Unnested(g)
  PROVE  Sound(g) /\ g.div2 = g.div
<1>1. /\ g = Whole(g.low, g.unit, g.div, g.off) /\ g.off \in Nat \ {0}
      /\ \A s \in Dims : g.low[s] \in Int /\ g.unit[s] \in Nat \ {0} /\ g.div[s] \in Nat \ {0}
  BY DEF Unnested
<1>2. g.div2 = g.div /\ g.cell_shift = <<0, 0>>
  BY <1>1 DEF Whole
<1>3. \A s \in Dims : g.cell_shift[s] = 0
  BY <1>2, SMT DEF Dims
<1>4. QED BY <1>1, <1>2, <1>3, SMT DEF Sound

\* The border cells of a part of the box, in cells without the padding: the
\* borders of the box are no special case, and the part has no cells outside.
LEMMA CellUnits ==
  ASSUME NEW g, Unnested(g), NEW b, PartOf(b, g), NEW s \in Dims
  PROVE  \E l, h \in Nat :
           /\ ToCellUnits(g, b).low[s] = l + g.off
           /\ ToCellUnits(g, b).high[s] = h + g.off
           /\ l <= h /\ h <= g.div[s]
<1> DEFINE u == g.unit[s]
           n == g.div[s]
           x == b.low[s] - g.low[s]
           y == b.high[s] - g.low[s]
           l == x \div u
           h == Ceil(y, u)
<1>1. u \in Nat \ {0} /\ n \in Nat \ {0} /\ g.off \in Nat \ {0} /\ g.low[s] \in Int
  BY WholeSound DEF Sound
<1>2. /\ b.low[s] \in Int /\ b.high[s] \in Int /\ b.low[s] <= b.high[s]
      /\ g.low[s] <= b.low[s] /\ b.high[s] <= g.low[s] + u * n
  BY DEF PartOf, High
<1>3. x \in Int /\ y \in Int /\ 0 <= x /\ x <= y /\ y <= u * n
  <2>1. u * n \in Int
    BY <1>1, SMT
  <2>2. QED BY <1>1, <1>2, <2>1, SMT
<1>4. l \in Int /\ u * l <= x /\ x < u * l + u
  BY <1>1, <1>3, DivBounds
<1>5. h \in Int /\ y <= u * h /\ u * h < y + u
  BY <1>1, <1>3, CeilBounds
<1>6. High(g, s) # g.low[s]
  <2>1. u * n \in Nat \ {0}
    BY <1>1, SMT
  <2>2. QED BY <1>1, <2>1, SMT DEF High
<1>7. /\ ToCellUnits(g, b).low[s] =
           CASE b.low[s] = g.low[s] -> g.off
             [] b.low[s] = High(g, s) -> Size(g, s) - g.off
             [] OTHER -> l + g.off
      /\ ToCellUnits(g, b).high[s] =
           CASE b.high[s] = g.low[s] -> g.off
             [] b.high[s] = High(g, s) -> Size(g, s) - g.off
             [] OTHER -> h + g.off
  BY DEF ToCellUnits, Floor
<1>8. g.low[s] \in Int /\ b.low[s] \in Int /\ b.high[s] \in Int
  BY <1>1, <1>2
<1>9. (b.low[s] = g.low[s] <=> x = 0) /\ (b.high[s] = g.low[s] <=> y = 0)
  BY <1>8, SMT
<1>10. b.low[s] = High(g, s) <=> x = u * n
  <2>1. u * n \in Int
    BY <1>1, SMT
  <2>2. QED BY <1>1, <1>2, <2>1, SMT DEF High
<1>11. b.high[s] = High(g, s) <=> y = u * n
  <2>1. u * n \in Int
    BY <1>1, SMT
  <2>2. QED BY <1>1, <1>2, <2>1, SMT DEF High
<1>12. Size(g, s) - g.off = n + g.off
  BY <1>1, SMT DEF Size
<1> HIDE DEF u, n, x, y, l, h
<1>13. u * 0 = 0 /\ u * (l + 1) = u * l + u /\ u * (h - 1) = u * h - u
       /\ u * l \in Int /\ u * h \in Int /\ u * n \in Int
  BY <1>1, <1>4, <1>5, SMT
<1>14. 0 < l + 1 /\ h - 1 < n
  <2>1. u * 0 < u * (l + 1) /\ u * (h - 1) < u * n
    BY <1>1, <1>3, <1>4, <1>5, <1>13, SMT
  <2>2. l + 1 \in Int /\ h - 1 \in Int /\ n \in Int /\ 0 \in Int
    BY <1>1, <1>4, <1>5, SMT
  <2>3. QED BY <1>1, <2>1, <2>2, TimesCancels
<1>15. l - 1 < h
  <2>1. u * (l - 1) = u * l - u
    BY <1>1, <1>4, SMT
  <2>2. u * (l - 1) < u * h
    BY <1>1, <1>3, <1>4, <1>5, <1>13, <2>1, SMT
  <2>3. l - 1 \in Int
    BY <1>4, SMT
  <2>4. QED BY <1>1, <1>5, <2>2, <2>3, TimesCancels
<1>16. l \in Nat /\ h \in Nat /\ l <= h /\ h <= n
  BY <1>1, <1>4, <1>5, <1>14, <1>15, SMT
<1>17. x = 0 => l = 0
  <2>1. x = 0 => u * l < u * 1 /\ u * 1 = u
    BY <1>1, <1>4, <1>13, SMT
  <2>2. x = 0 => l < 1
    BY <1>1, <1>4, <2>1, TimesCancels
  <2>3. QED BY <2>2, <1>16, SMT
<1>18. x = u * n => l = n
  <2>1. x = u * n => u * n < u * (l + 1)
    BY <1>1, <1>4, <1>13, SMT
  <2>2. x = u * n => n < l + 1
    <3>1. l + 1 \in Int /\ n \in Int
      BY <1>1, <1>4, SMT
    <3>2. QED BY <1>1, <2>1, <3>1, TimesCancels
  <2>3. QED BY <2>2, <1>16, <1>1, SMT
<1>19. y = 0 => h = 0
  <2>1. y = 0 => u * (h - 1) < u * 0
    BY <1>1, <1>5, <1>13, SMT
  <2>2. y = 0 => h - 1 < 0
    <3>1. h - 1 \in Int /\ 0 \in Int
      BY <1>5, SMT
    <3>2. QED BY <1>1, <2>1, <3>1, TimesCancels
  <2>3. QED BY <2>2, <1>16, SMT
<1>20. y = u * n => h = n
  <2>1. y = u * n => u * (n - 1) < u * h /\ u * (n - 1) = u * n - u
    BY <1>1, <1>5, <1>13, SMT
  <2>2. y = u * n => n - 1 < h
    <3>1. n - 1 \in Int
      BY <1>1, SMT
    <3>2. QED BY <1>1, <1>5, <2>1, <3>1, TimesCancels
  <2>3. QED BY <2>2, <1>16, <1>1, SMT
<1>21. ToCellUnits(g, b).low[s] = l + g.off
  <2>1. b.low[s] = g.low[s] => g.off = l + g.off
    BY <1>1, <1>9, <1>17, SMT
  <2>2. b.low[s] = High(g, s) => Size(g, s) - g.off = l + g.off
    BY <1>10, <1>12, <1>18
  <2>3. QED BY <1>6, <1>7, <2>1, <2>2
<1>22. ToCellUnits(g, b).high[s] = h + g.off
  <2>1. b.high[s] = g.low[s] => g.off = h + g.off
    BY <1>1, <1>9, <1>19, SMT
  <2>2. b.high[s] = High(g, s) => Size(g, s) - g.off = h + g.off
    BY <1>11, <1>12, <1>20
  <2>3. QED BY <1>6, <1>7, <2>1, <2>2
<1>23. h <= g.div[s]
  BY <1>16 DEF n
<1>24. QED BY <1>16, <1>21, <1>22, <1>23

LEMMA NestedSound ==
  ASSUME NEW g, Unnested(g), NEW b, PartOf(b, g)
  PROVE  Sound(Nested(g, b, g.off))
<1> DEFINE bx == ToCellUnits(g, b)
           w == Nested(g, b, g.off)
<1>1. g = Whole(g.low, g.unit, g.div, g.off)
  BY DEF Unnested
<1>2. Sound(g)
  BY WholeSound
<1>3. w = [g EXCEPT !.div2 = [s \in Dims |-> bx.high[s] - bx.low[s]],
                    !.off = g.off,
                    !.cell_shift = [s \in Dims |-> bx.low[s] - g.off]]
  BY DEF Nested
<1> HIDE DEF bx, w
<1>4. /\ w.low = g.low /\ w.unit = g.unit /\ w.div = g.div /\ w.off = g.off
      /\ w.div2 = [s \in Dims |-> bx.high[s] - bx.low[s]]
      /\ w.cell_shift = [s \in Dims |-> bx.low[s] - g.off]
  BY <1>1, <1>3 DEF Whole
<1>5. SUFFICES ASSUME NEW s \in Dims
               PROVE  /\ w.div2[s] \in Nat /\ w.cell_shift[s] \in Nat
                      /\ w.cell_shift[s] + w.div2[s] <= w.div[s]
  BY <1>2, <1>4 DEF Sound, w
<1>6. PICK l, h \in Nat : /\ bx.low[s] = l + g.off /\ bx.high[s] = h + g.off
                          /\ l <= h /\ h <= g.div[s]
  BY CellUnits DEF bx
<1>7. w.div2[s] = bx.high[s] - bx.low[s] /\ w.cell_shift[s] = bx.low[s] - g.off
  BY <1>4
<1>8. g.off \in Nat /\ w.div[s] = g.div[s] /\ g.div[s] \in Nat
  BY <1>2, <1>4 DEF Sound
<1>9. QED BY <1>6, <1>7, <1>8, SMT

-----------------------------------------------------------------------------
(* The cell of a point.                                                    *)

\* In the dimension s, the cell k of gr_cell2 contains pt.
Spans(g, pt, s, k) ==
  /\ k \in 0 .. Size2(g, s) - 1
  /\ InnerLow(g, s) + g.unit[s] * (k - g.off) <= pt[s]
  /\ pt[s] <= InnerLow(g, s) + g.unit[s] * (k - g.off) + g.unit[s]

IntPoint(pt) == \A s \in Dims : pt[s] \in Int

\* In one dimension, with the floor f of the distance t from the corner of the
\* box: the cell of t is one of the nested cells, which begin h cells after
\* those of the box, and contains t; the last point is taken into the last cell.
FloorCell(t, u, o, n) ==
  IF SizeTFloor(t, u) + o \in 0 .. n + 2 * o - 1 THEN SizeTFloor(t, u) + o ELSE n + 2 * o - 1

WithinSpace(u, n, m, h, o, t) ==
  /\ u * h - u * o < t
  /\ \/ t < u * h + u * m + u * o
     \/ t = u * h + u * m + u * o /\ u * h + u * m = u * n

WithinCell(u, m, h, o, t, k) ==
  /\ k \in Int
  /\ k - h \in 0 .. m + 2 * o - 1
  /\ u * h + u * (k - h - o) <= t /\ t <= u * h + u * (k - h - o) + u

LEMMA FloorInSpace ==
  ASSUME NEW u \in Nat \ {0}, NEW n \in Nat \ {0}, NEW m \in Nat, NEW h \in Nat,
         h + m <= n, NEW o \in Nat \ {0}, NEW t \in Int, WithinSpace(u, n, m, h, o, t)
  PROVE  WithinCell(u, m, h, o, t, FloorCell(t, u, o, n))
<1> DEFINE f == SizeTFloor(t, u)
           k == FloorCell(t, u, o, n)
<1>1. h + m <= n
  OBVIOUS
<1>2. /\ u * h \in Int /\ u * o \in Int /\ u * m \in Int /\ u * n \in Int
      /\ u * (h - o) = u * h - u * o /\ u * (h + m + o) = u * h + u * m + u * o
      /\ u * (n + o) = u * n + u * o /\ u * (h + m) = u * h + u * m
  BY SMT
<1>3. /\ u * h - u * o < t
      /\ \/ t < u * h + u * m + u * o
         \/ t = u * h + u * m + u * o /\ u * h + u * m = u * n
  BY DEF WithinSpace
<1>4. k = IF f + o \in 0 .. n + 2 * o - 1 THEN f + o ELSE n + 2 * o - 1
  BY DEF FloorCell
<1>6. /\ f \in Int /\ u * f <= t /\ t <= u * f + u
      /\ t >= 0 => t < u * f + u
      /\ t < 0 => u * f < t
  BY FloorBounds
<1>8. u * (h - o) < t /\ (t < u * (h + m + o) \/ (t = u * (n + o) /\ u * (h + m) = u * n))
  BY <1>2, <1>3, Zenon
<1> HIDE DEF f, k
<1>9. u * (f + 1) = u * f + u /\ u * f \in Int
  BY <1>1, <1>6, SMT
<1>10. h - o <= f
  <2>1. CASE t >= 0
    <3>1. u * (h - o) < u * (f + 1)
      BY <1>1, <1>2, <1>6, <1>8, <1>9, <2>1, SMT
    <3>2. h - o < f + 1
      <4>1. h - o \in Int /\ f + 1 \in Int
        BY <1>1, <1>6, SMT
      <4>2. QED BY <1>1, <3>1, <4>1, TimesCancels
    <3>3. QED BY <1>1, <1>6, <3>2, SMT
  <2>2. CASE t < 0
    <3>1. u * (h - o) < u * (f + 1)
      BY <1>1, <1>2, <1>6, <1>8, <1>9, <2>2, SMT
    <3>2. h - o < f + 1
      <4>1. h - o \in Int /\ f + 1 \in Int
        BY <1>1, <1>6, SMT
      <4>2. QED BY <1>1, <3>1, <4>1, TimesCancels
    <3>3. QED BY <1>1, <1>6, <3>2, SMT
  <2>3. QED BY <2>1, <2>2, SMT
<1>11. CASE t < u * (h + m + o)
  <2>1. u * f < u * (h + m + o)
    BY <1>1, <1>2, <1>6, <1>9, <1>11, SMT
  <2>2. f < h + m + o
    <3>1. h + m + o \in Int
      BY <1>1, SMT
    <3>2. QED BY <1>1, <1>6, <2>1, <3>1, TimesCancels
  <2>3. k = f + o
    BY <1>1, <1>4, <1>6, <1>10, <2>2, SMT
  <2>4. k - h \in 0 .. m + 2 * o - 1 /\ k \in Int
    BY <1>1, <1>6, <1>10, <2>2, <2>3, SMT
  <2>5. u * (k - h - o) = u * f - u * h
    <3>1. k - h - o = f - h
      BY <1>1, <1>6, <2>3, SMT
    <3>2. QED BY <1>1, <1>6, <3>1, TimesSum
  <2>6. /\ u * h + u * (k - h - o) <= t
        /\ t <= u * h + u * (k - h - o) + u
    BY <1>1, <1>2, <1>6, <1>9, <2>5, SMT
  <2>7. QED BY <2>4, <2>6 DEF WithinCell, k
<1>12. CASE t = u * (n + o) /\ u * (h + m) = u * n
  <2>1. h + m = n
    <3>1. h + m \in Int /\ n \in Int
      BY <1>1, SMT
    <3>2. h + m < n => u * (h + m) < u * n
      <4>1. ASSUME h + m < n PROVE u * (n - (h + m)) > 0 /\ u * (n - (h + m)) = u * n - u * (h + m)
        BY <1>1, <4>1, SMT
      <4>2. u * (h + m) \in Int /\ u * n \in Int
        BY <1>1, SMT
      <4>3. QED BY <4>1, <4>2, SMT
    <3>3. u * n \in Int
      BY <1>1, SMT
    <3>4. ~(u * (h + m) < u * n)
      BY <1>12, <3>3, SMT
    <3>5. QED BY <1>1, <3>2, <3>4, SMT
  <2>2. u * (n + o) < u * (f + 1)
    <3>1. u * o \in Nat /\ u * n \in Nat
      BY <1>1, SMT
    <3>2. t >= 0
      BY <1>2, <1>12, <3>1, SMT
    <3>3. QED BY <1>6, <1>9, <1>12, <3>2
  <2>3. n + o < f + 1
    <3>1. n + o \in Int /\ f + 1 \in Int
      BY <1>1, <1>6, SMT
    <3>2. QED BY <1>1, <2>2, <3>1, TimesCancels
  <2>4. k = n + 2 * o - 1
    BY <1>1, <1>4, <1>6, <2>3, SMT
  <2>5. k - h = m + 2 * o - 1 /\ k \in Int /\ k - h - o = n + o - 1 - h
    BY <1>1, <2>1, <2>4, SMT
  <2>6. k - h \in 0 .. m + 2 * o - 1
    BY <1>1, <2>5, SMT
  <2>7. u * (k - h - o) = u * n + u * o - u - u * h
    <3>1. u * (n + o - 1 - h) = u * (n + o - 1) - u * h
      BY <1>1, SMT
    <3>2. u * (n + o - 1) = u * (n + o) - u
      BY <1>1, SMT
    <3>3. QED BY <1>2, <2>5, <3>1, <3>2
  <2>8. /\ u * h + u * (k - h - o) <= t
        /\ t <= u * h + u * (k - h - o) + u
    BY <1>1, <1>2, <1>12, <2>7, SMT
  <2>9. QED BY <2>5, <2>6, <2>8 DEF WithinCell, k
<1>13. QED BY <1>8, <1>11, <1>12

\* A point of the space is in the cell it is converted to.
LEMMA ConvertSpans ==
  ASSUME NEW g, Sound(g), NEW pt, IntPoint(pt), InSpace(g, pt), NEW s \in Dims
  PROVE  /\ ConvertToID_ns(g, pt, s) \in Int
         /\ Spans(g, pt, s, ConvertToID_ns(g, pt, s) - g.cell_shift[s])
<1>1. PICK u, n, m, h, o, low, p :
        /\ u = g.unit[s] /\ n = g.div[s] /\ m = g.div2[s] /\ h = g.cell_shift[s]
        /\ o = g.off /\ low = g.low[s] /\ p = pt[s]
  OBVIOUS
<1>2. /\ u \in Nat \ {0} /\ n \in Nat \ {0} /\ m \in Nat /\ h \in Nat /\ h + m <= n
      /\ o \in Nat \ {0} /\ low \in Int /\ p \in Int
  BY <1>1 DEF Sound, IntPoint
<1>3. InnerLow(g, s) = low + u * h /\ High(g, s) = low + u * n
      /\ InnerHigh(g, s) = low + u * h + u * m
  BY <1>1 DEF InnerLow, InnerHigh, High
<1>4. /\ InnerLow(g, s) - g.unit[s] * g.off < pt[s]
      /\ \/ pt[s] < InnerHigh(g, s) + g.unit[s] * g.off
         \/ pt[s] = InnerHigh(g, s) + g.unit[s] * g.off /\ InnerHigh(g, s) = High(g, s)
  BY DEF InSpace
<1>5. /\ low + u * h - u * o < p
      /\ \/ p < low + u * h + u * m + u * o
         \/ p = low + u * h + u * m + u * o /\ low + u * h + u * m = low + u * n
  <2>1. g.unit[s] * g.off = u * o
    BY <1>1
  <2>2. pt[s] = p
    BY <1>1
  <2>3. QED BY <1>2, <1>3, <1>4, <2>1, <2>2, SMT
<1>6. u * h \in Int /\ u * o \in Int /\ u * m \in Int /\ u * n \in Int
  BY <1>2, SMT
<1>7. PICK t \in Int : t = p - low
  BY <1>2, SMT
<1>8. WithinSpace(u, n, m, h, o, t)
  BY <1>2, <1>5, <1>6, <1>7, SMT DEF WithinSpace
<1>9. PICK k : k = ConvertToID_ns(g, pt, s)
  OBVIOUS
<1>10. k = FloorCell(t, u, o, n)
  <2>1. k = IF SizeTFloor(pt[s] - g.low[s], g.unit[s]) + g.off \in 0 .. Size(g, s) - 1
            THEN SizeTFloor(pt[s] - g.low[s], g.unit[s]) + g.off ELSE Size(g, s) - 1
    BY <1>9, Zenon DEF ConvertToID_ns
  <2>2. Size(g, s) = n + 2 * o
    BY <1>1 DEF Size
  <2>3. pt[s] - g.low[s] = t /\ g.unit[s] = u /\ g.off = o
    BY <1>1, <1>7
  <2>4. QED BY <1>2, <2>1, <2>2, <2>3, SMT DEF FloorCell
<1>11. /\ k \in Int
       /\ k - h \in 0 .. m + 2 * o - 1
       /\ u * h + u * (k - h - o) <= t /\ t <= u * h + u * (k - h - o) + u
  <2>1. WithinCell(u, m, h, o, t, k)
    BY <1>2, <1>3, <1>8, <1>10, FloorInSpace
  <2>2. QED BY <2>1 DEF WithinCell
<1>12. u * (k - h - o) \in Int
  BY <1>2, <1>11, SMT
<1>13. low + u * h + u * (k - h - o) <= p /\ p <= low + u * h + u * (k - h - o) + u
  BY <1>2, <1>6, <1>7, <1>11, <1>12, SMT
<1>14. Spans(g, pt, s, k - h)
  <2>1. Size2(g, s) = m + 2 * o
    BY <1>1 DEF Size2
  <2>2. g.unit[s] = u /\ g.off = o /\ pt[s] = p
    BY <1>1
  <2>3. QED BY <1>2, <1>3, <1>11, <1>13, <2>1, <2>2, SMT DEF Spans
<1>15. QED BY <1>1, <1>9, <1>11, <1>14

\* A cell of a grid of w times v cells has one pair of coordinates.
LEMMA Decodes ==
  ASSUME NEW w \in Nat, NEW v \in Nat, NEW i \in 0 .. w - 1, NEW j \in 0 .. v - 1
  PROVE  i + w * j \in 0 .. w * v - 1 /\ (i + w * j) % w = i /\ (i + w * j) \div w = j
<1>0. PICK c \in Int : c = i + w * j
  BY SMT
<1>1. w \in Nat \ {0} /\ i \in Nat /\ j \in Nat /\ j + 1 <= v
  BY SMT
<1>2. w * j \in Nat /\ w * v \in Nat /\ w * (j + 1) = w * j + w
  BY <1>1, SMT
<1>3. w * (j + 1) <= w * v
  <2>1. w * (v - (j + 1)) \in Nat /\ w * (v - (j + 1)) = w * v - w * (j + 1)
    BY <1>1, SMT
  <2>2. QED BY <1>2, <2>1, SMT
<1> DEFINE q == c \div w
           r == c % w
<1>4. c = w * q + r /\ r \in 0 .. w - 1 /\ q \in Int
  BY <1>1, SMT
<1> HIDE DEF q, r
<1>5. w * q \in Int /\ w * (q + 1) = w * q + w
  BY <1>1, <1>4, SMT
<1>6. q < j + 1
  <2>1. w * q < w * (j + 1)
    BY <1>0, <1>1, <1>2, <1>4, <1>5, SMT
  <2>2. j + 1 \in Int
    BY <1>1, SMT
  <2>3. QED BY <1>1, <1>4, <2>1, <2>2, TimesCancels
<1>7. j < q + 1
  <2>1. w * j < w * (q + 1)
    BY <1>0, <1>1, <1>2, <1>4, <1>5, SMT
  <2>2. q + 1 \in Int /\ j \in Int
    BY <1>1, <1>4, SMT
  <2>3. QED BY <1>1, <2>1, <2>2, TimesCancels
<1>8. q = j
  BY <1>1, <1>4, <1>6, <1>7, SMT
<1>9. r = i
  BY <1>0, <1>2, <1>4, <1>8, SMT
<1>10. c \in 0 .. w * v - 1
  BY <1>0, <1>1, <1>2, <1>3, SMT
<1>11. QED BY <1>0, <1>8, <1>9, <1>10 DEF q, r

LEMMA SizesTyped ==
  ASSUME NEW g, Sound(g)
  PROVE  \A s \in Dims : Size(g, s) \in Nat \ {0} /\ Size2(g, s) \in Nat \ {0}
                         /\ InnerLow(g, s) \in Int /\ g.unit[s] \in Nat \ {0}
                         /\ g.off \in Nat \ {0} /\ g.cell_shift[s] \in Nat
<1>1. SUFFICES ASSUME NEW s \in Dims
               PROVE  Size(g, s) \in Nat \ {0} /\ Size2(g, s) \in Nat \ {0}
                      /\ InnerLow(g, s) \in Int
  BY DEF Sound
<1>2. /\ g.unit[s] \in Nat \ {0} /\ g.div[s] \in Nat \ {0} /\ g.div2[s] \in Nat
      /\ g.cell_shift[s] \in Nat /\ g.off \in Nat \ {0} /\ g.low[s] \in Int
  BY DEF Sound
<1>3. QED BY <1>2, SMT DEF Size, Size2, InnerLow

\* The cell with the coordinates i and j that contain pt stores it, and is a
\* cell of the list.
LEMMA CellOfCoordinates ==
  ASSUME NEW g, Sound(g), NEW pt, NEW i, NEW j, Spans(g, pt, 1, i), Spans(g, pt, 2, j),
         NEW c, c = i + Size2(g, 1) * j
  PROVE  /\ c \in 0 .. NCells(g) - 1 /\ InItsCell(g, pt, c)
         /\ c % Size2(g, 1) = i /\ c \div Size2(g, 1) = j
<1>1. 1 \in Dims /\ 2 \in Dims
  BY DEF Dims
<1>2. PICK w \in Nat, v \in Nat : w = Size2(g, 1) /\ v = Size2(g, 2)
  BY <1>1, SizesTyped
<1>3. i \in 0 .. w - 1 /\ j \in 0 .. v - 1
  BY <1>2 DEF Spans
<1>4. c = i + w * j /\ c \in Int
  BY <1>2, <1>3, SMT
<1>5. c \in 0 .. w * v - 1 /\ c % w = i /\ c \div w = j
  <2>1. i + w * j \in 0 .. w * v - 1 /\ (i + w * j) % w = i /\ (i + w * j) \div w = j
    BY <1>3, Decodes
  <2>2. QED BY <1>4, <2>1, Zenon
<1>6. ASSUME NEW s \in Dims
      PROVE  /\ InnerLow(g, s) + g.unit[s] * (<<i, j>>[s] - g.off) <= pt[s]
             /\ pt[s] <= InnerLow(g, s) + g.unit[s] * (<<i, j>>[s] - g.off) + g.unit[s]
  <2>1. CASE s = 1
    BY <2>1 DEF Spans
  <2>2. CASE s = 2
    BY <2>2 DEF Spans
  <2>3. QED BY <2>1, <2>2, TwoDims
<1>7. InItsCell(g, pt, c)
  BY <1>2, <1>5, <1>6 DEF InItsCell
<1>8. QED BY <1>2, <1>5, <1>7 DEF NCells

LEMMA GetCellHolds ==
  ASSUME NEW g, Sound(g), NEW pt, IntPoint(pt), InSpace(g, pt)
  PROVE  /\ GetCell(g, pt) \in 0 .. NCells(g) - 1
         /\ InItsCell(g, pt, GetCell(g, pt))
<1> DEFINE k(s) == ConvertToID_ns(g, pt, s) - g.cell_shift[s]
<1>1. 1 \in Dims /\ 2 \in Dims
  BY DEF Dims
<1>2. Spans(g, pt, 1, k(1)) /\ Spans(g, pt, 2, k(2))
  BY <1>1, ConvertSpans
<1>3. GetCell(g, pt) = k(1) + Size2(g, 1) * k(2)
  BY <1>1, Zenon DEF GetCell, InNested, LinId
<1> HIDE DEF k
<1>4. QED BY <1>2, <1>3, CellOfCoordinates

\* A point that is not below the box is not in the padding below it.
LEMMA ConvertAbove ==
  ASSUME NEW g, Sound(g), NEW pt, IntPoint(pt), NEW s \in Dims, g.low[s] <= pt[s]
  PROVE  ConvertToID_ns(g, pt, s) >= g.off
<1>1. /\ g.unit[s] \in Nat \ {0} /\ g.div[s] \in Nat \ {0} /\ g.off \in Nat \ {0}
      /\ g.low[s] \in Int /\ pt[s] \in Int
  BY DEF Sound, IntPoint
<1>2. PICK u \in Nat \ {0}, t \in Int : u = g.unit[s] /\ t = pt[s] - g.low[s] /\ t >= 0
  BY <1>1, SMT
<1>3. PICK f : f = SizeTFloor(pt[s] - g.low[s], g.unit[s])
  OBVIOUS
<1>7. f \in Int /\ t < u * f + u
  <2>1. f = SizeTFloor(t, u)
    BY <1>2, <1>3
  <2>2. QED BY <1>2, <2>1, FloorBounds
<1>4. f >= 0
  <2>1. u * 0 < u * (f + 1)
    BY <1>2, <1>7, SMT
  <2>2. 0 \in Int /\ f + 1 \in Int
    BY <1>7, SMT
  <2>3. 0 < f + 1
    BY <2>1, <2>2, TimesCancels
  <2>4. QED BY <1>7, <2>3, SMT
<1>5. \/ ConvertToID_ns(g, pt, s) = f + g.off
      \/ ConvertToID_ns(g, pt, s) = Size(g, s) - 1
  BY <1>3, Zenon DEF ConvertToID_ns
<1>6. QED BY <1>1, <1>4, <1>7, <1>5, SMT DEF Size

\* A point of the domain that is on its upper border goes to the last cell of
\* the domain, which it also touches.
LEMMA IntoDomainSpans ==
  ASSUME NEW g, Sound(g), NEW pt, IntPoint(pt), InSpace(g, pt), NEW s \in Dims,
         g.low[s] <= pt[s], pt[s] <= High(g, s)
  PROVE  Spans(g, pt, s, IntoDomain(g, s, ConvertToID_ns(g, pt, s)) - g.cell_shift[s])
<1>1. PICK k : k = ConvertToID_ns(g, pt, s)
  OBVIOUS
<1>2. k \in Int /\ Spans(g, pt, s, k - g.cell_shift[s])
  BY <1>1, ConvertSpans
<1>3. PICK u \in Nat \ {0}, n \in Nat \ {0}, m \in Nat, h \in Nat, o \in Nat \ {0}, low \in Int, p \in Int :
        /\ u = g.unit[s] /\ n = g.div[s] /\ m = g.div2[s] /\ h = g.cell_shift[s]
        /\ o = g.off /\ low = g.low[s] /\ p = pt[s] /\ h + m <= n
  BY DEF Sound, IntPoint
<1>4. low <= p /\ p <= low + u * n
  BY <1>3, SMT DEF High
<1>5. /\ k - h \in 0 .. m + 2 * o - 1
      /\ low + u * h + u * (k - h - o) <= p
      /\ p <= low + u * h + u * (k - h - o) + u
  BY <1>2, <1>3, SMT DEF Spans, Size2, InnerLow
<1>6. u * h + u * (k - h - o) = u * (k - o) /\ u * (k - o) \in Int /\ u * n \in Int /\ u * h \in Int
  <2>1. k - h - o \in Int /\ h + (k - h - o) = k - o /\ h \in Int
    BY <1>2, <1>3, SMT
  <2>2. u * (h + (k - h - o)) = u * h + u * (k - h - o)
    BY <1>3, <2>1, TimesSum
  <2>3. QED BY <1>2, <1>3, <2>1, <2>2, SMT
<1>7. low + u * (k - o) <= p /\ p <= low + u * (k - o) + u
  BY <1>5, <1>6, SMT
<1>8. k = n + o => p = low + u * n
  <2>1. k = n + o => u * (k - o) = u * n
    BY <1>2, <1>3, SMT
  <2>2. QED BY <1>4, <1>6, <1>7, <2>1, SMT
<1>9. k # o - 1
  BY <1>1, <1>2, <1>3, ConvertAbove, SMT
<1>10. PICK id : id = IntoDomain(g, s, k)
  OBVIOUS
<1>11. n + o # o - 1
  BY <1>3, SMT
<1>12. Size(g, s) - g.off = n + o
  BY <1>3, SMT DEF Size
<1>13. CASE k = n + o
  <2>1. IntoDomain(g, s, k) = CASE k = n + o -> Size(g, s) - g.off - 1
                               [] k = o - 1 -> o
                               [] OTHER -> k
    BY <1>3, <1>12 DEF IntoDomain
  <2>2. id = n + o - 1
    BY <1>9, <1>10, <1>12, <1>13, <2>1
  <2>3. id - h \in 0 .. m + 2 * o - 1 /\ id - h - o = k - h - o - 1
    BY <1>2, <1>3, <1>5, <1>13, <2>2, SMT
  <2>4. u * (id - h - o) = u * (k - h - o) - u
    <3>1. k - h - o \in Int
      BY <1>2, <1>3, SMT
    <3>2. QED BY <2>3, <3>1, TimesOne
  <2>5. u * h + u * (id - h - o) = u * n - u
    <3>1. u * (k - o) = u * n
      BY <1>2, <1>3, <1>13, SMT
    <3>2. u * (k - h - o) \in Int
      BY <1>2, <1>3, SMT
    <3>3. QED BY <1>6, <2>4, <3>1, <3>2, SMT
  <2>6. u * (id - h - o) \in Int
    BY <1>3, <2>3, SMT
  <2>7. low + u * h + u * (id - h - o) <= p /\ p <= low + u * h + u * (id - h - o) + u
    BY <1>6, <1>8, <1>13, <2>5, <2>6, SMT
  <2>8. QED BY <1>1, <1>3, <1>10, <2>3, <2>7, SMT DEF Spans, Size2, InnerLow
<1>14. CASE k # n + o
  <2>1. id = k
    BY <1>3, <1>9, <1>10, <1>12, <1>14 DEF IntoDomain
  <2>2. QED BY <1>1, <1>2, <1>10, <2>1
<1>15. QED BY <1>13, <1>14

LEMMA GetCellDomHolds ==
  ASSUME NEW g, Sound(g), NEW pt, IntPoint(pt), InSpace(g, pt),
         \A s \in Dims : g.low[s] <= pt[s] /\ pt[s] <= High(g, s)
  PROVE  /\ GetCellDom(g, pt) \in 0 .. NCells(g) - 1
         /\ InItsCell(g, pt, GetCellDom(g, pt))
<1> DEFINE k(s) == IntoDomain(g, s, ConvertToID_ns(g, pt, s)) - g.cell_shift[s]
<1>1. 1 \in Dims /\ 2 \in Dims
  BY DEF Dims
<1>2. Spans(g, pt, 1, k(1)) /\ Spans(g, pt, 2, k(2))
  BY <1>1, IntoDomainSpans
<1>3. GetCellDom(g, pt) = k(1) + Size2(g, 1) * k(2)
  BY <1>1, Zenon DEF GetCellDom, InNested, LinId
<1> HIDE DEF k
<1>4. QED BY <1>2, <1>3, CellOfCoordinates

-----------------------------------------------------------------------------
(* The neighbourhood of a radius.                                          *)

\* In one dimension, x in the cell i and y in the cell j, cells of side u: the
\* gap between the cells is no longer than the distance, and no cell within a
\* radius is out of its reach.
LEMMA GapBelow ==
  ASSUME NEW u \in Nat \ {0}, NEW b \in Int, NEW i \in Int, NEW j \in Int,
         NEW x \in Int, NEW y \in Int,
         b + u * i <= x, x <= b + u * i + u, b + u * j <= y, y <= b + u * j + u
  PROVE  /\ Gap(j - i, u) \in Nat
         /\ Gap(j - i, u) <= x - y \/ Gap(j - i, u) <= -(x - y)
         /\ \A r \in Nat : x - y < r /\ -(x - y) < r => j - i \in -Ceil(r, u) .. Ceil(r, u)
<1>1. u * i \in Int /\ u * j \in Int
  BY SMT
<1>2. PICK k \in Int : k = j - i
  BY SMT
<1>3. u * k = u * j - u * i /\ u * (-k) = u * i - u * j
  <2>1. u * (j - i) = u * j - u * i /\ u * (i - j) = u * i - u * j
    BY TimesSum
  <2>2. -k = i - j
    BY <1>2, SMT
  <2>3. QED BY <1>2, <2>1, <2>2
<1>4. CASE k > 0
  <2>1. Gap(k, u) = u * (k - 1) /\ u * (k - 1) = u * k - u /\ u * (k - 1) \in Nat
    BY <1>4, SMT DEF Gap
  <2>2. Gap(k, u) <= -(x - y)
    BY <1>1, <1>3, <2>1, SMT
  <2>3. ASSUME NEW r \in Nat, x - y < r, -(x - y) < r
        PROVE  k \in -Ceil(r, u) .. Ceil(r, u)
    <3>1. Ceil(r, u) \in Int /\ r <= u * Ceil(r, u)
      BY CeilBounds
    <3>2. u * (k - 1) < u * Ceil(r, u)
      BY <2>1, <2>2, <2>3, <3>1, SMT
    <3>3. k - 1 < Ceil(r, u)
      <4>1. k - 1 \in Int
        BY <1>2, SMT
      <4>2. QED BY <3>1, <3>2, <4>1, TimesCancels
    <3>4. QED BY <1>4, <3>1, <3>3, SMT
  <2>4. QED BY <1>2, <2>1, <2>2, <2>3
<1>5. CASE k < 0
  <2>1. Gap(k, u) = u * (-k - 1) /\ u * (-k - 1) = u * (-k) - u /\ u * (-k - 1) \in Nat
    BY <1>5, SMT DEF Gap
  <2>2. Gap(k, u) <= x - y
    BY <1>1, <1>3, <2>1, SMT
  <2>3. ASSUME NEW r \in Nat, x - y < r, -(x - y) < r
        PROVE  k \in -Ceil(r, u) .. Ceil(r, u)
    <3>1. Ceil(r, u) \in Int /\ r <= u * Ceil(r, u)
      BY CeilBounds
    <3>2. u * (-k - 1) < u * Ceil(r, u)
      BY <2>1, <2>2, <2>3, <3>1, SMT
    <3>3. -k - 1 < Ceil(r, u)
      <4>1. -k - 1 \in Int
        BY <1>2, SMT
      <4>2. QED BY <3>1, <3>2, <4>1, TimesCancels
    <3>4. QED BY <1>5, <3>1, <3>3, SMT
  <2>4. QED BY <1>2, <2>1, <2>2, <2>3
<1>6. CASE k = 0
  <2>1. Gap(k, u) = 0
    BY <1>6, SMT DEF Gap
  <2>2. ASSUME NEW r \in Nat
        PROVE  0 \in -Ceil(r, u) .. Ceil(r, u)
    <3>1. Ceil(r, u) \in Int /\ r <= u * Ceil(r, u)
      BY CeilBounds
    <3>2. u * (-1) < u * Ceil(r, u)
      BY <3>1, SMT
    <3>3. -1 < Ceil(r, u)
      BY <3>1, <3>2, TimesCancels
    <3>4. QED BY <3>1, <3>3, SMT
  <2>3. Gap(j - i, u) = 0 /\ (0 <= x - y \/ 0 <= -(x - y))
    BY <1>2, <2>1, SMT
  <2>4. QED BY <1>2, <1>6, <2>2, <2>3
<1>7. QED BY <1>2, <1>4, <1>5, <1>6, SMT

LEMMA CellSpans ==
  ASSUME NEW g, NEW pt, NEW c, InItsCell(g, pt, c), NEW i, NEW j,
         i = c % Size2(g, 1), j = c \div Size2(g, 1)
  PROVE  /\ InnerLow(g, 1) + g.unit[1] * (i - g.off) <= pt[1]
         /\ pt[1] <= InnerLow(g, 1) + g.unit[1] * (i - g.off) + g.unit[1]
         /\ InnerLow(g, 2) + g.unit[2] * (j - g.off) <= pt[2]
         /\ pt[2] <= InnerLow(g, 2) + g.unit[2] * (j - g.off) + g.unit[2]
<1>1. ASSUME NEW s \in Dims
      PROVE  /\ InnerLow(g, s) + g.unit[s] * (<<i, j>>[s] - g.off) <= pt[s]
             /\ pt[s] <= InnerLow(g, s) + g.unit[s] * (<<i, j>>[s] - g.off) + g.unit[s]
  BY DEF InItsCell
<1>2. 1 \in Dims /\ 2 \in Dims
  BY DEF Dims
<1>3. <<i, j>>[1] = i /\ <<i, j>>[2] = j
  OBVIOUS
<1>4. QED BY <1>1, <1>2, <1>3

\* From the cell c to the cell d, in cells.
StepFromTo(g, c, d) ==
  <<(d % Size2(g, 1)) - (c % Size2(g, 1)), (d \div Size2(g, 1)) - (c \div Size2(g, 1))>>

\* In one dimension: a point in the span of the cell i, and what two of them
\* say of the step between their cells.
SpanHas(u, o, l, i, p) == l + u * (i - o) <= p /\ p <= l + u * (i - o) + u

StepBound(u, h, k) ==
  /\ Gap(k, u) \in Nat
  /\ Gap(k, u) <= h \/ Gap(k, u) <= -h
  /\ \A t \in Nat : h < t /\ -h < t => k \in -Ceil(t, u) .. Ceil(t, u)

LEMMA GapOfNear ==
  ASSUME NEW u \in Nat \ {0}, NEW o \in Int, NEW l \in Int, NEW p \in Int, NEW q \in Int,
         NEW i \in Int, NEW m \in Int,
         SpanHas(u, o, l, i, p), SpanHas(u, o, l, m, q)
  PROVE  StepBound(u, p - q, m - i)
<1>1. /\ u * (i - o) = u * i - u * o /\ u * (m - o) = u * m - u * o
      /\ u * i \in Int /\ u * m \in Int /\ u * o \in Int
  BY TimesSum
<1>2. PICK e \in Int : e = l - u * o
  BY <1>1
<1>3. e + u * i <= p /\ p <= e + u * i + u /\ e + u * m <= q /\ q <= e + u * m + u
  BY <1>1, <1>2, SMT DEF SpanHas
<1>4. QED BY <1>2, <1>3, GapBelow DEF StepBound

\* The coordinates of two points nearer than r.
LEMMA NearCoords ==
  ASSUME NEW x, NEW y, IntPoint(x), IntPoint(y),
         NEW r \in Nat, SquaredNorm(x[1] - y[1], x[2] - y[2]) < r * r
  PROVE  /\ x[1] - y[1] < r /\ -(x[1] - y[1]) < r
         /\ x[2] - y[2] < r /\ -(x[2] - y[2]) < r
<1>1. 1 \in Dims /\ 2 \in Dims
  BY DEF Dims
<1>2. PICK a \in Int, b \in Int : a = x[1] - y[1] /\ b = x[2] - y[2]
  BY <1>1, SMT DEF IntPoint
<1>3. a * a + b * b < r * r
  BY <1>2 DEF SquaredNorm
<1>4. a * a \in Nat /\ b * b \in Nat
  BY SMT
<1>5. ~(r <= a \/ r <= -a)
  <2>1. r <= a \/ r <= -a => r * r <= a * a /\ r * r \in Nat
    BY SquareGrows
  <2>2. QED BY <1>3, <1>4, <2>1, SMT
<1>6. ~(r <= b \/ r <= -b)
  <2>1. r <= b \/ r <= -b => r * r <= b * b /\ r * r \in Nat
    BY SquareGrows
  <2>2. QED BY <1>3, <1>4, <2>1, SMT
<1>7. a < r /\ -a < r /\ b < r /\ -b < r
  BY <1>5, <1>6, SMT
<1>8. QED BY <1>2, <1>7

\* Step k of a neighbourhood of radius r leads from cell c to cell d.
Steps(g, r, c, d, k) ==
  /\ k \in (-Reach(g, r, 1) .. Reach(g, r, 1)) \X (-Reach(g, r, 2) .. Reach(g, r, 2))
  /\ d - c = LinId(Size2(g, 1), k)
  /\ SquaredNorm(Gap(k[1], g.unit[1]), Gap(k[2], g.unit[2])) <= r * r

\* Two points nearer than r, in the cells c and d: the step from c to d stays
\* in the reach of r, the gap between the cells is no wider than r, and the
\* ids differ by the offset of the step.
LEMMA NearStep ==
  ASSUME NEW g, Sound(g), NEW x, NEW y, IntPoint(x), IntPoint(y),
         NEW r \in Nat, SquaredNorm(x[1] - y[1], x[2] - y[2]) < r * r,
         NEW c \in Int, NEW d \in Int, InItsCell(g, x, c), InItsCell(g, y, d),
         NEW k, k = StepFromTo(g, c, d)
  PROVE  Steps(g, r, c, d, k)
<1>1. 1 \in Dims /\ 2 \in Dims
  BY DEF Dims
<1>2. PICK w \in Nat \ {0} : w = Size2(g, 1)
  BY <1>1, SizesTyped
<1>3. PICK i \in Int, j \in Int : i = c % w /\ j = c \div w /\ c = i + w * j
  BY SMT
<1>4. PICK m \in Int, n \in Int : m = d % w /\ n = d \div w /\ d = m + w * n
  BY SMT
<1>5. PICK a \in Int, b \in Int : a = x[1] - y[1] /\ b = x[2] - y[2]
  BY <1>1, SMT DEF IntPoint
<1>6. a * a + b * b < r * r
  BY <1>5 DEF SquaredNorm
<1>7. a * a \in Nat /\ b * b \in Nat
  BY SMT
<1>8. a < r /\ -a < r /\ b < r /\ -b < r
  BY <1>5, NearCoords
<1>9. /\ Gap(m - i, g.unit[1]) \in Nat
      /\ Gap(m - i, g.unit[1]) <= a \/ Gap(m - i, g.unit[1]) <= -a
      /\ m - i \in -Reach(g, r, 1) .. Reach(g, r, 1)
  <2>1. PICK u \in Nat \ {0}, o \in Nat, l \in Int, p \in Int, q \in Int :
            u = g.unit[1] /\ o = g.off /\ l = InnerLow(g, 1) /\ p = x[1] /\ q = y[1]
    BY <1>1, SizesTyped DEF IntPoint
  <2>2. /\ l + u * (i - o) <= p /\ p <= l + u * (i - o) + u
        /\ l + u * (m - o) <= q /\ q <= l + u * (m - o) + u
    <3>1. i = c % Size2(g, 1) /\ j = c \div Size2(g, 1)
          /\ m = d % Size2(g, 1) /\ n = d \div Size2(g, 1)
      BY <1>2, <1>3, <1>4
    <3>2. /\ InnerLow(g, 1) + g.unit[1] * (i - g.off) <= x[1]
          /\ x[1] <= InnerLow(g, 1) + g.unit[1] * (i - g.off) + g.unit[1]
      BY <3>1, CellSpans
    <3>3. /\ InnerLow(g, 1) + g.unit[1] * (m - g.off) <= y[1]
          /\ y[1] <= InnerLow(g, 1) + g.unit[1] * (m - g.off) + g.unit[1]
      BY <3>1, CellSpans
    <3>4. QED BY <1>3, <1>4, <2>1, <3>2, <3>3, SMT
  <2>3. a = p - q
    BY <1>5, <2>1
  <2>4. SpanHas(u, o, l, i, p) /\ SpanHas(u, o, l, m, q)
    BY <2>2 DEF SpanHas
  <2>5. StepBound(u, a, m - i)
    BY <1>3, <1>4, <2>1, <2>3, <2>4, GapOfNear
  <2>6. QED BY <1>5, <1>8, <2>1, <2>5 DEF Reach, StepBound
<1>10. /\ Gap(n - j, g.unit[2]) \in Nat
       /\ Gap(n - j, g.unit[2]) <= b \/ Gap(n - j, g.unit[2]) <= -b
       /\ n - j \in -Reach(g, r, 2) .. Reach(g, r, 2)
  <2>1. PICK u \in Nat \ {0}, o \in Nat, l \in Int, p \in Int, q \in Int :
            u = g.unit[2] /\ o = g.off /\ l = InnerLow(g, 2) /\ p = x[2] /\ q = y[2]
    BY <1>1, SizesTyped DEF IntPoint
  <2>2. /\ l + u * (j - o) <= p /\ p <= l + u * (j - o) + u
        /\ l + u * (n - o) <= q /\ q <= l + u * (n - o) + u
    <3>1. i = c % Size2(g, 1) /\ j = c \div Size2(g, 1)
          /\ m = d % Size2(g, 1) /\ n = d \div Size2(g, 1)
      BY <1>2, <1>3, <1>4
    <3>2. /\ InnerLow(g, 2) + g.unit[2] * (j - g.off) <= x[2]
          /\ x[2] <= InnerLow(g, 2) + g.unit[2] * (j - g.off) + g.unit[2]
      BY <3>1, CellSpans
    <3>3. /\ InnerLow(g, 2) + g.unit[2] * (n - g.off) <= y[2]
          /\ y[2] <= InnerLow(g, 2) + g.unit[2] * (n - g.off) + g.unit[2]
      BY <3>1, CellSpans
    <3>4. QED BY <1>3, <1>4, <2>1, <3>2, <3>3, SMT
  <2>3. b = p - q
    BY <1>5, <2>1
  <2>4. SpanHas(u, o, l, j, p) /\ SpanHas(u, o, l, n, q)
    BY <2>2 DEF SpanHas
  <2>5. StepBound(u, b, n - j)
    BY <1>3, <1>4, <2>1, <2>3, <2>4, GapOfNear
  <2>6. QED BY <1>5, <1>8, <2>1, <2>5 DEF Reach, StepBound
<1>11. SquaredNorm(Gap(m - i, g.unit[1]), Gap(n - j, g.unit[2])) <= r * r
  <2>1. PICK s \in Nat, t \in Nat : s = Gap(m - i, g.unit[1]) /\ t = Gap(n - j, g.unit[2])
    BY <1>9, <1>10
  <2>2. s * s <= a * a /\ s * s \in Nat
    BY <1>9, <2>1, SquareGrows
  <2>3. t * t <= b * b /\ t * t \in Nat
    BY <1>10, <2>1, SquareGrows
  <2>4. r * r \in Nat
    BY SMT
  <2>5. s * s + t * t <= r * r
    BY <1>6, <1>7, <2>2, <2>3, <2>4, SMT
  <2>6. QED BY <2>1, <2>5 DEF SquaredNorm
<1>12. d - c = (m - i) + w * (n - j)
  BY <1>2, <1>3, <1>4, TimesSum, SMT
<1>13. k = <<m - i, n - j>>
  BY <1>2, <1>3, <1>4 DEF StepFromTo
<1>14. k[1] = m - i /\ k[2] = n - j
  BY <1>13
<1>15. k \in (-Reach(g, r, 1) .. Reach(g, r, 1)) \X (-Reach(g, r, 2) .. Reach(g, r, 2))
  BY <1>9, <1>10, <1>13
<1>16. d - c = LinId(Size2(g, 1), k)
  BY <1>2, <1>12, <1>14 DEF LinId
<1>17. QED BY <1>11, <1>14, <1>15, <1>16 DEF Steps

\* So the neighbourhood of r of a list that is not nested has the offset.
LEMMA NearOffset ==
  ASSUME NEW g, Sound(g), g.div2 = g.div, NEW x, NEW y, IntPoint(x), IntPoint(y),
         NEW r \in Nat, SquaredNorm(x[1] - y[1], x[2] - y[2]) < r * r,
         NEW c \in Int, NEW d \in Int, InItsCell(g, x, c), InItsCell(g, y, d)
  PROVE  d - c \in NNcalcRad(g, r)
<1>1. PICK k : k = StepFromTo(g, c, d)
  OBVIOUS
<1>2. Steps(g, r, c, d, k)
  BY <1>1, NearStep
<1>3. Size(g, 1) = Size2(g, 1)
  BY DEF Size, Size2
<1>4. QED BY <1>2, <1>3, Zenon DEF NNcalcRad, Steps

\* The neighbourhood of a cell that is as wide as r has it, too.
LEMMA NearOffsetFull ==
  ASSUME NEW g, Sound(g), NEW x, NEW y, IntPoint(x), IntPoint(y),
         NEW r \in Nat, \A s \in Dims : r <= g.unit[s],
         SquaredNorm(x[1] - y[1], x[2] - y[2]) < r * r,
         NEW c \in Int, NEW d \in Int, InItsCell(g, x, c), InItsCell(g, y, d)
  PROVE  StepFromTo(g, c, d) \in (-1 .. 1) \X (-1 .. 1) /\ d - c \in NNcFull(g)
<1>1. PICK k : k = StepFromTo(g, c, d)
  OBVIOUS
<1>2. /\ k \in (-Reach(g, r, 1) .. Reach(g, r, 1)) \X (-Reach(g, r, 2) .. Reach(g, r, 2))
      /\ d - c = LinId(Size2(g, 1), k)
  <2>1. Steps(g, r, c, d, k)
    BY <1>1, NearStep
  <2>2. QED BY <2>1 DEF Steps
<1>3. ASSUME NEW s \in Dims PROVE Reach(g, r, s) \in Int /\ Reach(g, r, s) <= 1
  <2>1. PICK u \in Nat \ {0} : u = g.unit[s] /\ r <= u
    BY SizesTyped
  <2>2. PICK m \in Int : m = Reach(g, r, s) /\ u * m < r + u
    <3>1. Reach(g, r, s) = Ceil(r, u)
      BY <2>1 DEF Reach
    <3>2. Ceil(r, u) \in Int /\ u * Ceil(r, u) < r + u
      <4>1. r \in Int /\ u \in Nat \ {0}
        OBVIOUS
      <4>2. QED BY <4>1, CeilBounds, Zenon
    <3>3. QED BY <3>1, <3>2
  <2>3. u * m < u * 2
    <3>1. u * 2 = u + u /\ u * m \in Int
      BY <2>2, SMT
    <3>2. QED BY <2>1, <2>2, <3>1, SMT
  <2>4. m < 2
    BY <2>2, <2>3, TimesCancels
  <2>5. QED BY <2>2, <2>4, SMT
<1>4. 1 \in Dims /\ 2 \in Dims
  BY DEF Dims
<1>5. k \in (-1 .. 1) \X (-1 .. 1)
  <2>1. PICK a, b : a = Reach(g, r, 1) /\ b = Reach(g, r, 2)
    OBVIOUS
  <2>2. a \in Int /\ a <= 1 /\ b \in Int /\ b <= 1
    BY <1>3, <1>4, <2>1
  <2>3. -a .. a \subseteq -1 .. 1 /\ -b .. b \subseteq -1 .. 1
    BY <2>2, SMT
  <2>4. k \in (-a .. a) \X (-b .. b)
    BY <1>2, <2>1
  <2>5. QED BY <2>3, <2>4
<1>6. QED BY <1>1, <1>2, <1>5 DEF NNcFull

-----------------------------------------------------------------------------
(* The lists.                                                              *)

SeqCells(m) == \A c \in DOMAIN m : m[c] \in Seq(Particles)

\* The particles of a memory are in the cells of the decomposition g that
\* contain their positions, and no particle is there twice.
Placed(g, m, at) ==
  /\ DOMAIN m \in {0 .. -1, 0 .. NCells(g) - 1}
  /\ \A c \in DOMAIN m : \A i \in DOMAIN m[c] : InItsCell(g, at[m[c][i]], c)
  /\ \A c, d \in DOMAIN m : \A i \in DOMAIN m[c], j \in DOMAIN m[d] :
       m[c][i] = m[d][j] => c = d /\ i = j

Good(x) ==
  /\ Sound(geo[x])
  /\ full[x] \subseteq Int /\ sym[x] \subseteq full[x]
  /\ DOMAIN rcache[x] \subseteq Radii
  /\ \A r \in DOMAIN rcache[x] : rcache[x][r] \subseteq Int
  /\ SeqCells(cells[x])
  /\ Usable(x) => Placed(geo[x], cells[x], pos)

Shaped ==
  /\ stale \subseteq Lists /\ pos \in [Particles -> Points]
  /\ DOMAIN geo = Lists /\ DOMAIN full = Lists /\ DOMAIN sym = Lists
  /\ DOMAIN rcache = Lists /\ DOMAIN cells = Lists

IndInv == Shaped /\ \A x \in Lists : Good(x)

LEMMA HoodTyped ==
  ASSUME NEW g, Sound(g)
  PROVE  NNcFull(g) \subseteq Int /\ NNcSym(g) \subseteq NNcFull(g)
<1>1. 1 \in Dims
  BY DEF Dims
<1>2. Size2(g, 1) \in Int
  BY <1>1, SizesTyped
<1>3. ASSUME NEW k \in (-1 .. 1) \X (-1 .. 1) PROVE LinId(Size2(g, 1), k) \in Int
  <2>1. k[1] \in Int /\ k[2] \in Int
    BY SMT
  <2>2. QED BY <1>2, <2>1, SMT DEF LinId
<1>4. QED BY <1>3 DEF NNcFull, NNcSym

LEMMA RadTyped ==
  ASSUME NEW g, Sound(g), NEW r \in Radii
  PROVE  NNcalcRad(g, r) \subseteq Int
<1>1. 1 \in Dims /\ 2 \in Dims
  BY DEF Dims
<1>2. Size(g, 1) \in Int
  BY <1>1, SizesTyped
<1>3. Reach(g, r, 1) \in Int /\ Reach(g, r, 2) \in Int
  <2>1. r \in Int
    BY CellAssumption, SMT
  <2>2. QED BY <1>1, <2>1, SizesTyped, CeilBounds DEF Reach
<1>4. ASSUME NEW k \in (-Reach(g, r, 1) .. Reach(g, r, 1)) \X (-Reach(g, r, 2) .. Reach(g, r, 2))
      PROVE  LinId(Size(g, 1), k) \in Int
  <2>1. k[1] \in Int /\ k[2] \in Int
    BY <1>3, SMT
  <2>2. QED BY <1>2, <2>1, SMT DEF LinId
<1>5. QED BY <1>4 DEF NNcalcRad

LEMMA PointsAreInt ==
  ASSUME NEW p \in Particles, pos \in [Particles -> Points]
  PROVE  IntPoint(pos[p])
BY CellAssumption DEF IntPoint

LEMMA EmptyPlaced ==
  ASSUME NEW g, NEW at, NEW n, n = 0 \/ n = NCells(g)
  PROVE  SeqCells(Mem!Empty(n)) /\ Placed(g, Mem!Empty(n), at)
<1>1. DOMAIN Mem!Empty(n) = 0 .. n - 1
  BY DEF Mem!Empty
<1>2. \A c \in DOMAIN Mem!Empty(n) : Mem!Empty(n)[c] = <<>>
  BY DEF Mem!Empty
<1>3. 0 .. n - 1 \in {0 .. -1, 0 .. NCells(g) - 1}
  <2>1. CASE n = 0
    <3>1. n - 1 = -1
      BY <2>1, SMT
    <3>2. QED BY <3>1
  <2>2. CASE n = NCells(g)
    BY <2>2
  <2>3. QED BY <2>1, <2>2
<1>4. <<>> \in Seq(Particles) /\ DOMAIN <<>> = {}
  BY SMT
<1>5. SeqCells(Mem!Empty(n))
  BY <1>2, <1>4 DEF SeqCells
<1>6. Placed(g, Mem!Empty(n), at)
  BY <1>1, <1>2, <1>3, <1>4, Zenon DEF Placed
<1>7. QED BY <1>5, <1>6

LEMMA ClearedPlaced ==
  ASSUME NEW g, NEW at, NEW m, Placed(g, m, at), NEW e, e = [c \in DOMAIN m |-> <<>>]
  PROVE  SeqCells(e) /\ Placed(g, e, at)
<1>1. DOMAIN e = DOMAIN m /\ \A c \in DOMAIN e : e[c] = <<>>
  OBVIOUS
<1>2. <<>> \in Seq(Particles) /\ DOMAIN <<>> = {}
  BY SMT
<1>3. SeqCells(e)
  BY <1>1, <1>2 DEF SeqCells
<1>4. Placed(g, e, at)
  BY <1>1, <1>2, Zenon DEF Placed
<1>5. QED BY <1>3, <1>4

\* A particle that is not in the memory is put behind those of its cell.
LEMMA AppendPlaced ==
  ASSUME NEW g, NEW at, NEW m, SeqCells(m), Placed(g, m, at),
         NEW c \in DOMAIN m, NEW p \in Particles, InItsCell(g, at[p], c),
         \A d \in DOMAIN m : \A i \in DOMAIN m[d] : m[d][i] # p,
         NEW e, e = [m EXCEPT ![c] = Append(m[c], p)]
  PROVE  SeqCells(e) /\ Placed(g, e, at)
<1>1. DOMAIN e = DOMAIN m /\ e[c] = Append(m[c], p)
      /\ \A d \in DOMAIN m : d # c => e[d] = m[d]
  OBVIOUS
<1>2. m[c] \in Seq(Particles)
  BY DEF SeqCells
<1>3. /\ e[c] \in Seq(Particles) /\ Len(e[c]) = Len(m[c]) + 1 /\ Len(m[c]) \in Nat
      /\ \A i \in 1 .. Len(m[c]) : e[c][i] = m[c][i]
      /\ e[c][Len(m[c]) + 1] = p
  BY <1>1, <1>2, AppendProperties, LenProperties
<1>4. DOMAIN m[c] = 1 .. Len(m[c]) /\ DOMAIN e[c] = 1 .. Len(m[c]) + 1
  BY <1>2, <1>3, LenProperties
<1>5. SeqCells(e)
  BY <1>1, <1>3 DEF SeqCells
<1>6. \A d \in DOMAIN e : \A i \in DOMAIN e[d] :
        \/ i \in DOMAIN m[d] /\ e[d][i] = m[d][i]
        \/ d = c /\ i = Len(m[c]) + 1 /\ e[d][i] = p
  <2>1. SUFFICES ASSUME NEW d \in DOMAIN e, NEW i \in DOMAIN e[d]
                 PROVE  \/ i \in DOMAIN m[d] /\ e[d][i] = m[d][i]
                        \/ d = c /\ i = Len(m[c]) + 1 /\ e[d][i] = p
    OBVIOUS
  <2>2. CASE d # c
    BY <1>1, <2>2
  <2>3. CASE d = c /\ i = Len(m[c]) + 1
    BY <1>3, <2>3
  <2>4. CASE d = c /\ i # Len(m[c]) + 1
    <3>1. i \in 1 .. Len(m[c])
      BY <1>3, <1>4, <2>4, SMT
    <3>2. QED BY <1>3, <1>4, <2>4, <3>1
  <2>5. QED BY <2>2, <2>3, <2>4
<1>7. \A d \in DOMAIN e : \A i \in DOMAIN e[d] : InItsCell(g, at[e[d][i]], d)
  BY <1>1, <1>6 DEF Placed
<1>8. ASSUME NEW d \in DOMAIN e, NEW b \in DOMAIN e, NEW i \in DOMAIN e[d], NEW j \in DOMAIN e[b],
             e[d][i] = e[b][j]
      PROVE  d = b /\ i = j
  <2>1. CASE e[d][i] = p
    <3>1. ~(i \in DOMAIN m[d] /\ e[d][i] = m[d][i])
      BY <1>1, <2>1
    <3>2. ~(j \in DOMAIN m[b] /\ e[b][j] = m[b][j])
      BY <1>1, <1>8, <2>1
    <3>3. QED BY <1>6, <3>1, <3>2
  <2>2. CASE e[d][i] # p
    <3>1. i \in DOMAIN m[d] /\ e[d][i] = m[d][i]
      BY <1>6, <2>2
    <3>2. j \in DOMAIN m[b] /\ e[b][j] = m[b][j]
      BY <1>6, <1>8, <2>2
    <3>3. QED BY <1>1, <1>8, <3>1, <3>2 DEF Placed
  <2>3. QED BY <2>1, <2>2
<1>9. DOMAIN e \in {0 .. -1, 0 .. NCells(g) - 1}
  BY <1>1 DEF Placed
<1>10. Placed(g, e, at)
  BY <1>7, <1>8, <1>9 DEF Placed
<1>11. QED BY <1>5, <1>10

-----------------------------------------------------------------------------
(* The steps.                                                              *)

\* A list none of whose parts a step touches.
LEMMA Untouched ==
  ASSUME NEW y \in Lists, Good(y), pos' = pos,
         geo'[y] = geo[y], full'[y] = full[y], sym'[y] = sym[y],
         rcache'[y] = rcache[y], cells'[y] = cells[y], y \in stale' <=> y \in stale
  PROVE  Good(y)'
BY DEF Good, Usable

LEMMA InitIndInv == Init => IndInv
<1>1. SUFFICES ASSUME Init PROVE IndInv
  OBVIOUS
<1>2. Shaped
  BY <1>1 DEF Init, Shaped
<1>3. ASSUME NEW x \in Lists PROVE Good(x)
  <2>1. geo[x] \in Decompositions
    BY <1>1 DEF Init
  <2>2. Sound(geo[x])
    BY <2>1, GivenUnnested, WholeSound
  <2>3. full[x] = NNcFull(geo[x]) /\ sym[x] = NNcSym(geo[x]) /\ rcache[x] = NoRadius
        /\ cells[x] = Mem!Empty(NCells(geo[x]))
    BY <1>1 DEF Init
  <2>4. DOMAIN rcache[x] = {}
    BY <2>3 DEF NoRadius
  <2>5. SeqCells(cells[x]) /\ Placed(geo[x], cells[x], pos)
    BY <2>3, EmptyPlaced
  <2>6. QED BY <2>2, <2>3, <2>4, <2>5, HoodTyped DEF Good
<1>4. QED BY <1>2, <1>3 DEF IndInv

LEMMA InitializeKeeps ==
  ASSUME IndInv, NEW x \in Lists, NEW g, Sound(g), InitializeStructures(x, g)
  PROVE  IndInv'
<1>1. /\ geo' = [geo EXCEPT ![x] = g]
      /\ full' = [full EXCEPT ![x] = NNcFull(g)]
      /\ sym' = [sym EXCEPT ![x] = NNcSym(g)]
      /\ cells' = [cells EXCEPT ![x] = Mem!Empty(NCells(g))]
      /\ stale' = stale \ {x} /\ rcache' = rcache /\ pos' = pos
  BY DEF InitializeStructures, Mem!Reset
<1>2. Shaped'
  BY <1>1 DEF IndInv, Shaped
<1>3. ASSUME NEW y \in Lists PROVE Good(y)'
  <2>1. CASE y # x
    BY <1>1, <2>1, Untouched DEF IndInv, Shaped
  <2>2. CASE y = x
    <3>1. geo'[x] = g /\ full'[x] = NNcFull(g) /\ sym'[x] = NNcSym(g)
          /\ cells'[x] = Mem!Empty(NCells(g)) /\ rcache'[x] = rcache[x]
      BY <1>1 DEF IndInv, Shaped
    <3>2. SeqCells(cells'[x]) /\ Placed(g, cells'[x], pos')
      BY <3>1, EmptyPlaced
    <3>3. QED BY <2>2, <3>1, <3>2, HoodTyped DEF Good, IndInv
  <2>3. QED BY <2>1, <2>2
<1>4. QED BY <1>2, <1>3 DEF IndInv

\* Whatever chose the cell, if it contains the particle.
LEMMA AddKeeps ==
  ASSUME IndInv, NEW x \in Lists, NEW p \in Particles, NEW c,
         InItsCell(geo[x], pos[p], c), AddTo(x, p, c)
  PROVE  IndInv'
<1>1. /\ Usable(x) /\ c \in DOMAIN cells[x] /\ ~Stored(x, p)
      /\ cells' = [cells EXCEPT ![x][c] = Append(@, p)] /\ stale' = stale
      /\ geo' = geo /\ full' = full /\ sym' = sym /\ rcache' = rcache /\ pos' = pos
  BY DEF AddTo, Mem!Add
<1>2. DOMAIN cells' = Lists /\ cells'[x] = [cells[x] EXCEPT ![c] = Append(cells[x][c], p)]
      /\ \A y \in Lists : y # x => cells'[y] = cells[y]
  BY <1>1 DEF IndInv, Shaped
<1>3. Shaped'
  BY <1>1, <1>2 DEF IndInv, Shaped
<1>4. ASSUME NEW y \in Lists PROVE Good(y)'
  <2>1. CASE y # x
    BY <1>1, <1>2, <2>1, Untouched DEF IndInv
  <2>2. CASE y = x
    <3>1. SeqCells(cells[x]) /\ Placed(geo[x], cells[x], pos)
      BY <1>1 DEF IndInv, Good
    <3>2. \A d \in DOMAIN cells[x] : \A i \in DOMAIN cells[x][d] : cells[x][d][i] # p
      BY <1>1 DEF Stored
    <3>3. SeqCells(cells'[x]) /\ Placed(geo[x], cells'[x], pos)
      BY <1>1, <1>2, <3>1, <3>2, AppendPlaced
    <3>4. QED BY <1>1, <2>2, <3>3 DEF Good, IndInv
  <2>3. QED BY <2>1, <2>2
<1>5. QED BY <1>3, <1>4 DEF IndInv

LEMMA RadiusKeeps ==
  ASSUME IndInv, NEW x \in Lists, NEW r \in Radii, GetNNIteratorRadius(x, r)
  PROVE  IndInv'
<1>1. /\ rcache' = [rcache EXCEPT ![x] =
            [q \in DOMAIN rcache[x] \cup {r} |->
               IF q = r THEN NNcalcRad(geo[x], r) ELSE rcache[x][q]]]
      /\ geo' = geo /\ full' = full /\ sym' = sym /\ cells' = cells /\ stale' = stale
      /\ pos' = pos
  BY DEF GetNNIteratorRadius
<1>2. Shaped'
  BY <1>1 DEF IndInv, Shaped
<1>3. ASSUME NEW y \in Lists PROVE Good(y)'
  <2>1. CASE y # x
    BY <1>1, <2>1, Untouched DEF IndInv, Shaped
  <2>2. CASE y = x
    <3>1. rcache'[x] = [q \in DOMAIN rcache[x] \cup {r} |->
                          IF q = r THEN NNcalcRad(geo[x], r) ELSE rcache[x][q]]
      BY <1>1 DEF IndInv, Shaped
    <3>2. NNcalcRad(geo[x], r) \subseteq Int
      BY RadTyped DEF IndInv, Good
    <3>3. DOMAIN rcache'[x] \subseteq Radii /\ \A q \in DOMAIN rcache'[x] : rcache'[x][q] \subseteq Int
      BY <3>1, <3>2 DEF IndInv, Good
    <3>4. QED BY <1>1, <2>2, <3>3 DEF Good, IndInv, Usable
  <2>3. QED BY <2>1, <2>2
<1>4. QED BY <1>2, <1>3 DEF IndInv

LEMMA ClearKeeps ==
  ASSUME IndInv, NEW x \in Lists, Clear(x) \/ Destroy(x)
  PROVE  IndInv'
<1>1. /\ x \notin stale
      /\ \/ cells' = [cells EXCEPT ![x] = [c \in DOMAIN cells[x] |-> <<>>]]
         \/ cells' = [cells EXCEPT ![x] = Mem!Empty(0)]
      /\ geo' = geo /\ full' = full /\ sym' = sym /\ rcache' = rcache /\ pos' = pos
      /\ stale' = stale
  BY DEF Clear, Destroy, Mem!Clear, Mem!Destroy
<1>2. Shaped'
  BY <1>1 DEF IndInv, Shaped
<1>3. ASSUME NEW y \in Lists PROVE Good(y)'
  <2>1. CASE y # x
    BY <1>1, <2>1, Untouched DEF IndInv, Shaped
  <2>2. CASE y = x
    <3>1. Placed(geo[x], cells[x], pos)
      BY <1>1 DEF IndInv, Good, Usable
    <3>2. cells'[x] = [c \in DOMAIN cells[x] |-> <<>>] \/ cells'[x] = Mem!Empty(0)
      BY <1>1 DEF IndInv, Shaped
    <3>3. SeqCells(cells'[x]) /\ Placed(geo[x], cells'[x], pos)
      BY <3>1, <3>2, ClearedPlaced, EmptyPlaced
    <3>4. QED BY <1>1, <2>2, <3>3 DEF Good, IndInv
  <2>3. QED BY <2>1, <2>2
<1>4. QED BY <1>2, <1>3 DEF IndInv

LEMMA CopyKeeps ==
  ASSUME IndInv, NEW x \in Lists, NEW y \in Lists \ {x}, Copy(x, y)
  PROVE  IndInv'
<1>1. /\ y \notin stale
      /\ cells' = [cells EXCEPT ![x] = cells[y]] /\ stale' = stale \ {x}
      /\ geo' = [geo EXCEPT ![x] = geo[y]] /\ full' = [full EXCEPT ![x] = full[y]]
      /\ sym' = [sym EXCEPT ![x] = sym[y]] /\ rcache' = rcache /\ pos' = pos
  BY DEF Copy, Mem!Copy
<1>2. Shaped'
  BY <1>1 DEF IndInv, Shaped
<1>3. ASSUME NEW z \in Lists PROVE Good(z)'
  <2>1. CASE z # x
    BY <1>1, <2>1, Untouched DEF IndInv, Shaped
  <2>2. CASE z = x
    <3>1. cells'[x] = cells[y] /\ geo'[x] = geo[y] /\ full'[x] = full[y] /\ sym'[x] = sym[y]
          /\ rcache'[x] = rcache[x]
      BY <1>1 DEF IndInv, Shaped
    <3>2. Good(x) /\ Good(y)
      BY DEF IndInv
    <3>3. QED BY <1>1, <2>2, <3>1, <3>2 DEF Good, Usable
  <2>3. QED BY <2>1, <2>2
<1>4. QED BY <1>2, <1>3 DEF IndInv

LEMMA SwapKeeps ==
  ASSUME IndInv, NEW x \in Lists, NEW y \in Lists \ {x}, Swap(x, y)
  PROVE  IndInv'
<1>1. /\ x \notin stale /\ y \notin stale /\ stale' = stale
      /\ cells' = [cells EXCEPT ![x] = cells[y], ![y] = cells[x]]
      /\ geo' = [geo EXCEPT ![x] = geo[y], ![y] = geo[x]]
      /\ full' = [full EXCEPT ![x] = full[y], ![y] = full[x]]
      /\ sym' = [sym EXCEPT ![x] = sym[y], ![y] = sym[x]]
      /\ rcache' = rcache /\ pos' = pos
  BY DEF Swap, Mem!Swap, Exchanged
<1>2. Shaped'
  BY <1>1 DEF IndInv, Shaped
<1>3. ASSUME NEW z \in Lists PROVE Good(z)'
  <2>0. Good(x) /\ Good(y)
    BY DEF IndInv
  <2>1. CASE z # x /\ z # y
    <3>1. geo'[z] = geo[z] /\ full'[z] = full[z] /\ sym'[z] = sym[z] /\ rcache'[z] = rcache[z]
          /\ cells'[z] = cells[z] /\ (z \in stale' <=> z \in stale)
      BY <1>1, <2>1 DEF IndInv, Shaped
    <3>2. QED BY <1>1, <3>1, Untouched DEF IndInv
  <2>2. CASE z = x
    <3>1. cells'[x] = cells[y] /\ geo'[x] = geo[y] /\ full'[x] = full[y] /\ sym'[x] = sym[y]
          /\ rcache'[x] = rcache[x]
      BY <1>1 DEF IndInv, Shaped
    <3>2. QED BY <1>1, <2>0, <2>2, <3>1 DEF Good, Usable
  <2>3. CASE z = y
    <3>1. cells'[y] = cells[x] /\ geo'[y] = geo[x] /\ full'[y] = full[x] /\ sym'[y] = sym[x]
          /\ rcache'[y] = rcache[y]
      BY <1>1 DEF IndInv, Shaped
    <3>2. QED BY <1>1, <2>0, <2>3, <3>1 DEF Good, Usable
  <2>4. QED BY <2>1, <2>2, <2>3
<1>4. QED BY <1>2, <1>3 DEF IndInv

\* The list that is moved from keeps its neighbourhoods and takes the other
\* decomposition: it is not in use, and has no cells.
LEMMA MoveKeeps ==
  ASSUME IndInv, NEW x \in Lists, NEW y \in Lists \ {x}, Move(x, y)
  PROVE  IndInv'
<1>1. /\ y \notin stale /\ stale' = (stale \ {x}) \cup {y}
      /\ cells' = [cells EXCEPT ![x] = cells[y], ![y] = Mem!Empty(0)]
      /\ geo' = [geo EXCEPT ![x] = geo[y], ![y] = geo[x]]
      /\ full' = [full EXCEPT ![x] = full[y]]
      /\ sym' = [sym EXCEPT ![x] = sym[y]]
      /\ rcache' = rcache /\ pos' = pos
  BY DEF Move, Mem!Move, Exchanged
<1>2. Shaped'
  BY <1>1 DEF IndInv, Shaped
<1>3. ASSUME NEW z \in Lists PROVE Good(z)'
  <2>0. Good(x) /\ Good(y)
    BY DEF IndInv
  <2>1. CASE z # x /\ z # y
    <3>1. geo'[z] = geo[z] /\ full'[z] = full[z] /\ sym'[z] = sym[z] /\ rcache'[z] = rcache[z]
          /\ cells'[z] = cells[z] /\ (z \in stale' <=> z \in stale)
      BY <1>1, <2>1 DEF IndInv, Shaped
    <3>2. QED BY <1>1, <3>1, Untouched DEF IndInv
  <2>2. CASE z = x
    <3>1. cells'[x] = cells[y] /\ geo'[x] = geo[y] /\ full'[x] = full[y] /\ sym'[x] = sym[y]
          /\ rcache'[x] = rcache[x]
      BY <1>1 DEF IndInv, Shaped
    <3>2. QED BY <1>1, <2>0, <2>2, <3>1 DEF Good, Usable
  <2>3. CASE z = y
    <3>1. cells'[y] = Mem!Empty(0) /\ geo'[y] = geo[x] /\ full'[y] = full[y] /\ sym'[y] = sym[y]
          /\ rcache'[y] = rcache[y] /\ y \in stale'
      BY <1>1 DEF IndInv, Shaped
    <3>2. SeqCells(Mem!Empty(0))
      BY EmptyPlaced
    <3>3. QED BY <2>0, <2>3, <3>1, <3>2 DEF Good, Usable
  <2>4. QED BY <2>1, <2>2, <2>3
<1>4. QED BY <1>2, <1>3 DEF IndInv

LEMMA NextIndInv == IndInv /\ [Next]_vars => IndInv'
<1>1. SUFFICES ASSUME IndInv, [Next]_vars PROVE IndInv'
  OBVIOUS
<1>2. CASE UNCHANGED vars
  BY <1>1, <1>2 DEF IndInv, Shaped, Good, Usable, vars
<1>3. CASE Next
  <2>1. PICK x \in Lists :
          \/ \E g \in Decompositions : Initialize(x, g)
          \/ \E g \in Decompositions, b \in SubBoxes : InitializeFrom(x, g, b)
          \/ \E p \in Particles : Add(x, p) \/ AddDom(x, p) \/ AddPad(x, p)
          \/ \E r \in Radii : GetNNIteratorRadius(x, r)
          \/ Clear(x)
          \/ Destroy(x)
          \/ \E y \in Lists \ {x} : Copy(x, y) \/ Swap(x, y) \/ Move(x, y)
    BY <1>3 DEF Next
  <2>2. Sound(geo[x]) /\ \A p \in Particles : IntPoint(pos[p])
    BY <1>1, PointsAreInt DEF IndInv, Good, Shaped
  <2>3. ASSUME NEW g \in Decompositions, Initialize(x, g) PROVE IndInv'
    BY <1>1, <2>3, GivenUnnested, WholeSound, InitializeKeeps DEF Initialize
  <2>4. ASSUME NEW g \in Decompositions, NEW b \in SubBoxes, InitializeFrom(x, g, b) PROVE IndInv'
    BY <1>1, <2>4, GivenUnnested, NestedSound, InitializeKeeps DEF InitializeFrom
  <2>5. ASSUME NEW p \in Particles, Add(x, p) PROVE IndInv'
    BY <1>1, <2>2, <2>5, GetCellHolds, AddKeeps DEF Add
  <2>6. ASSUME NEW p \in Particles, AddDom(x, p) PROVE IndInv'
    BY <1>1, <2>2, <2>6, GetCellDomHolds, AddKeeps DEF AddDom
  <2>7. ASSUME NEW p \in Particles, AddPad(x, p) PROVE IndInv'
    BY <1>1, <2>2, <2>7, GetCellHolds, AddKeeps DEF AddPad
  <2>8. ASSUME NEW r \in Radii, GetNNIteratorRadius(x, r) PROVE IndInv'
    BY <1>1, <2>8, RadiusKeeps
  <2>9. CASE Clear(x) \/ Destroy(x)
    BY <1>1, <2>9, ClearKeeps
  <2>10. ASSUME NEW y \in Lists \ {x}, Copy(x, y) \/ Swap(x, y) \/ Move(x, y) PROVE IndInv'
    BY <1>1, <2>10, CopyKeeps, SwapKeeps, MoveKeeps
  <2>11. QED BY <2>1, <2>3, <2>4, <2>5, <2>6, <2>7, <2>8, <2>9, <2>10
<1>4. QED BY <1>1, <1>2, <1>3

LEMMA IndInvHolds == Spec => []IndInv
BY InitIndInv, NextIndInv, PTL DEF Spec

\* Whatever the client initialises, adds, copies, swaps and moves, every
\* variable keeps its type: a list in use has the cells its decomposition
\* counts.
THEOREM TypeCorrect == Spec => []TypeOK
<1>1. IndInv => TypeOK
  BY DEF IndInv, Shaped, Good, SeqCells, Placed, Usable, TypeOK
<1>2. QED BY <1>1, IndInvHolds, PTL

\* Every particle a list in use stores is in the box of its cell, for every
\* decomposition and every part of one, on both sides of the origin, and for
\* particles added by add, addDom or addPad.
THEOREM CellsContain == Spec => []CellContains
<1>1. IndInv => CellContains
  BY DEF IndInv, Good, Placed, CellContains
<1>2. QED BY <1>1, IndInvHolds, PTL

-----------------------------------------------------------------------------
(* The visit of a neighbourhood.                                           *)

LEMMA CellsAreInt ==
  ASSUME NEW g, NEW m, NEW at, Placed(g, m, at)
  PROVE  DOMAIN m \subseteq Int
<1>1. PICK n : DOMAIN m = 0 .. n
  BY DEF Placed
<1>2. QED BY <1>1, SMT

\* A particle that is stored in a cell of the neighbourhood is met once.
LEMMA VisitedOnce ==
  ASSUME IndInv, NEW x \in Lists, Usable(x), NEW c \in Int, NEW nnc \in SUBSET Int, NEW q,
         NEW e \in DOMAIN cells[x], NEW i \in DOMAIN cells[x][e], cells[x][e][i] = q,
         e - c \in nnc
  PROVE  Visits(x, c, nnc, q) = 1
<1> DEFINE at(f) == {<<f, j>> : j \in {j \in DOMAIN cells[x][f] : cells[x][f][j] = q}}
           near == {c + d : d \in nnc} \cap DOMAIN cells[x]
<1>1. Placed(geo[x], cells[x], pos)
  BY DEF IndInv, Good
<1>2. e \in near
  <2>1. e \in Int
    BY <1>1, CellsAreInt
  <2>2. e = c + (e - c)
    BY <2>1, SMT
  <2>3. QED BY <2>2
<1>3. \A f \in near : \A j \in DOMAIN cells[x][f] : cells[x][f][j] = q => f = e /\ j = i
  BY <1>1 DEF Placed
<1>4. <<e, i>> \in at(e)
  OBVIOUS
<1>5. \A f \in near : at(f) \subseteq {<<e, i>>}
  BY <1>3
<1>6. UNION {at(f) : f \in near} = {<<e, i>>}
  <2> HIDE DEF at, near
  <2>1. QED BY <1>2, <1>4, <1>5
<1>7. Cardinality({<<e, i>>}) = 1
  BY FS_Singleton
<1>8. Visits(x, c, nnc, q) = Cardinality(UNION {at(f) : f \in near})
  BY DEF Visits
<1>9. QED BY <1>6, <1>7, <1>8

LEMMA DomainInSpace ==
  ASSUME NEW g, Sound(g), NEW pt, IntPoint(pt), InDomain(g, pt)
  PROVE  InSpace(g, pt)
<1>1. SUFFICES ASSUME NEW s \in Dims
               PROVE  /\ InnerLow(g, s) - g.unit[s] * g.off < pt[s]
                      /\ pt[s] < InnerHigh(g, s) + g.unit[s] * g.off
  BY DEF InSpace
<1>2. PICK l \in Int, u \in Nat \ {0}, o \in Nat \ {0}, m \in Nat, p \in Int :
        l = InnerLow(g, s) /\ u = g.unit[s] /\ o = g.off /\ m = g.div2[s] /\ p = pt[s]
  BY SizesTyped DEF Sound, IntPoint
<1>3. PICK w \in Nat \ {0}, h \in Nat : w = u * o /\ h = u * m
  BY SMT
<1>4. l <= p /\ p < l + h
  BY <1>2, <1>3, SMT DEF InDomain, InnerHigh
<1>5. l - w < p /\ p < l + h + w
  BY <1>4, SMT
<1>6. QED BY <1>2, <1>3, <1>5, SMT DEF InnerHigh

\* Whatever was initialised, copied, swapped and moved before, with any radius
\* and any cells: while the neighbourhood in the cache is that of the list as
\* it is, and the list is not nested, an iterator with that radius meets every
\* stored particle within it, once.
THEOREM RadiusMeets == Spec => []RadiusIfCurrent
<1>1. ASSUME IndInv, NEW x \in Lists, NEW r \in DOMAIN rcache[x], Usable(x),
             geo[x].div2 = geo[x].div, rcache[x][r] = NNcalcRad(geo[x], r),
             NEW p \in Particles, NEW q \in Particles,
             InDomain(geo[x], pos[p]), Stored(x, q), Within(p, q, r)
      PROVE  MetRadius(x, p, q, r) = 1
  <2>1. /\ Sound(geo[x]) /\ IntPoint(pos[p]) /\ IntPoint(pos[q])
        /\ r \in Nat /\ rcache[x][r] \subseteq Int
    <3>1. r \in Radii
      BY <1>1 DEF IndInv, Good
    <3>2. QED BY <1>1, <3>1, PointsAreInt, CellAssumption DEF IndInv, Good, Shaped
  <2>2. PICK c : c = GetCell(geo[x], pos[p])
    OBVIOUS
  <2>3. c \in Int /\ InItsCell(geo[x], pos[p], c)
    <3>1. c \in 0 .. NCells(geo[x]) - 1 /\ InItsCell(geo[x], pos[p], c)
      BY <1>1, <2>1, <2>2, DomainInSpace, GetCellHolds
    <3>2. QED BY <3>1, SMT
  <2>4. PICK e \in DOMAIN cells[x] : \E i \in DOMAIN cells[x][e] : cells[x][e][i] = q
    BY <1>1 DEF Stored
  <2>5. PICK i \in DOMAIN cells[x][e] : cells[x][e][i] = q
    BY <2>4
  <2>6. e \in Int /\ InItsCell(geo[x], pos[q], e)
    <3>1. Placed(geo[x], cells[x], pos)
      BY <1>1 DEF IndInv, Good
    <3>2. QED BY <2>5, <3>1, CellsAreInt DEF Placed
  <2>7. e - c \in NNcalcRad(geo[x], r)
    BY <1>1, <2>1, <2>3, <2>6, NearOffset DEF Within
  <2>8. QED BY <1>1, <2>1, <2>2, <2>3, <2>5, <2>7, VisitedOnce DEF MetRadius
<1>2. IndInv => RadiusIfCurrent
  BY <1>1 DEF RadiusIfCurrent, IndInv, Shaped
<1>3. QED BY <1>2, IndInvHolds, PTL

-----------------------------------------------------------------------------
(* Points of the domain of a decomposition.                                *)

LEMMA ProductsTyped ==
  ASSUME NEW u \in Nat \ {0}, NEW o \in Nat \ {0}, NEW m \in Nat
  PROVE  u * o \in Nat \ {0} /\ u * m \in Nat
BY SMT

\* The coordinates of a point of the domain are not those of padding cells,
\* and need no correction.
LEMMA DomainCoord ==
  ASSUME NEW g, Sound(g), NEW pt, IntPoint(pt), InDomain(g, pt), NEW s \in Dims
  PROVE  /\ ConvertToID_ns(g, pt, s) - g.cell_shift[s] \in g.off .. Size2(g, s) - g.off - 1
         /\ IntoDomain(g, s, ConvertToID_ns(g, pt, s)) = ConvertToID_ns(g, pt, s)
<1>1. PICK u \in Nat \ {0}, n \in Nat \ {0}, m \in Nat, h \in Nat, o \in Nat \ {0},
           low \in Int, p \in Int :
        /\ u = g.unit[s] /\ n = g.div[s] /\ m = g.div2[s] /\ h = g.cell_shift[s]
        /\ o = g.off /\ low = g.low[s] /\ p = pt[s]
  BY DEF Sound, IntPoint
<1>2. h + m <= n
  BY <1>1 DEF Sound
<1>3. PICK w \in Nat, z \in Nat : w = u * h /\ z = u * m
  BY SMT
<1>4. low + w <= p /\ p < low + w + z
  BY <1>1, <1>3 DEF InDomain, InnerLow, InnerHigh
<1>5. PICK t \in Nat : t = p - low
  BY <1>4, SMT
<1>6. PICK f \in Int : f = t \div u /\ u * f <= t /\ t < u * f + u
  BY DivBounds
<1>7. h <= f
  <2>1. u * (f + 1) = u * f + u
    BY TimesOne
  <2>2. u * h < u * (f + 1)
    BY <1>3, <1>4, <1>5, <1>6, <2>1, SMT
  <2>3. h < f + 1
    BY <2>2, TimesCancels
  <2>4. QED BY <2>3, SMT
<1>8. f < h + m
  <2>1. u * (h + m) = u * h + u * m /\ u * f \in Int
    BY TimesSum
  <2>2. u * f < u * (h + m)
    BY <1>3, <1>4, <1>5, <1>6, <2>1, SMT
  <2>3. QED BY <2>2, TimesCancels, SMT
<1>9. SizeTFloor(pt[s] - g.low[s], g.unit[s]) = f
  BY <1>1, <1>5, <1>6 DEF SizeTFloor
<1>10. f + o \in 0 .. n + 2 * o - 1
  BY <1>2, <1>7, <1>8, SMT
<1>11. ConvertToID_ns(g, pt, s) = f + o
  BY <1>1, <1>9, <1>10 DEF ConvertToID_ns, Size
<1>12. f + o - h \in o .. m + 2 * o - o - 1
  BY <1>7, <1>8, SMT
<1>13. f + o # n + 2 * o - o /\ f + o # o - 1
  BY <1>2, <1>7, <1>8, SMT
<1>14. QED BY <1>1, <1>11, <1>12, <1>13 DEF Size, Size2, IntoDomain

LEMMA CellOfDomain ==
  ASSUME NEW g, Sound(g), NEW pt, IntPoint(pt), InDomain(g, pt)
  PROVE  /\ GetCell(g, pt) \in Int /\ InItsCell(g, pt, GetCell(g, pt))
         /\ DomainCell(g, GetCell(g, pt)) /\ GetCellDom(g, pt) = GetCell(g, pt)
<1> DEFINE k(s) == ConvertToID_ns(g, pt, s) - g.cell_shift[s]
           c == GetCell(g, pt)
<1>1. 1 \in Dims /\ 2 \in Dims
  BY DEF Dims
<1>2. InSpace(g, pt)
  BY DomainInSpace
<1>3. c \in Int /\ InItsCell(g, pt, c)
  <2>1. c \in 0 .. NCells(g) - 1 /\ InItsCell(g, pt, c)
    BY <1>2, GetCellHolds
  <2>2. QED BY <2>1, SMT
<1>4. \A s \in Dims : k(s) \in g.off .. Size2(g, s) - g.off - 1
  BY DomainCoord
<1>5. c % Size2(g, 1) = k(1) /\ c \div Size2(g, 1) = k(2)
  <2>1. Spans(g, pt, 1, k(1)) /\ Spans(g, pt, 2, k(2))
    BY <1>1, <1>2, ConvertSpans
  <2>2. c = k(1) + Size2(g, 1) * k(2)
    BY <1>1, Zenon DEF GetCell, InNested, LinId
  <2>3. PICK i, j : i = k(1) /\ j = k(2)
    OBVIOUS
  <2> HIDE DEF k, c
  <2>4. Spans(g, pt, 1, i) /\ Spans(g, pt, 2, j) /\ c = i + Size2(g, 1) * j
    BY <2>1, <2>2, <2>3
  <2>5. c % Size2(g, 1) = i /\ c \div Size2(g, 1) = j
    BY <2>4, CellOfCoordinates
  <2>6. QED BY <2>3, <2>5
<1>6. DomainCell(g, c)
  <2>1. SUFFICES ASSUME NEW s \in Dims
                 PROVE  /\ g.off - 0 <= <<c % Size2(g, 1), c \div Size2(g, 1)>>[s]
                        /\ <<c % Size2(g, 1), c \div Size2(g, 1)>>[s] < Size2(g, s) - g.off + 0
    BY Zenon DEF DomainCell, AtMost
  <2>2. PICK o \in Nat, z \in Nat : o = g.off /\ z = Size2(g, s)
    BY SizesTyped
  <2>3. k(s) \in o .. z - o - 1
    BY <1>4, <2>2
  <2>4. <<k(1), k(2)>>[s] = k(s)
    BY TwoDims
  <2> HIDE DEF k
  <2>5. o - 0 <= k(s) /\ k(s) < z - o + 0
    BY <2>3, SMT
  <2>6. QED BY <1>5, <2>2, <2>4, <2>5
<1>7. GetCellDom(g, pt) = c
  <2>1. \A s \in Dims : IntoDomain(g, s, ConvertToID_ns(g, pt, s)) = ConvertToID_ns(g, pt, s)
    BY DomainCoord
  <2>2. [s \in Dims |-> IntoDomain(g, s, ConvertToID_ns(g, pt, s))]
          = [s \in Dims |-> ConvertToID_ns(g, pt, s)]
    BY <2>1, Zenon
  <2>3. QED BY <2>2, Zenon DEF GetCellDom, GetCell
<1>8. QED BY <1>3, <1>6, <1>7

\* A point nearer to the domain than the padding is thick may be added.
LEMMA NearInSpace ==
  ASSUME NEW g, Sound(g), NEW x, NEW y, IntPoint(x), IntPoint(y), InDomain(g, x),
         NEW r \in Nat, \A s \in Dims : r <= g.unit[s] * g.off,
         SquaredNorm(x[1] - y[1], x[2] - y[2]) < r * r
  PROVE  InSpace(g, y)
<1>1. SUFFICES ASSUME NEW s \in Dims
               PROVE  /\ InnerLow(g, s) - g.unit[s] * g.off < y[s]
                      /\ y[s] < InnerHigh(g, s) + g.unit[s] * g.off
  BY DEF InSpace
<1>2. PICK l \in Int, u \in Nat \ {0}, o \in Nat \ {0}, m \in Nat, p \in Int, q \in Int :
        l = InnerLow(g, s) /\ u = g.unit[s] /\ o = g.off /\ m = g.div2[s] /\ p = x[s] /\ q = y[s]
  BY SizesTyped DEF Sound, IntPoint
<1>3. PICK w \in Nat \ {0}, h \in Nat : w = u * o /\ h = u * m
  BY ProductsTyped
<1>4. l <= p /\ p < l + h
  BY <1>2, <1>3, SMT DEF InDomain, InnerHigh
<1>5. r <= w
  BY <1>2, <1>3
<1>6. p - q < r /\ -(p - q) < r
  <2>1. /\ x[1] - y[1] < r /\ -(x[1] - y[1]) < r
        /\ x[2] - y[2] < r /\ -(x[2] - y[2]) < r
    BY NearCoords
  <2>2. QED BY <1>2, <2>1, TwoDims
<1>7. l - w < q /\ q < l + h + w
  BY <1>4, <1>5, <1>6, SMT
<1>8. QED BY <1>2, <1>3, <1>7, SMT DEF InnerHigh

-----------------------------------------------------------------------------
(* What the lists hold, and what a visit meets.                            *)

\* A memory stores a particle once.
Once(m) ==
  /\ DOMAIN m \subseteq Int
  /\ \A c, d \in DOMAIN m : \A i \in DOMAIN m[c], j \in DOMAIN m[d] :
       m[c][i] = m[d][j] => c = d /\ i = j

ListOk(x) ==
  /\ Sound(geo[x]) /\ full[x] = NNcFull(geo[x]) /\ sym[x] = NNcSym(geo[x])
  /\ Once(cells[x])
  /\ x \in External => geo[x].div2 = geo[x].div

\* The positions and markers are those of a frame of the client.
FrameOk ==
  /\ IsFiniteSet(DOMAIN pos) /\ DOMAIN pos \subseteq Int
  /\ \A q \in DOMAIN pos : pos[q] \in Int \X Int /\ IntPoint(pos[q])
  /\ 0 \in DOMAIN gm /\ DOMAIN gm \subseteq 0 .. Phases - 1
  /\ \A v \in DOMAIN gm : gm[v] \in Nat
  /\ client.multi \in BOOLEAN
  /\ ~client.multi => DOMAIN gm = {0}

CellsOk ==
  /\ stale = {}
  /\ DOMAIN geo = Lists /\ DOMAIN full = Lists /\ DOMAIN sym = Lists
  /\ DOMAIN rcache = Lists /\ DOMAIN cells = Lists
  /\ FrameOk
  /\ \A x \in Lists : ListOk(x)

LEMMA HoldsAt ==
  ASSUME NEW x, NEW e, NEW q, Holds(x, e, q)
  PROVE  e \in DOMAIN cells[x] /\ \E i \in DOMAIN cells[x][e] : cells[x][e][i] = q
BY DEF Holds, Range

\* So it is held by one cell.
LEMMA HeldOnce ==
  ASSUME NEW x, Once(cells[x]), NEW c, NEW d, NEW q, Holds(x, c, q), Holds(x, d, q)
  PROVE  c = d
BY HoldsAt DEF Once

LEMMA VisitsCount ==
  ASSUME NEW x, Once(cells[x]), NEW c \in Int, NEW nnc \in SUBSET Int,
         NEW e, NEW q, Holds(x, e, q)
  PROVE  Visits(x, c, nnc, q) = IF e - c \in nnc THEN 1 ELSE 0
<1> DEFINE at(f) == {<<f, j>> : j \in {j \in DOMAIN cells[x][f] : cells[x][f][j] = q}}
           near == {c + d : d \in nnc} \cap DOMAIN cells[x]
<1>1. e \in DOMAIN cells[x] /\ e \in Int
  BY HoldsAt DEF Once
<1>2. PICK i \in DOMAIN cells[x][e] : cells[x][e][i] = q
  BY HoldsAt
<1>3. \A f \in near : \A j \in DOMAIN cells[x][f] : cells[x][f][j] = q => f = e /\ j = i
  BY <1>1, <1>2 DEF Once
<1>4. e \in near <=> e - c \in nnc
  <2>1. ASSUME e - c \in nnc PROVE e \in near
    <3>1. e = c + (e - c)
      BY <1>1, SMT
    <3>2. QED BY <1>1, <2>1, <3>1
  <2>2. ASSUME NEW d \in nnc, e = c + d PROVE e - c \in nnc
    <3>1. e - c = d
      BY <2>2, SMT
    <3>2. QED BY <3>1
  <2>3. QED BY <2>1, <2>2
<1>5. Visits(x, c, nnc, q) = Cardinality(UNION {at(f) : f \in near})
  BY DEF Visits
<1>6. CASE e - c \in nnc
  <2>1. <<e, i>> \in at(e)
    BY <1>2
  <2>2. \A f \in near : at(f) \subseteq {<<e, i>>}
    BY <1>3
  <2>3. UNION {at(f) : f \in near} = {<<e, i>>}
    <3>1. e \in near
      BY <1>4, <1>6
    <3> HIDE DEF at, near
    <3>2. QED BY <2>1, <2>2, <3>1
  <2>4. QED BY <1>5, <1>6, <2>3, FS_Singleton
<1>7. CASE e - c \notin nnc
  <2>1. \A f \in near : at(f) = {}
    BY <1>3, <1>4, <1>7
  <2>2. UNION {at(f) : f \in near} = {}
    <3> HIDE DEF at, near
    <3>1. QED BY <2>1
  <2>3. QED BY <1>5, <1>7, <2>2, FS_EmptySet
<1>8. QED BY <1>6, <1>7

\* The symmetric neighbourhood.
LEMMA SymHas ==
  ASSUME NEW g, Sound(g)
  PROVE  /\ NNcFull(g) \subseteq Int /\ 0 \in NNcFull(g)
         /\ \A d \in Int : d \in NNcSym(g) <=> d \in NNcFull(g) /\ d >= 0
<1>1. NNcFull(g) \subseteq Int
  BY HoodTyped
<1>2. 0 \in NNcFull(g)
  <2>1. PICK w \in Int : w = Size2(g, 1)
    BY SizesTyped DEF Dims
  <2>2. LinId(w, <<0, 0>>) = 0 /\ <<0, 0>> \in (-1 .. 1) \X (-1 .. 1)
    BY <2>1, SMT DEF LinId
  <2>3. QED BY <2>1, <2>2 DEF NNcFull
<1>3. QED BY <1>1, <1>2 DEF NNcSym

\* What a symmetric visit from the cell c keeps of q in the cell e.
SymVisit(x, c, q, first) ==
  Visits(x, c, sym[x] \ {0}, q) + IF first THEN Visits(x, c, {0}, q) ELSE 0

LEMMA SymVisitCount ==
  ASSUME NEW x, ListOk(x), NEW c \in Int, NEW e, NEW q, Holds(x, e, q), NEW first \in BOOLEAN
  PROVE  /\ e \in Int
         /\ SymVisit(x, c, q, first)
              = IF e - c \in NNcFull(geo[x]) /\ (e > c \/ (e = c /\ first)) THEN 1 ELSE 0
<1>1. e \in Int /\ Once(cells[x]) /\ sym[x] = NNcSym(geo[x]) /\ Sound(geo[x])
  BY HoldsAt DEF ListOk, Once
<1>2. PICK a, b : a = Visits(x, c, sym[x] \ {0}, q) /\ b = Visits(x, c, {0}, q)
  OBVIOUS
<1>3. sym[x] \ {0} \in SUBSET Int /\ {0} \in SUBSET Int
  BY <1>1, SymHas DEF NNcSym
<1>4. a = IF e - c \in sym[x] \ {0} THEN 1 ELSE 0
  BY <1>1, <1>2, <1>3, VisitsCount
<1>5. b = IF e - c \in {0} THEN 1 ELSE 0
  <2>1. PICK own \in SUBSET Int : own = {0}
    BY <1>3
  <2>2. Visits(x, c, own, q) = IF e - c \in own THEN 1 ELSE 0
    BY <1>1, VisitsCount
  <2>3. QED BY <1>2, <2>1, <2>2
<1>6. e - c \in sym[x] \ {0} <=> e - c \in NNcFull(geo[x]) /\ e > c
  <2>1. e - c \in Int /\ (e - c >= 0 /\ e - c # 0 <=> e > c)
    BY <1>1, SMT
  <2>2. e - c \in NNcSym(geo[x]) <=> e - c \in NNcFull(geo[x]) /\ e - c >= 0
    BY <1>1, <2>1, SymHas
  <2>3. QED BY <1>1, <2>1, <2>2
<1>7. e - c \in {0} <=> e - c \in NNcFull(geo[x]) /\ e = c
  <2>1. e - c = 0 <=> e = c
    BY <1>1, SMT
  <2>2. 0 \in NNcFull(geo[x])
    BY <1>1, SymHas
  <2>3. QED BY <2>1, <2>2
<1>8. SymVisit(x, c, q, first) = a + IF first THEN b ELSE 0
  BY <1>2 DEF SymVisit
<1>9. ~(e > c /\ e = c)
  BY <1>1, SMT
<1>10. PICK n : n = IF first THEN b ELSE 0
  OBVIOUS
<1>11. a + n = IF e - c \in NNcFull(geo[x]) /\ (e > c \/ (e = c /\ first)) THEN 1 ELSE 0
  <2>1. CASE e - c \in NNcFull(geo[x]) /\ e > c
    <3>1. a = 1 /\ n = 0
      BY <1>4, <1>5, <1>6, <1>7, <1>9, <1>10, <2>1
    <3>2. QED BY <2>1, <3>1
  <2>2. CASE e - c \in NNcFull(geo[x]) /\ e = c
    <3>1. a = 0 /\ n = IF first THEN 1 ELSE 0
      BY <1>4, <1>5, <1>6, <1>7, <1>9, <1>10, <2>2
    <3>2. QED BY <1>9, <2>2, <3>1
  <2>3. CASE ~(e - c \in NNcFull(geo[x]) /\ e > c) /\ ~(e - c \in NNcFull(geo[x]) /\ e = c)
    <3>1. a = 0 /\ n = 0
      BY <1>4, <1>5, <1>6, <1>7, <1>10, <2>3
    <3>2. QED BY <2>3, <3>1
  <2>4. QED BY <2>1, <2>2, <2>3
<1>12. QED BY <1>1, <1>8, <1>10, <1>11

-----------------------------------------------------------------------------
(* The rows that create_ makes.                                            *)

LEMMA HeldInDomain ==
  ASSUME CellsOk, NEW x \in Lists, UpToDate(x), NEW p \in DOMAIN pos, InDomain(geo[x], pos[p])
  PROVE  LET c == GetCell(geo[x], pos[p])
         IN  /\ c \in Int /\ InItsCell(geo[x], pos[p], c) /\ DomainCell(geo[x], c)
             /\ Holds(x, c, p)
<1>1. Sound(geo[x]) /\ IntPoint(pos[p])
  BY DEF CellsOk, ListOk, FrameOk
<1>2. Holds(x, GetCell(geo[x], pos[p]), p) \/ Holds(x, GetCellDom(geo[x], pos[p]), p)
  BY DEF UpToDate
<1>3. QED BY <1>1, <1>2, CellOfDomain

LEMMA HeldInSpace ==
  ASSUME CellsOk, NEW x \in Lists, UpToDate(x), NEW q \in DOMAIN pos, InSpace(geo[x], pos[q])
  PROVE  \E e \in Int : Holds(x, e, q) /\ InItsCell(geo[x], pos[q], e)
<1>1. Sound(geo[x]) /\ IntPoint(pos[q])
  BY DEF CellsOk, ListOk, FrameOk
<1>2. CASE Holds(x, GetCell(geo[x], pos[q]), q)
  <2>1. InItsCell(geo[x], pos[q], GetCell(geo[x], pos[q]))
    BY <1>1, GetCellHolds
  <2>2. GetCell(geo[x], pos[q]) \in Int
    BY <1>2, HoldsAt DEF CellsOk, ListOk, Once
  <2>3. QED BY <1>2, <2>1, <2>2
<1>3. CASE /\ \A s \in Dims : geo[x].low[s] <= pos[q][s] /\ pos[q][s] <= High(geo[x], s)
           /\ Holds(x, GetCellDom(geo[x], pos[q]), q)
  <2>1. InItsCell(geo[x], pos[q], GetCellDom(geo[x], pos[q]))
    BY <1>1, <1>3, GetCellDomHolds
  <2>2. GetCellDom(geo[x], pos[q]) \in Int
    BY <1>3, HoldsAt DEF CellsOk, ListOk, Once
  <2>3. QED BY <1>3, <2>1, <2>2
<1>4. QED BY <1>2, <1>3 DEF UpToDate

\* A cut-off the cells, or the padding, are as wide as.
Wide(g, r) == \A s \in Dims : r <= g.unit[s]
Thick(g, r) == \A s \in Dims : r <= g.unit[s] * g.off

LEMMA WideIsThick ==
  ASSUME NEW g, Sound(g), NEW r \in Nat, Wide(g, r)
  PROVE  Thick(g, r)
<1>1. SUFFICES ASSUME NEW s \in Dims PROVE r <= g.unit[s] * g.off
  BY DEF Thick
<1>2. PICK u \in Nat \ {0}, o \in Nat \ {0} : u = g.unit[s] /\ o = g.off /\ r <= u
  BY SizesTyped DEF Wide
<1>3. u * (o - 1) \in Nat /\ u * o = u * (o - 1) + u
  BY SMT
<1>4. QED BY <1>2, <1>3, SMT

LEMMA ReachIsThick ==
  ASSUME NEW g, Sound(g), NEW r \in Nat, \A s \in Dims : Reach(g, r, s) <= g.off
  PROVE  Thick(g, r)
<1>1. SUFFICES ASSUME NEW s \in Dims PROVE r <= g.unit[s] * g.off
  BY DEF Thick
<1>2. PICK u \in Nat \ {0}, o \in Nat \ {0} : u = g.unit[s] /\ o = g.off
  BY SizesTyped
<1>3. PICK m \in Int : m = Ceil(r, u) /\ r <= u * m
  <2>1. Ceil(r, u) \in Int /\ r <= u * Ceil(r, u)
    BY CeilBounds
  <2>2. QED BY <2>1, Zenon
<1>4. m <= o
  BY <1>2, <1>3 DEF Reach
<1>5. u * (o - m) \in Nat /\ u * (o - m) = u * o - u * m /\ u * m \in Int /\ u * o \in Int
  <2>1. o - m \in Nat
    BY <1>4, SMT
  <2>2. u * (o - m) \in Nat
    BY <2>1, ProductsTyped
  <2>3. QED BY <2>2, TimesSum
<1>6. QED BY <1>2, <1>3, <1>5, SMT

\* The particles near one of the domain are held, next to it.
LEMMA NearHeld ==
  ASSUME CellsOk, NEW x \in Lists, UpToDate(x), NEW p \in DOMAIN pos, NEW q \in DOMAIN pos,
         InDomain(geo[x], pos[p]), NEW r \in Nat, Within(p, q, r), Thick(geo[x], r)
  PROVE  LET c == GetCell(geo[x], pos[p])
         IN  \E e \in Int :
               /\ Holds(x, e, q) /\ InItsCell(geo[x], pos[q], e)
               /\ Wide(geo[x], r) => /\ StepFromTo(geo[x], c, e) \in (-1 .. 1) \X (-1 .. 1)
                                     /\ e - c \in NNcFull(geo[x])
                                     /\ c - e \in NNcFull(geo[x])
               /\ geo[x].div2 = geo[x].div => e - c \in NNcalcRad(geo[x], r)
<1>1. /\ Sound(geo[x]) /\ IntPoint(pos[p]) /\ IntPoint(pos[q])
      /\ SquaredNorm(pos[p][1] - pos[q][1], pos[p][2] - pos[q][2]) < r * r
  BY DEF CellsOk, ListOk, FrameOk, Within
<1>2. InSpace(geo[x], pos[q])
  BY <1>1, NearInSpace DEF Thick
<1>3. PICK e \in Int : Holds(x, e, q) /\ InItsCell(geo[x], pos[q], e)
  BY <1>2, HeldInSpace
<1>4. PICK c \in Int : c = GetCell(geo[x], pos[p]) /\ InItsCell(geo[x], pos[p], c)
  BY HeldInDomain
<1>5. ASSUME geo[x].div2 = geo[x].div PROVE e - c \in NNcalcRad(geo[x], r)
  BY <1>1, <1>3, <1>4, <1>5, NearOffset
<1>6. ASSUME Wide(geo[x], r)
      PROVE  /\ StepFromTo(geo[x], c, e) \in (-1 .. 1) \X (-1 .. 1)
             /\ e - c \in NNcFull(geo[x]) /\ c - e \in NNcFull(geo[x])
  <2>1. \A s \in Dims : r <= geo[x].unit[s]
    BY <1>6 DEF Wide
  <2>2. StepFromTo(geo[x], c, e) \in (-1 .. 1) \X (-1 .. 1) /\ e - c \in NNcFull(geo[x])
    BY <1>1, <1>3, <1>4, <2>1, NearOffsetFull
  <2>3. SquaredNorm(pos[q][1] - pos[p][1], pos[q][2] - pos[p][2]) < r * r
    <3>1. PICK a \in Int, b \in Int : a = pos[p][1] - pos[q][1] /\ b = pos[p][2] - pos[q][2]
      BY <1>1, SMT DEF IntPoint, Dims
    <3>2. -a = pos[q][1] - pos[p][1] /\ -b = pos[q][2] - pos[p][2]
      BY <1>1, <3>1, SMT DEF IntPoint, Dims
    <3>3. SquaredNorm(-a, -b) = SquaredNorm(a, b)
      BY SMT DEF SquaredNorm
    <3>4. QED BY <1>1, <3>1, <3>2, <3>3
  <2>4. c - e \in NNcFull(geo[x])
    BY <1>1, <1>3, <1>4, <2>1, <2>3, NearOffsetFull
  <2>5. QED BY <2>2, <2>4
<1>7. QED BY <1>3, <1>4, <1>5, <1>6, Zenon

\* What Record keeps, and what a cut-off needs for it to be kept.
Recorded(x, how, v, r) ==
  [how |-> how, v |-> v, r |-> r, at |-> pos, gm |-> gm, geo |-> geo[x],
   inside |-> {q \in DOMAIN pos : InDomain(geo[x], pos[q])}]

Fits(x, how, r) ==
  IF how = "radius"
  THEN /\ Thick(geo[x], r) /\ geo[x].div2 = geo[x].div
       /\ rcache[x][r] = NNcalcRad(geo[x], r)
  ELSE Wide(geo[x], r)

LEMMA KeyOf ==
  ASSUME NEW p \in Int, NEW v \in 0 .. Phases - 1, GetV(p) = v
  PROVE  GetP(p) \in 0 .. Indices - 1 /\ Key(v, GetP(p)) = p
<1>1. PICK n \in Nat \ {0}, m \in Nat \ {0} : n = Indices /\ m = Phases
  BY KeyAssumption
<1>2. PICK i \in Int : i = p % n /\ i \in 0 .. n - 1 /\ p = n * v + i
  BY <1>1, SMT DEF GetV
<1>3. v \in Nat /\ v < m
  BY <1>1, SMT
<1>4. n * v \in Nat /\ n * v < n * m /\ n * m \in Nat \ {0}
  <2>1. n * (m - v) \in Nat \ {0} /\ n * m \in Nat \ {0} /\ n * v \in Nat
    <3>1. m - v \in Nat \ {0}
      BY <1>3, SMT
    <3>2. QED BY <1>3, <3>1, ProductsTyped
  <2>2. n * (m - v) = n * m - n * v
    BY <1>3, TimesSum
  <2>3. QED BY <2>1, <2>2, SMT
<1>5. PICK a \in Nat, b \in Nat \ {0} : a = v * n /\ b = m * n /\ a < b /\ a = n * v
  <2>1. v * n = n * v /\ m * n = n * m
    BY <1>3, SMT
  <2>2. QED BY <1>4, <2>1
<1>6. a % b = a
  BY <1>5, SMT
<1>7. Key(v, i) = i + a
  BY <1>1, <1>5, <1>6 DEF Key
<1>8. i + a = p
  BY <1>2, <1>5, SMT
<1>9. QED BY <1>1, <1>2, <1>7, <1>8 DEF GetP

LEMMA OwnerRow ==
  ASSUME CellsOk, NEW x \in Lists, NEW how, NEW v \in DOMAIN gm, NEW r,
         NEW p \in Owners(Recorded(x, how, v, r))
  PROVE  /\ p \in DOMAIN pos /\ p \in Int /\ InDomain(geo[x], pos[p])
         /\ Rows(x, how, v, r)[GetP(p)]
              = [q \in DOMAIN pos |-> IF Within(p, q, r) THEN Met(x, how, p, q, r) ELSE 0]
<1>1. /\ p \in DOMAIN pos /\ InDomain(geo[x], pos[p]) /\ GetV(p) = v /\ GetP(p) < gm[v]
  BY DEF Owners, Recorded
<1>2. p \in Int /\ v \in 0 .. Phases - 1 /\ gm[v] \in Nat
  BY <1>1 DEF CellsOk, FrameOk
<1>3. GetP(p) \in Nat /\ Key(v, GetP(p)) = p
  <2>1. GetP(p) \in 0 .. Indices - 1 /\ Key(v, GetP(p)) = p
    BY <1>1, <1>2, KeyOf
  <2>2. QED BY <2>1, KeyAssumption
<1>4. GetP(p) \in 0 .. gm[v] - 1
  BY <1>1, <1>2, <1>3, SMT
<1>5. QED BY <1>1, <1>2, <1>3, <1>4, Zenon DEF Rows

LEMMA NearIsWithin ==
  ASSUME NEW x, NEW how, NEW v, NEW r, NEW p, NEW q
  PROVE  Near(Recorded(x, how, v, r), p, q) = IF Within(p, q, r) THEN 1 ELSE 0
BY Zenon DEF Near, Within, Recorded

\* The full list of an owner is exactly what is near.
FullListed(b, rows) ==
  \A p \in Owners(b) : rows[GetP(p)] = [q \in DOMAIN b.at |-> Near(b, p, q)]

LEMMA FullRows ==
  ASSUME CellsOk, NEW x \in Lists, UpToDate(x), NEW how \in {"full", "radius"},
         NEW v \in DOMAIN gm, NEW r \in Radii, Fits(x, how, r)
  PROVE  FullListed(Recorded(x, how, v, r), Rows(x, how, v, r))
<1> DEFINE b == Recorded(x, how, v, r)
<1>1. b.at = pos /\ r \in Nat
  BY CellAssumption DEF Recorded
<1>2. ASSUME NEW p \in Owners(b), NEW q \in DOMAIN pos, Within(p, q, r)
      PROVE  Met(x, how, p, q, r) = 1
  <2>1. p \in DOMAIN pos /\ InDomain(geo[x], pos[p])
    BY OwnerRow
  <2>2. ListOk(x)
    BY DEF CellsOk
  <2>3. Thick(geo[x], r)
    BY <1>1, <2>2, WideIsThick DEF Fits, ListOk
  <2>4. PICK c \in Int : c = GetCell(geo[x], pos[p])
    BY <2>1, HeldInDomain
  <2>5. PICK e \in Int :
               /\ Holds(x, e, q)
               /\ Wide(geo[x], r) => e - c \in NNcFull(geo[x])
               /\ geo[x].div2 = geo[x].div => e - c \in NNcalcRad(geo[x], r)
    BY <1>1, <1>2, <2>1, <2>3, <2>4, NearHeld
  <2>6. Once(cells[x])
    BY <2>2 DEF ListOk
  <2>7. CASE how = "full"
    <3>1. full[x] \in SUBSET Int /\ e - c \in full[x]
      BY <2>2, <2>5, <2>7, SymHas DEF Fits, ListOk
    <3>2. Visits(x, c, full[x], q) = 1
      BY <2>5, <2>6, <3>1, VisitsCount
    <3>3. QED BY <2>4, <2>7, <3>2 DEF Met, MetFull
  <2>8. CASE how = "radius"
    <3>1. rcache[x][r] = NNcalcRad(geo[x], r) /\ e - c \in rcache[x][r]
      BY <2>5, <2>8 DEF Fits
    <3>2. rcache[x][r] \in SUBSET Int
      BY <2>2, <3>1, RadTyped DEF ListOk
    <3>3. Visits(x, c, rcache[x][r], q) = 1
      BY <2>5, <2>6, <3>1, <3>2, VisitsCount
    <3>4. QED BY <2>4, <2>8, <3>3 DEF Met, MetRadius
  <2>9. QED BY <2>7, <2>8
<1>3. ASSUME NEW p \in Owners(b)
      PROVE  Rows(x, how, v, r)[GetP(p)] = [q \in DOMAIN pos |-> Near(b, p, q)]
  <2>1. Rows(x, how, v, r)[GetP(p)]
          = [q \in DOMAIN pos |-> IF Within(p, q, r) THEN Met(x, how, p, q, r) ELSE 0]
    BY OwnerRow
  <2>2. \A q \in DOMAIN pos :
          (IF Within(p, q, r) THEN Met(x, how, p, q, r) ELSE 0) = Near(b, p, q)
    BY <1>2, NearIsWithin
  <2> HIDE DEF b
  <2>3. QED BY <2>1, <2>2, Zenon
<1>4. QED BY <1>1, <1>3 DEF FullListed

-----------------------------------------------------------------------------
(* The rows of a symmetric list.                                           *)

\* In one cell, and then by cells, p comes before q: q is in the list of p.
SameFirst(multi, p, q) == IF multi THEN GetV(q) # GetV(p) \/ GetP(q) >= GetP(p) ELSE p <= q

Precedes(multi, at, p, q) ==
  \/ at[p][2] < at[q][2]
  \/ at[p][2] = at[q][2] /\ at[p][1] < at[q][1]
  \/ at[p] = at[q] /\ SameFirst(multi, p, q)

CellAt(b, p) == GetCell(b.geo, b.at[p])

Comes(multi, b, p, q) ==
  \/ CellAt(b, p) < CellAt(b, q)
  \/ CellAt(b, p) = CellAt(b, q) /\ Precedes(multi, b.at, p, q)

\* What is in the list of an owner is near, and of the particles in the domain
\* those that do not come before it.
SymListed(multi, b, rows) ==
  \A p \in Owners(b) :
    /\ \A q \in DOMAIN b.at : rows[GetP(p)][q] \in {0, Near(b, p, q)}
    /\ \A q \in b.inside :
         rows[GetP(p)][q] = IF Comes(multi, b, p, q) THEN Near(b, p, q) ELSE 0

RecordOk(multi, b) ==
  /\ DOMAIN b.at \subseteq Int
  /\ \A q \in DOMAIN b.at : b.at[q] \in Int \X Int
  /\ b.inside = {q \in DOMAIN b.at : InDomain(b.geo, b.at[q])}
  /\ \A q \in b.inside : CellAt(b, q) \in Int
  /\ b.r \in Nat \ {0} /\ multi \in BOOLEAN
  /\ ~multi => b.v = 0

LEMMA SymMet ==
  ASSUME NEW x, NEW p, NEW q, NEW r, client.multi \in BOOLEAN
  PROVE  Met(x, "sym", p, q, r)
           = SymVisit(x, GetCell(geo[x], pos[p]), q, Precedes(client.multi, pos, p, q))
<1>1. CASE client.multi
  <2>1. Met(x, "sym", p, q, r) = MetSymM(x, p, q)
    BY <1>1 DEF Met
  <2>2. Precedes(client.multi, pos, p, q) <=> NotBeforeM(p, q)
    BY <1>1 DEF Precedes, SameFirst, NotBeforeM
  <2>3. QED BY <2>1, <2>2 DEF MetSymM, SymVisit
<1>2. CASE ~client.multi
  <2>1. Met(x, "sym", p, q, r) = MetSym(x, p, q)
    BY <1>2 DEF Met
  <2>2. Precedes(client.multi, pos, p, q) <=> NotBefore(p, q)
    BY <1>2 DEF Precedes, SameFirst, NotBefore
  <2>3. QED BY <2>1, <2>2 DEF MetSym, SymVisit
<1>3. QED BY <1>1, <1>2

LEMMA RecordedOk ==
  ASSUME CellsOk, NEW x \in Lists, NEW how, NEW v \in DOMAIN gm, NEW r \in Radii
  PROVE  RecordOk(client.multi, Recorded(x, how, v, r))
<1> DEFINE b == Recorded(x, how, v, r)
<1>1. /\ b.at = pos /\ b.geo = geo[x] /\ b.r = r /\ b.v = v
      /\ b.inside = {q \in DOMAIN pos : InDomain(geo[x], pos[q])}
  BY DEF Recorded
<1>2. ASSUME NEW q \in b.inside PROVE CellAt(b, q) \in Int
  <2>1. Sound(geo[x]) /\ IntPoint(pos[q]) /\ InDomain(geo[x], pos[q])
    BY <1>1, <1>2 DEF CellsOk, ListOk, FrameOk
  <2>2. QED BY <1>1, <2>1, CellOfDomain DEF CellAt
<1>3. r \in Nat \ {0}
  BY CellAssumption
<1> HIDE DEF b
<1>4. RecordOk(client.multi, b)
  BY <1>1, <1>2, <1>3 DEF RecordOk, CellsOk, FrameOk
<1>5. QED BY <1>4 DEF b

LEMMA SymRows ==
  ASSUME CellsOk, NEW x \in Lists, UpToDate(x), NEW v \in DOMAIN gm, NEW r \in Radii,
         Fits(x, "sym", r)
  PROVE  SymListed(client.multi, Recorded(x, "sym", v, r), Rows(x, "sym", v, r))
<1> DEFINE b == Recorded(x, "sym", v, r)
           row(p, q) == Rows(x, "sym", v, r)[GetP(p)][q]
<1>1. /\ b.at = pos /\ b.geo = geo[x] /\ r \in Nat
      /\ b.inside = {q \in DOMAIN pos : InDomain(geo[x], pos[q])}
  BY CellAssumption DEF Recorded
<1>2. ListOk(x) /\ Wide(geo[x], r) /\ client.multi \in BOOLEAN /\ Once(cells[x])
  BY DEF CellsOk, FrameOk, ListOk, Fits
<1>3. Thick(geo[x], r)
  BY <1>1, <1>2, WideIsThick DEF ListOk
<1>4. ASSUME NEW p \in Owners(b), NEW q \in DOMAIN pos
      PROVE  /\ row(p, q) \in {0, Near(b, p, q)}
             /\ q \in b.inside =>
                  row(p, q) = IF Comes(client.multi, b, p, q) THEN Near(b, p, q) ELSE 0
  <2>1. p \in DOMAIN pos /\ InDomain(geo[x], pos[p])
    BY OwnerRow
  <2>2. row(p, q) = IF Within(p, q, r) THEN Met(x, "sym", p, q, r) ELSE 0
    <3>1. Rows(x, "sym", v, r)[GetP(p)]
            = [t \in DOMAIN pos |-> IF Within(p, t, r) THEN Met(x, "sym", p, t, r) ELSE 0]
      BY OwnerRow
    <3>2. QED BY <3>1, Zenon
  <2>3. Near(b, p, q) = IF Within(p, q, r) THEN 1 ELSE 0
    BY NearIsWithin
  <2>4. CASE ~Within(p, q, r)
    BY <2>2, <2>3, <2>4
  <2>5. CASE Within(p, q, r)
    <3>1. PICK c \in Int : c = GetCell(geo[x], pos[p])
      BY <2>1, HeldInDomain
    <3>2. PICK e \in Int :
            Holds(x, e, q) /\ (Wide(geo[x], r) => e - c \in NNcFull(geo[x]))
      BY <1>1, <1>3, <2>1, <2>5, <3>1, NearHeld
    <3>3. PICK first \in BOOLEAN : first <=> Precedes(client.multi, pos, p, q)
      OBVIOUS
    <3>4. Met(x, "sym", p, q, r) = SymVisit(x, c, q, first)
      <4>1. Met(x, "sym", p, q, r) = SymVisit(x, c, q, Precedes(client.multi, pos, p, q))
        BY <1>2, <3>1, SymMet
      <4>2. QED BY <3>3, <4>1 DEF SymVisit
    <3>5. Met(x, "sym", p, q, r) = IF e > c \/ (e = c /\ first) THEN 1 ELSE 0
      <4>1. SymVisit(x, c, q, first)
              = IF e - c \in NNcFull(geo[x]) /\ (e > c \/ (e = c /\ first)) THEN 1 ELSE 0
        BY <1>2, <3>2, SymVisitCount
      <4>2. QED BY <1>2, <3>2, <3>4, <4>1
    <3>6. row(p, q) \in {0, Near(b, p, q)}
      BY <2>2, <2>3, <2>5, <3>5
    <3>7. ASSUME q \in b.inside
          PROVE  row(p, q) = IF Comes(client.multi, b, p, q) THEN Near(b, p, q) ELSE 0
      <4>1. Holds(x, GetCell(geo[x], pos[q]), q)
        BY <1>1, <3>7, HeldInDomain
      <4>2. e = GetCell(geo[x], pos[q])
        BY <1>2, <3>2, <4>1, HeldOnce
      <4>3. Comes(client.multi, b, p, q) <=> e > c \/ (e = c /\ first)
        BY <1>1, <3>1, <3>3, <4>2 DEF Comes, CellAt
      <4>4. QED BY <2>2, <2>3, <2>5, <3>5, <4>3
    <3>8. QED BY <3>6, <3>7
  <2>6. QED BY <2>4, <2>5
<1>5. QED BY <1>1, <1>4 DEF SymListed

LEMMA NearSymmetric ==
  ASSUME NEW b, NEW c, b.at = c.at, b.r = c.r, NEW p, NEW q,
         b.at[p] \in Int \X Int, b.at[q] \in Int \X Int
  PROVE  Near(b, p, q) = Near(c, q, p) /\ Near(b, p, q) \in {0, 1}
<1>1. PICK x \in Int, y \in Int : x = b.at[p][1] - b.at[q][1] /\ y = b.at[p][2] - b.at[q][2]
  BY SMT
<1>2. -x = b.at[q][1] - b.at[p][1] /\ -y = b.at[q][2] - b.at[p][2]
  BY <1>1, SMT
<1>3. SquaredNorm(-x, -y) = SquaredNorm(x, y)
  BY SMT DEF SquaredNorm
<1>4. QED BY <1>1, <1>2, <1>3 DEF Near

LEMMA NearItself ==
  ASSUME NEW b, NEW p, NEW q, b.at[p] \in Int \X Int, b.at[q] = b.at[p], b.r \in Nat \ {0}
  PROVE  Near(b, p, q) = 1
<1>1. b.at[p][1] - b.at[q][1] = 0 /\ b.at[p][2] - b.at[q][2] = 0
  BY SMT
<1>2. PICK r \in Nat \ {0} : r = b.r
  OBVIOUS
<1>3. r * r \in Nat \ {0}
  BY ProductsTyped
<1>4. SquaredNorm(0, 0) = 0
  BY SMT DEF SquaredNorm
<1>5. 0 < r * r
  BY <1>3, SMT
<1>6. QED BY <1>1, <1>2, <1>4, <1>5 DEF Near

\* Two particles of one cell are in one order, but for particles of different
\* phases in one place, which are in both.
LEMMA OneOrder ==
  ASSUME NEW multi \in BOOLEAN, NEW at, NEW p \in Int, NEW q \in Int,
         at[p] \in Int \X Int, at[q] \in Int \X Int
  PROVE  /\ p = q => Precedes(multi, at, p, q)
         /\ p # q /\ ~(at[p] = at[q] /\ multi /\ GetV(p) # GetV(q)) =>
              (Precedes(multi, at, p, q) <=> ~Precedes(multi, at, q, p))
         /\ at[p] = at[q] /\ multi /\ GetV(p) # GetV(q) =>
              Precedes(multi, at, p, q) /\ Precedes(multi, at, q, p)
<1>1. PICK a \in Int, b \in Int, c \in Int, d \in Int : at[p] = <<a, b>> /\ at[q] = <<c, d>>
  BY SMT
<1>2. at[p][1] = a /\ at[p][2] = b /\ at[q][1] = c /\ at[q][2] = d
  BY <1>1
<1>3. at[p] = at[q] <=> a = c /\ b = d
  BY <1>1
<1>4. PICK n \in Nat \ {0} : n = Indices
  BY KeyAssumption
<1>5. PICK i \in Int, j \in Int, v \in Int, w \in Int :
        /\ i = GetP(p) /\ v = GetV(p) /\ p = n * v + i
        /\ j = GetP(q) /\ w = GetV(q) /\ q = n * w + j
  <2>1. p = n * (p \div n) + (p % n) /\ p \div n \in Int /\ p % n \in Int
    BY SMT
  <2>2. q = n * (q \div n) + (q % n) /\ q \div n \in Int /\ q % n \in Int
    BY SMT
  <2>3. QED BY <1>4, <2>1, <2>2 DEF GetP, GetV
<1>6. v = w /\ i = j => p = q
  BY <1>5
<1>7. SameFirst(multi, p, q) <=> IF multi THEN w # v \/ j >= i ELSE p <= q
  BY <1>5 DEF SameFirst
<1>8. SameFirst(multi, q, p) <=> IF multi THEN v # w \/ i >= j ELSE q <= p
  BY <1>5 DEF SameFirst
<1>9. Precedes(multi, at, p, q) <=> (b < d \/ (b = d /\ a < c) \/ (a = c /\ b = d /\ SameFirst(multi, p, q)))
  BY <1>2, <1>3 DEF Precedes
<1>10. Precedes(multi, at, q, p) <=> (d < b \/ (d = b /\ c < a) \/ (a = c /\ b = d /\ SameFirst(multi, q, p)))
  BY <1>2, <1>3 DEF Precedes
<1>11. p = q => a = c /\ b = d /\ SameFirst(multi, p, q)
  <2>1. ASSUME p = q PROVE a = c /\ b = d /\ i = j
    BY <1>3, <1>5, <2>1
  <2>2. QED BY <1>7, <2>1
<1>12. CASE a = c /\ b = d
  <2>1. (Precedes(multi, at, p, q) <=> SameFirst(multi, p, q))
        /\ (Precedes(multi, at, q, p) <=> SameFirst(multi, q, p))
    BY <1>9, <1>10, <1>12
  <2>2. CASE multi
    <3>1. /\ SameFirst(multi, p, q) <=> w # v \/ j >= i
          /\ SameFirst(multi, q, p) <=> v # w \/ i >= j
      BY <1>7, <1>8, <2>2
    <3>2. CASE v = w
      <4>1. p # q => i # j
        BY <1>6, <3>2
      <4>2. p # q => (SameFirst(multi, p, q) <=> ~SameFirst(multi, q, p))
        BY <3>1, <3>2, <4>1, SMT
      <4>3. GetV(p) = GetV(q)
        BY <1>5, <3>2
      <4>4. QED BY <1>11, <2>1, <4>2, <4>3
    <3>3. CASE v # w
      <4>1. GetV(p) # GetV(q) /\ p # q
        BY <1>5, <3>3
      <4>2. QED BY <1>3, <1>12, <2>1, <2>2, <3>1, <3>3, <4>1
    <3>4. QED BY <3>2, <3>3
  <2>3. CASE ~multi
    BY <1>7, <1>8, <1>11, <2>1, <2>3
  <2>4. QED BY <2>2, <2>3
<1>13. CASE ~(a = c /\ b = d)
  <2>1. Precedes(multi, at, p, q) <=> (b < d \/ (b = d /\ a < c))
    BY <1>9, <1>13
  <2>2. Precedes(multi, at, q, p) <=> (d < b \/ (d = b /\ c < a))
    BY <1>10, <1>13
  <2>3. (b < d \/ (b = d /\ a < c)) <=> ~(d < b \/ (d = b /\ c < a))
    BY <1>13, SMT
  <2>4. QED BY <1>3, <1>11, <1>13, <2>1, <2>2, <2>3
<1>14. QED BY <1>12, <1>13

LEMMA SymPair ==
  ASSUME NEW multi, NEW b, NEW c, NEW rows, NEW others,
         RecordOk(multi, b), RecordOk(multi, c),
         SymListed(multi, b, rows), SymListed(multi, c, others),
         b.at = c.at, b.geo = c.geo, b.r = c.r, b.v = c.v => rows = others,
         NEW p \in Owners(b), NEW q \in Owners(c)
  PROVE  LET met == rows[GetP(p)][q] + others[GetP(q)][p]
         IN  IF p = q THEN met = 2
             ELSE IF b.at[p] = b.at[q] /\ b.v # c.v THEN met = 2
             ELSE met = Near(b, p, q)
<1>1. /\ p \in b.inside /\ q \in c.inside /\ b.inside = c.inside
      /\ p \in DOMAIN b.at /\ q \in DOMAIN b.at
      /\ GetV(p) = b.v /\ GetV(q) = c.v
  BY DEF Owners, RecordOk
<1>2. /\ p \in Int /\ q \in Int /\ multi \in BOOLEAN /\ b.r \in Nat \ {0}
      /\ b.at[p] \in Int \X Int /\ b.at[q] \in Int \X Int
      /\ ~multi => b.v = 0 /\ c.v = 0
  BY <1>1 DEF RecordOk
<1>3. PICK i \in Int, j \in Int : /\ i = CellAt(b, p) /\ j = CellAt(b, q)
                                  /\ i = CellAt(c, p) /\ j = CellAt(c, q)
  BY <1>1 DEF RecordOk, CellAt
<1>4. PICK n \in {0, 1} : n = Near(b, p, q) /\ n = Near(c, q, p)
  BY <1>2, NearSymmetric
<1>5. PICK s \in BOOLEAN, t \in BOOLEAN :
        (s <=> Precedes(multi, b.at, p, q)) /\ (t <=> Precedes(multi, b.at, q, p))
  OBVIOUS
<1>6. rows[GetP(p)][q] = IF i < j \/ (i = j /\ s) THEN n ELSE 0
  <2>1. rows[GetP(p)][q] = IF Comes(multi, b, p, q) THEN Near(b, p, q) ELSE 0
    BY <1>1 DEF SymListed
  <2>2. QED BY <1>3, <1>4, <1>5, <2>1 DEF Comes
<1>7. others[GetP(q)][p] = IF j < i \/ (i = j /\ t) THEN n ELSE 0
  <2>1. others[GetP(q)][p] = IF Comes(multi, c, q, p) THEN Near(c, q, p) ELSE 0
    BY <1>1 DEF SymListed
  <2>2. QED BY <1>3, <1>4, <1>5, <2>1 DEF Comes
<1>8. b.at[p] = b.at[q] => i = j /\ n = 1
  BY <1>2, <1>3, <1>4, NearItself DEF CellAt
<1>9. p = q => b.at[p] = b.at[q] /\ s /\ t
  BY <1>2, <1>5, OneOrder
<1>10. p # q /\ ~(b.at[p] = b.at[q] /\ b.v # c.v) => (s <=> ~t)
  <2>1. b.v # c.v <=> GetV(p) # GetV(q)
    BY <1>1
  <2>2. QED BY <1>2, <1>5, <2>1, OneOrder
<1>11. b.at[p] = b.at[q] /\ b.v # c.v => s /\ t
  <2>1. b.v # c.v => multi /\ GetV(p) # GetV(q)
    BY <1>1, <1>2
  <2>2. b.at[p] = b.at[q] /\ multi /\ GetV(p) # GetV(q) =>
          Precedes(multi, b.at, p, q) /\ Precedes(multi, b.at, q, p)
    BY <1>2, OneOrder
  <2>3. QED BY <1>5, <2>1, <2>2
<1>12. PICK m : m = rows[GetP(p)][q] + others[GetP(q)][p]
  OBVIOUS
<1>13. CASE i = j
  <2>1. m = (IF s THEN n ELSE 0) + (IF t THEN n ELSE 0)
    BY <1>6, <1>7, <1>12, <1>13, SMT
  <2>2. s /\ t /\ n = 1 => m = 2
    BY <2>1
  <2>3. (s <=> ~t) => m = n
    BY <2>1
  <2>4. QED BY <1>4, <1>8, <1>9, <1>10, <1>11, <1>12, <2>2, <2>3
<1>14. CASE i # j
  <2>1. m = n
    BY <1>3, <1>6, <1>7, <1>12, <1>14, SMT
  <2>2. QED BY <1>4, <1>8, <1>9, <1>12, <1>14, <2>1
<1>15. QED BY <1>13, <1>14

-----------------------------------------------------------------------------
(* The rows of the CRS scheme.                                             *)

\* A cell next to one of the domain is one of the two kinds the scheme visits.
LEMMA NextToDomain ==
  ASSUME NEW g, Sound(g), NEW c \in Int, NEW e \in Int, DomainCell(g, c),
         StepFromTo(g, c, e) \in (-1 .. 1) \X (-1 .. 1)
  PROVE  DomainCell(g, e) \/ AnomalousCell(g, e)
<1>1. PICK w \in Nat \ {0}, z \in Nat \ {0}, o \in Nat \ {0} :
        w = Size2(g, 1) /\ z = Size2(g, 2) /\ o = g.off
  BY SizesTyped DEF Dims
<1>2. PICK i \in Int, j \in Int, k \in Int, l \in Int :
        i = c % w /\ j = c \div w /\ k = e % w /\ l = e \div w
  BY SMT
<1>3. o <= i /\ i < w - o /\ o <= j /\ j < z - o
  <2>1. \A s \in Dims : /\ g.off - 0 <= <<c % Size2(g, 1), c \div Size2(g, 1)>>[s]
                        /\ <<c % Size2(g, 1), c \div Size2(g, 1)>>[s] < Size2(g, s) - g.off + 0
    BY Zenon DEF DomainCell, AtMost
  <2>2. 1 \in Dims /\ 2 \in Dims
    BY DEF Dims
  <2>3. \A s \in Dims : o - 0 <= <<i, j>>[s] /\ <<i, j>>[s] < Size2(g, s) - o + 0
    BY <1>1, <1>2, <2>1
  <2>4. o - 0 <= i /\ i < w - o + 0 /\ o - 0 <= j /\ j < z - o + 0
    BY <1>1, <2>2, <2>3
  <2>5. QED BY <2>4, SMT
<1>4. k - i \in -1 .. 1 /\ l - j \in -1 .. 1
  BY <1>1, <1>2 DEF StepFromTo
<1>5. o - 1 <= k /\ k < w - o + 1 /\ o - 1 <= l /\ l < z - o + 1
  BY <1>3, <1>4, SMT
<1>6. AtMost(g, e, 1)
  <2>1. SUFFICES ASSUME NEW s \in Dims
                 PROVE  /\ g.off - 1 <= <<e % Size2(g, 1), e \div Size2(g, 1)>>[s]
                        /\ <<e % Size2(g, 1), e \div Size2(g, 1)>>[s] < Size2(g, s) - g.off + 1
    BY Zenon DEF AtMost
  <2>2. o - 1 <= <<k, l>>[s] /\ <<k, l>>[s] < Size2(g, s) - o + 1
    <3>1. CASE s = 1
      BY <1>1, <1>5, <3>1
    <3>2. CASE s = 2
      BY <1>1, <1>5, <3>2
    <3>3. QED BY <3>1, <3>2, TwoDims
  <2>3. QED BY <1>1, <1>2, <2>2
<1>7. QED BY <1>6 DEF AnomalousCell

\* The pairs of a cell and an offset that lead from p to q.
CrsVisits(x, p, q) ==
  {v \in {c \in DOMAIN cells[x] : Holds(x, c, p)} \X sym[x] :
     /\ \/ DomainCell(geo[x], v[1])
        \/ AnomalousCell(geo[x], v[1]) /\ DomainCell(geo[x], v[1] + v[2])
     /\ Holds(x, v[1] + v[2], q)
     /\ v[2] = 0 => NotBefore(p, q)}

LEMMA CrsCount ==
  ASSUME NEW x, ListOk(x), NEW p, NEW q, NEW c, NEW e, Holds(x, c, p), Holds(x, e, q)
  PROVE  /\ c \in Int /\ e \in Int
         /\ MetCrs(x, p, q)
              = IF /\ e - c \in NNcFull(geo[x]) /\ e >= c /\ (e = c => NotBefore(p, q))
                   /\ \/ DomainCell(geo[x], c)
                      \/ AnomalousCell(geo[x], c) /\ DomainCell(geo[x], e)
                THEN 1 ELSE 0
<1>1. /\ c \in DOMAIN cells[x] /\ c \in Int /\ e \in Int
      /\ Once(cells[x]) /\ sym[x] = NNcSym(geo[x]) /\ Sound(geo[x])
  BY HoldsAt DEF ListOk, Once
<1>2. PICK d \in Int : d = e - c /\ c + d = e /\ (d = 0 <=> e = c) /\ (d >= 0 <=> e >= c)
  BY <1>1, SMT
<1>3. MetCrs(x, p, q) = Cardinality(CrsVisits(x, p, q))
  BY Zenon DEF MetCrs, CrsVisits
<1>4. CrsVisits(x, p, q) \subseteq {<<c, d>>}
  <2>1. SUFFICES ASSUME NEW k \in DOMAIN cells[x], NEW n \in sym[x],
                        Holds(x, k, p), Holds(x, k + n, q)
                 PROVE  <<k, n>> = <<c, d>>
    BY DEF CrsVisits
  <2>2. k = c
    BY <1>1, <2>1, HeldOnce
  <2>3. k + n = e
    BY <1>1, <2>1, HeldOnce
  <2>4. n \in Int
    BY <1>1, SymHas DEF NNcSym
  <2>5. n = d
    BY <1>1, <1>2, <2>2, <2>3, <2>4, SMT
  <2>6. QED BY <2>2, <2>5
<1>5. <<c, d>> \in CrsVisits(x, p, q) <=>
         /\ d \in sym[x] /\ (d = 0 => NotBefore(p, q))
         /\ \/ DomainCell(geo[x], c)
            \/ AnomalousCell(geo[x], c) /\ DomainCell(geo[x], e)
  BY <1>1, <1>2 DEF CrsVisits
<1>6. d \in sym[x] <=> d \in NNcFull(geo[x]) /\ d >= 0
  BY <1>1, SymHas
<1>7. CASE <<c, d>> \in CrsVisits(x, p, q)
  <2>1. CrsVisits(x, p, q) = {<<c, d>>}
    BY <1>4, <1>7
  <2>2. MetCrs(x, p, q) = 1
    BY <1>3, <2>1, FS_Singleton
  <2>3. QED BY <1>1, <1>2, <1>5, <1>6, <1>7, <2>2
<1>8. CASE <<c, d>> \notin CrsVisits(x, p, q)
  <2>1. CrsVisits(x, p, q) = {}
    BY <1>4, <1>8
  <2>2. MetCrs(x, p, q) = 0
    BY <1>3, <2>1, FS_EmptySet
  <2>3. QED BY <1>1, <1>2, <1>5, <1>6, <1>8, <2>2
<1>9. QED BY <1>7, <1>8

\* What CrsListOnce says of one list.
CrsListed(b, rows, seq) ==
  /\ \A p \in Owners(b), q \in DOMAIN b.at :
       IF p = q THEN rows[p][p] = 1 ELSE rows[p][q] + rows[q][p] = Near(b, p, q)
  /\ Owners(b) \subseteq seq
  /\ \A p \in DOMAIN b.at : p \notin seq => \A q \in DOMAIN b.at : rows[p][q] = 0

LEMMA CrsPair ==
  ASSUME CellsOk, NEW x \in Lists, UpToDate(x), NEW r \in Nat, Wide(geo[x], r),
         NEW p \in DOMAIN pos, NEW q \in DOMAIN pos, InDomain(geo[x], pos[p]), Within(p, q, r)
  PROVE  /\ p = q => MetCrs(x, p, p) = 1
         /\ p # q => MetCrs(x, p, q) + MetCrs(x, q, p) = 1
<1>1. /\ ListOk(x) /\ Sound(geo[x]) /\ Once(cells[x]) /\ p \in Int /\ q \in Int
      /\ pos[p] \in Int \X Int /\ pos[q] \in Int \X Int
  BY DEF CellsOk, ListOk, FrameOk
<1>2. Thick(geo[x], r)
  BY <1>1, WideIsThick
<1>3. PICK c \in Int : /\ c = GetCell(geo[x], pos[p]) /\ DomainCell(geo[x], c)
                       /\ Holds(x, c, p)
  BY HeldInDomain
<1>4. PICK e \in Int :
        /\ Holds(x, e, q)
        /\ StepFromTo(geo[x], c, e) \in (-1 .. 1) \X (-1 .. 1)
        /\ e - c \in NNcFull(geo[x]) /\ c - e \in NNcFull(geo[x])
  BY <1>2, <1>3, NearHeld
<1>5. DomainCell(geo[x], e) \/ AnomalousCell(geo[x], e)
  BY <1>1, <1>3, <1>4, NextToDomain
<1>6. PICK s \in BOOLEAN, t \in BOOLEAN : (s <=> NotBefore(p, q)) /\ (t <=> NotBefore(q, p))
  OBVIOUS
<1>7. /\ Precedes(FALSE, pos, p, q) <=> NotBefore(p, q)
      /\ Precedes(FALSE, pos, q, p) <=> NotBefore(q, p)
  BY DEF Precedes, SameFirst, NotBefore
<1>8. (p = q => s) /\ (p # q => (s <=> ~t))
  BY <1>1, <1>6, <1>7, OneOrder
<1>9. MetCrs(x, p, q) = IF e >= c /\ (e = c => s) THEN 1 ELSE 0
  BY <1>1, <1>3, <1>4, <1>6, CrsCount
<1>10. MetCrs(x, q, p) = IF c >= e /\ (c = e => t) THEN 1 ELSE 0
  BY <1>1, <1>3, <1>4, <1>5, <1>6, CrsCount
<1>11. p = q => e = c
  BY <1>1, <1>3, <1>4, HeldOnce
<1>12. ASSUME p = q PROVE MetCrs(x, p, p) = 1
  BY <1>8, <1>9, <1>11, <1>12
<1>13. ASSUME p # q PROVE MetCrs(x, p, q) + MetCrs(x, q, p) = 1
  BY <1>8, <1>9, <1>10, <1>13, SMT
<1>14. QED BY <1>12, <1>13

LEMMA CrsRowsListed ==
  ASSUME CellsOk, NEW x \in Lists, UpToDate(x), NEW r \in Radii, Fits(x, "crs", r)
  PROVE  CrsListed(Recorded(x, "crs", 0, r), CrsRows(x, r), CrsParticles(x))
<1> DEFINE b == Recorded(x, "crs", 0, r)
           rows == CrsRows(x, r)
<1>1. b.at = pos /\ r \in Nat /\ r \in Nat \ {0}
  BY CellAssumption DEF Recorded
<1>2. ListOk(x) /\ Wide(geo[x], r)
  BY DEF CellsOk, Fits
<1>3. \A p, q \in DOMAIN pos : rows[p][q] = IF Within(p, q, r) THEN MetCrs(x, p, q) ELSE 0
  BY Zenon DEF CrsRows
<1>4. \A p, q : Near(b, p, q) = IF Within(p, q, r) THEN 1 ELSE 0
  BY NearIsWithin
<1>5. RecordOk(client.multi, b)
  BY RecordedOk DEF CellsOk, FrameOk
<1>6. ASSUME NEW p \in Owners(b) PROVE p \in DOMAIN pos /\ InDomain(geo[x], pos[p])
  BY DEF Owners, Recorded
<1>7. ASSUME NEW p \in Owners(b), NEW q \in DOMAIN pos
      PROVE  IF p = q THEN rows[p][p] = 1 ELSE rows[p][q] + rows[q][p] = Near(b, p, q)
  <2>1. p \in DOMAIN pos /\ InDomain(geo[x], pos[p])
    BY <1>6
  <2>2. Near(b, p, q) = Near(b, q, p) /\ (p = q => Near(b, p, q) = 1)
    <3>1. pos[p] \in Int \X Int /\ pos[q] \in Int \X Int /\ b.r \in Nat \ {0}
      BY <1>1, <1>5, <2>1 DEF RecordOk
    <3>2. Near(b, p, q) = Near(b, q, p)
      BY <1>1, <3>1, NearSymmetric
    <3>3. p = q => Near(b, p, q) = 1
      BY <1>1, <3>1, NearItself
    <3>4. QED BY <3>2, <3>3
  <2>3. CASE Within(p, q, r)
    <3>1. Within(q, p, r) /\ Near(b, p, q) = 1
      BY <1>4, <2>2, <2>3
    <3>2. rows[p][q] = MetCrs(x, p, q) /\ rows[q][p] = MetCrs(x, q, p)
      BY <1>3, <2>1, <2>3, <3>1
    <3>3. /\ p = q => MetCrs(x, p, p) = 1
          /\ p # q => MetCrs(x, p, q) + MetCrs(x, q, p) = 1
      BY <1>1, <1>2, <2>1, <2>3, CrsPair
    <3> HIDE DEF b, rows
    <3>4. QED BY <3>1, <3>2, <3>3
  <2>4. CASE ~Within(p, q, r)
    <3>1. ~Within(q, p, r) /\ Near(b, p, q) = 0 /\ p # q
      BY <1>4, <2>2, <2>4
    <3>2. rows[p][q] = 0 /\ rows[q][p] = 0
      BY <1>3, <2>1, <2>4, <3>1
    <3> HIDE DEF b, rows
    <3>3. QED BY <3>1, <3>2
  <2>5. QED BY <2>3, <2>4
<1>8. Owners(b) \subseteq CrsParticles(x)
  <2>1. SUFFICES ASSUME NEW p \in Owners(b) PROVE p \in CrsParticles(x)
    OBVIOUS
  <2>2. p \in DOMAIN pos /\ InDomain(geo[x], pos[p])
    BY <1>6
  <2>3. PICK c : DomainCell(geo[x], c) /\ Holds(x, c, p)
    BY <2>2, HeldInDomain
  <2>4. c \in DOMAIN cells[x]
    BY <2>3, HoldsAt
  <2>5. QED BY <2>2, <2>3, <2>4 DEF CrsParticles
<1>9. ASSUME NEW p \in DOMAIN pos, p \notin CrsParticles(x), NEW q \in DOMAIN pos
      PROVE  rows[p][q] = 0
  <2>1. CrsVisits(x, p, q) = {}
    BY <1>9 DEF CrsVisits, CrsParticles
  <2>2. MetCrs(x, p, q) = 0
    <3>1. MetCrs(x, p, q) = Cardinality(CrsVisits(x, p, q))
      BY Zenon DEF MetCrs, CrsVisits
    <3>2. QED BY <2>1, <3>1, FS_EmptySet
  <2> HIDE DEF rows
  <2>3. QED BY <1>3, <2>2
<1> HIDE DEF b, rows
<1>10. CrsListed(b, rows, CrsParticles(x))
  BY <1>1, <1>7, <1>8, <1>9 DEF CrsListed
<1>11. QED BY <1>10 DEF b, rows

\* What is known of the rows of a list, by what they were built from.
Listed(multi, b, rows, seq) ==
  /\ b.how \in {"full", "radius"} => FullListed(b, rows)
  /\ b.how = "sym" => RecordOk(multi, b) /\ SymListed(multi, b, rows)
  /\ b.how = "crs" => CrsListed(b, rows, seq)

RowsRight ==
  \A x \in Lists, r \in Radii : UpToDate(x) =>
    /\ \A v \in DOMAIN gm, how \in {"full", "radius", "sym"} :
         Fits(x, how, r) =>
           Listed(client.multi, Recorded(x, how, v, r), Rows(x, how, v, r), {})
    /\ Fits(x, "crs", r) =>
         Listed(client.multi, Recorded(x, "crs", 0, r), CrsRows(x, r), CrsParticles(x))

LEMMA RowsAreRight == CellsOk => RowsRight
<1> SUFFICES ASSUME CellsOk, NEW x \in Lists, NEW r \in Radii, UpToDate(x)
             PROVE  /\ \A v \in DOMAIN gm, how \in {"full", "radius", "sym"} :
                         Fits(x, how, r) =>
                           Listed(client.multi, Recorded(x, how, v, r), Rows(x, how, v, r), {})
                    /\ Fits(x, "crs", r) =>
                         Listed(client.multi, Recorded(x, "crs", 0, r), CrsRows(x, r), CrsParticles(x))
  BY DEF RowsRight
<1>1. \A how, v : Recorded(x, how, v, r).how = how
  BY DEF Recorded
<1>2. ASSUME NEW v \in DOMAIN gm, NEW how \in {"full", "radius", "sym"}, Fits(x, how, r)
      PROVE  Listed(client.multi, Recorded(x, how, v, r), Rows(x, how, v, r), {})
  <2>1. CASE how \in {"full", "radius"}
    <3>1. FullListed(Recorded(x, how, v, r), Rows(x, how, v, r))
      BY <1>2, <2>1, FullRows
    <3>2. how # "sym" /\ how # "crs"
      BY <2>1
    <3>3. QED BY <1>1, <3>1, <3>2 DEF Listed
  <2>2. CASE how = "sym"
    <3>1. /\ RecordOk(client.multi, Recorded(x, "sym", v, r))
          /\ SymListed(client.multi, Recorded(x, "sym", v, r), Rows(x, "sym", v, r))
      BY <1>2, <2>2, RecordedOk, SymRows
    <3>2. QED BY <1>1, <2>2, <3>1 DEF Listed
  <2>3. QED BY <1>2, <2>1, <2>2
<1>3. ASSUME Fits(x, "crs", r)
      PROVE  Listed(client.multi, Recorded(x, "crs", 0, r), CrsRows(x, r), CrsParticles(x))
  BY <1>1, <1>3, CrsRowsListed DEF Listed
<1>4. QED BY <1>2, <1>3

\* The same of the state after a step.
LEMMA RowsStayRight == CellsOk' => RowsRight'
BY RowsAreRight, PTL

-----------------------------------------------------------------------------
(* The decompositions a Verlet list makes, and its cells filled.           *)

LEMMA BoxDivides ==
  ASSUME NEW r \in Radii, NEW s \in Dims, NEW len, len = Box.high[s] - Box.low[s]
  PROVE  /\ r \in Nat \ {0} /\ len \in Nat \ {0} /\ r <= len /\ len % (len \div r) = 0
         /\ Box.low[s] \in Int /\ Dom.low[s] \in Int /\ Dom.high[s] \in Int
         /\ Box.high[s] = Box.low[s] + len
         /\ Box.low[s] <= Dom.low[s] /\ Dom.low[s] <= Dom.high[s]
         /\ Dom.high[s] <= Box.high[s]
<1>1. r \in Nat \ {0}
  BY CellAssumption
<1>2. /\ Box.low[s] \in Int /\ Box.high[s] \in Int /\ Dom.low[s] \in Int /\ Dom.high[s] \in Int
      /\ Box.low[s] <= Dom.low[s] /\ Dom.low[s] <= Dom.high[s]
      /\ Dom.high[s] <= Box.high[s]
  BY VerletAssumption
<1>3. r <= len /\ len % (len \div r) = 0
  BY VerletAssumption
<1>4. len \in Nat \ {0} /\ Box.high[s] = Box.low[s] + len
  <2>1. PICK a \in Int, b \in Int : a = Box.low[s] /\ b = Box.high[s]
    BY <1>2
  <2>2. len = b - a /\ r <= len
    BY <1>3, <2>1
  <2>3. QED BY <1>1, <2>1, <2>2, SMT
<1>5. QED BY <1>1, <1>2, <1>3, <1>4, Zenon

LEMMA ParamSound ==
  ASSUME NEW r \in Radii
  PROVE  LET g == ParamCalculate(r) IN Sound(g) /\ g.div2 = g.div /\ Wide(g, r)
<1> DEFINE g == ParamCalculate(r)
           unit == [s \in Dims |-> r]
           div == [s \in Dims |-> (Box.high[s] - Box.low[s]) \div r + 1]
<1>1. g = Whole(Box.low, unit, div, 1)
  BY DEF ParamCalculate
<1>2. /\ g.low = Box.low /\ g.unit = unit /\ g.div = div /\ g.div2 = div /\ g.off = 1
      /\ g.cell_shift = <<0, 0>>
  BY <1>1 DEF Whole
<1>3. ASSUME NEW s \in Dims
      PROVE  Box.low[s] \in Int /\ unit[s] = r /\ r \in Nat \ {0} /\ div[s] \in Nat \ {0}
  <2>1. PICK len : len = Box.high[s] - Box.low[s]
    OBVIOUS
  <2>2. r \in Nat \ {0} /\ len \in Nat \ {0} /\ Box.low[s] \in Int
    BY <2>1, BoxDivides
  <2>3. len \div r \in Nat
    BY <2>2, SMT
  <2>4. QED BY <2>1, <2>2, <2>3
<1> HIDE DEF g, unit, div
<1>4. Unnested(g)
  <2>1. g = Whole(g.low, g.unit, g.div, g.off)
    BY <1>1, <1>2
  <2>2. g.off \in Nat \ {0}
    BY <1>2, SMT
  <2>3. QED BY <1>2, <1>3, <2>1, <2>2 DEF Unnested
<1>5. Wide(g, r)
  <2>1. \A s \in Dims : g.unit[s] = r /\ r \in Nat
    <3>1. g.unit = unit /\ \A s \in Dims : unit[s] = r
      BY <1>2, <1>3, Zenon
    <3>2. r \in Nat
      BY CellAssumption
    <3>3. QED BY <3>1, <3>2, Zenon
  <2>2. r <= r
    BY CellAssumption
  <2>3. \A s \in Dims : r <= g.unit[s]
    BY <2>1, <2>2, Zenon
  <2>4. QED BY <2>3, Zenon DEF Wide
<1>6. QED BY <1>4, <1>5, WholeSound DEF g

\* In one dimension: as many cells of the cut-off as fit, stretched to the box.
LEMMA StretchedCells ==
  ASSUME NEW r \in Nat \ {0}, NEW len \in Nat \ {0}, r <= len, len % (len \div r) = 0
  PROVE  LET d == len \div r
         IN  d \in Nat \ {0} /\ len \div d \in Nat \ {0} /\ (len \div d) * d = len
             /\ r <= len \div d
<1>1. PICK d \in Int : d = len \div r /\ r * d <= len /\ len < r * d + r
  BY DivBounds
<1>2. d > 0
  <2>1. r * d + r = r * (d + 1) /\ r * 0 = 0
    BY TimesOne, SMT
  <2>2. r * 0 < r * (d + 1)
    BY <1>1, <2>1, SMT
  <2>3. 0 < d + 1
    BY <2>2, TimesCancels
  <2>4. CASE d = 0
    BY <1>1, <2>1, <2>4, SMT
  <2>5. QED BY <2>3, <2>4, SMT
<1>3. d \in Nat \ {0} /\ len % d = 0
  BY <1>1, <1>2, SMT
<1>4. PICK u \in Int : u = len \div d /\ len = d * u
  <2>1. len = d * (len \div d) + (len % d) /\ len \div d \in Int
    BY <1>3, SMT
  <2>2. QED BY <1>3, <2>1, SMT
<1>5. u * d = d * u
  BY <1>3, SMT
<1>6. r <= u
  <2>1. SUFFICES ASSUME u < r PROVE FALSE
    BY SMT
  <2>2. d * (r - u) \in Nat \ {0}
    <3>1. r - u \in Nat \ {0}
      BY <2>1, SMT
    <3>2. QED BY <1>3, <3>1, ProductsTyped
  <2>3. d * (r - u) = d * r - d * u /\ d * r \in Int /\ d * u \in Int /\ d * r = r * d
    BY <1>3, TimesSum, SMT
  <2>4. QED BY <1>1, <1>4, <2>2, <2>3, SMT
<1>7. u \in Nat \ {0} /\ u * d = len
  BY <1>4, <1>5, <1>6, SMT
<1>8. QED BY <1>1, <1>3, <1>4, <1>6, <1>7, Zenon

LEMMA ParamSymSound ==
  ASSUME NEW r \in Radii
  PROVE  LET g == ParamCalculateSym(r) IN Sound(g) /\ Wide(g, r)
<1> DEFINE len(s) == Box.high[s] - Box.low[s]
           div == [s \in Dims |-> len(s) \div r]
           unit == [s \in Dims |-> len(s) \div div[s]]
           pad == Ceil(1013 * Ghost, 1000 * r)
           w == Whole(Box.low, unit, div, pad)
           g == Nested(w, Dom, pad)
<1>1. g = ParamCalculateSym(r)
  BY Zenon DEF ParamCalculateSym
<1>2. pad \in Nat \ {0}
  <2>1. r \in Nat \ {0} /\ Ghost \in Nat \ {0}
    BY CellAssumption, VerletAssumption
  <2>2. PICK a \in Nat \ {0}, b \in Nat \ {0} : a = 1013 * Ghost /\ b = 1000 * r
    BY <2>1, SMT
  <2>3. pad \in Int /\ a <= b * pad
    <3>1. Ceil(a, b) \in Int /\ a <= b * Ceil(a, b)
      BY CeilBounds
    <3>2. pad = Ceil(a, b)
      BY <2>2
    <3>3. QED BY <3>1, <3>2
  <2>4. b * pad > b * 0
    <3>1. b * 0 = 0 /\ b * pad \in Int
      BY <2>3, TimesSum, SMT
    <3>2. QED BY <2>2, <2>3, <3>1, SMT
  <2>5. 0 < pad
    BY <2>3, <2>4, TimesCancels
  <2>6. QED BY <2>3, <2>5, SMT
<1>3. /\ w.low = Box.low /\ w.unit = unit /\ w.div = div /\ w.off = pad
      /\ w = Whole(w.low, w.unit, w.div, w.off)
  BY DEF Whole
<1>4. ASSUME NEW s \in Dims
      PROVE  /\ Box.low[s] \in Int /\ unit[s] \in Nat \ {0} /\ div[s] \in Nat \ {0}
             /\ Box.low[s] + unit[s] * div[s] = Box.high[s] /\ r <= unit[s]
  <2>1. PICK m : m = len(s)
    OBVIOUS
  <2>2. /\ r \in Nat \ {0} /\ m \in Nat \ {0} /\ r <= m /\ m % (m \div r) = 0
        /\ Box.low[s] \in Int /\ Box.high[s] = Box.low[s] + m
    BY <2>1, BoxDivides
  <2>3. PICK d, u : d = m \div r /\ u = m \div d
    OBVIOUS
  <2>4. d \in Nat \ {0} /\ u \in Nat \ {0} /\ u * d = m /\ r <= u
    BY <2>2, <2>3, StretchedCells
  <2>5. div[s] = d /\ unit[s] = u
    BY <2>1, <2>3
  <2> HIDE DEF div, unit
  <2>6. QED BY <2>2, <2>4, <2>5
<1> HIDE DEF w, unit, div, pad
<1>5. Unnested(w)
  <2>1. \A s \in Dims : w.low[s] \in Int /\ w.unit[s] \in Nat \ {0} /\ w.div[s] \in Nat \ {0}
    BY <1>3, <1>4
  <2>2. QED BY <1>2, <1>3, <2>1, Zenon DEF Unnested
<1>6. PartOf(Dom, w)
  <2>1. SUFFICES ASSUME NEW s \in Dims
                 PROVE  /\ Dom.low[s] \in Int /\ Dom.high[s] \in Int
                        /\ Dom.low[s] <= Dom.high[s]
                        /\ w.low[s] <= Dom.low[s] /\ Dom.high[s] <= High(w, s)
    BY Zenon DEF PartOf
  <2>2. High(w, s) = Box.high[s]
    BY <1>3, <1>4 DEF High
  <2>3. PICK m : m = Box.high[s] - Box.low[s]
    OBVIOUS
  <2>4. QED BY <1>3, <2>2, <2>3, BoxDivides
<1>7. Sound(g)
  <2>1. g = Nested(w, Dom, w.off)
    BY <1>3
  <2>2. QED BY <1>5, <1>6, <2>1, NestedSound
<1>8. g.unit = unit
  BY <1>3 DEF Nested, Whole
<1>9. Wide(g, r)
  BY <1>4, <1>8 DEF Wide
<1> HIDE DEF g
<1>10. QED BY <1>1, <1>7, <1>9

LEMMA SeqOfSet ==
  ASSUME NEW S, IsFiniteSet(S)
  PROVE  /\ \A i, j \in DOMAIN SetToSeq(S) : SetToSeq(S)[i] = SetToSeq(S)[j] => i = j
         /\ \A q : q \in S <=> \E i \in DOMAIN SetToSeq(S) : SetToSeq(S)[i] = q
<1> DEFINE n == Cardinality(S)
           f == SetToSeq(S)
<1>1. n \in Nat /\ \E h \in [1 .. n -> S] : IsInjective(h)
  BY FS_NatBijection, FS_CountingElements, FS_CardinalityType
     DEF IsInjective, ExistsBijection, Bijection, Injection
<1>2. f \in [1 .. n -> S] /\ IsInjective(f)
  BY <1>1 DEF SetToSeq
<1>3. f \in Injection(1 .. n, S)
  BY <1>2 DEF Injection, IsInjective
<1>4. IsFiniteSet(1 .. n) /\ Cardinality(1 .. n) = n
  BY <1>1, FS_Interval
<1>5. f \in Surjection(1 .. n, S)
  BY <1>3, <1>4, FS_Injection
<1> HIDE DEF f
<1>6. \A i, j \in DOMAIN f : f[i] = f[j] => i = j
  BY <1>2 DEF IsInjective
<1>7. \A q : q \in S <=> \E i \in DOMAIN f : f[i] = q
  BY <1>2, <1>5 DEF Surjection
<1>8. QED BY <1>6, <1>7 DEF f

LEMMA FilledOnce ==
  ASSUME FrameOk, NEW g, Sound(g), NEW opt, NEW m, m = Filled(g, opt)
  PROVE  /\ Once(m) /\ DOMAIN m = 0 .. NCells(g) - 1
         /\ \A q \in DOMAIN pos : LET c == Place(g, opt)[q] IN
              c \in DOMAIN m => \E i \in DOMAIN m[c] : m[c][i] = q
<1> DEFINE place == Place(g, opt)
           at(c) == {q \in DOMAIN pos : place[q] = c}
<1>1. /\ DOMAIN m = 0 .. NCells(g) - 1
      /\ \A c \in DOMAIN m :
           m[c] = IF \A q \in DOMAIN pos : place[q] # c THEN <<>> ELSE SetToSeq(at(c))
  BY Zenon DEF Filled
<1>2. DOMAIN m \subseteq Int
  <2>1. PICK n : DOMAIN m = 0 .. n
    BY <1>1
  <2>2. QED BY <2>1, SMT
<1>3. ASSUME NEW c \in DOMAIN m
      PROVE  /\ \A i, j \in DOMAIN m[c] : m[c][i] = m[c][j] => i = j
             /\ \A q : q \in at(c) <=> \E i \in DOMAIN m[c] : m[c][i] = q
  <2>1. CASE \A q \in DOMAIN pos : place[q] # c
    <3>1. m[c] = <<>> /\ at(c) = {}
      BY <1>1, <2>1
    <3>2. DOMAIN m[c] = {}
      BY <3>1
    <3> HIDE DEF at
    <3>3. QED BY <3>1, <3>2
  <2>2. CASE ~\A q \in DOMAIN pos : place[q] # c
    <3>1. m[c] = SetToSeq(at(c))
      BY <1>1, <2>2
    <3>2. IsFiniteSet(at(c))
      BY FS_Subset DEF FrameOk
    <3> HIDE DEF at
    <3>3. QED BY <3>1, <3>2, SeqOfSet
  <2>3. QED BY <2>1, <2>2
<1>4. ASSUME NEW c \in DOMAIN m, NEW d \in DOMAIN m,
             NEW i \in DOMAIN m[c], NEW j \in DOMAIN m[d], m[c][i] = m[d][j]
      PROVE  c = d /\ i = j
  <2>1. m[c][i] \in at(c) /\ m[d][j] \in at(d)
    BY <1>3
  <2>2. c = d
    BY <1>4, <2>1
  <2>3. QED BY <1>3, <1>4, <2>2
<1>5. ASSUME NEW q \in DOMAIN pos, place[q] \in DOMAIN m
      PROVE  \E i \in DOMAIN m[place[q]] : m[place[q]][i] = q
  <2>1. q \in at(place[q])
    OBVIOUS
  <2> HIDE DEF place, at
  <2>2. QED BY <1>3, <1>5, <2>1
<1>6. Once(m)
  BY <1>2, <1>4 DEF Once
<1>7. QED BY <1>1, <1>5, <1>6

\* A list that is cleared and filled is as it has to be, and has every
\* particle where it is now.
LEMMA InitClKeeps ==
  ASSUME CellsOk, NEW x \in Lists, NEW g, Sound(g), x \in External => g.div2 = g.div,
         NEW opt, InitCl(x, g, opt), UNCHANGED client
  PROVE  CellsOk' /\ UpToDate(x)' /\ geo' = [geo EXCEPT ![x] = g]
<1>1. /\ geo' = [geo EXCEPT ![x] = g]
      /\ full' = [full EXCEPT ![x] = NNcFull(g)]
      /\ sym' = [sym EXCEPT ![x] = NNcSym(g)]
      /\ cells' = [cells EXCEPT ![x] = Filled(g, opt)]
      /\ stale' = stale \ {x}
      /\ UNCHANGED <<rcache, pos, gm>>
  BY DEF InitCl
<1>2. PICK m : m = Filled(g, opt)
  OBVIOUS
<1>3. geo'[x] = g /\ full'[x] = NNcFull(g) /\ sym'[x] = NNcSym(g) /\ cells'[x] = m
  BY <1>1, <1>2 DEF CellsOk
<1>4. FrameOk /\ FrameOk'
  BY <1>1 DEF CellsOk, FrameOk
<1>5. /\ Once(m) /\ DOMAIN m = 0 .. NCells(g) - 1
      /\ \A q \in DOMAIN pos : LET c == Place(g, opt)[q] IN
           c \in DOMAIN m => \E i \in DOMAIN m[c] : m[c][i] = q
  BY <1>2, <1>4, FilledOnce
<1>6. CellsOk'
  <2>1. ListOk(x)'
    BY <1>3, <1>5 DEF ListOk
  <2>2. ASSUME NEW y \in Lists, y # x PROVE ListOk(y)'
    <3>1. geo'[y] = geo[y] /\ full'[y] = full[y] /\ sym'[y] = sym[y] /\ cells'[y] = cells[y]
      BY <1>1, <2>2 DEF CellsOk
    <3>2. QED BY <3>1 DEF CellsOk, ListOk
  <2>3. QED BY <1>1, <1>4, <2>1, <2>2 DEF CellsOk
<1>7. ASSUME NEW q \in DOMAIN pos
      PROVE  \/ Holds(x, GetCell(g, pos[q]), q)'
             \/ /\ \A s \in Dims : g.low[s] <= pos[q][s] /\ pos[q][s] <= High(g, s)
                /\ Holds(x, GetCellDom(g, pos[q]), q)'
  <2>1. InSpace(g, pos[q]) /\ IntPoint(pos[q])
    BY <1>4 DEF InitCl, FrameOk
  <2>2. \A c \in 0 .. NCells(g) - 1 : Place(g, opt)[q] = c => Holds(x, c, q)'
    BY <1>3, <1>5 DEF Holds, Range
  <2>3. CASE opt = "sym" /\ ~IsGhost(q)
    <3>1. \A s \in Dims : g.low[s] <= pos[q][s] /\ pos[q][s] <= High(g, s)
      BY <2>3 DEF InitCl
    <3>2. Place(g, opt)[q] = GetCellDom(g, pos[q])
      BY <2>3 DEF Place
    <3>3. GetCellDom(g, pos[q]) \in 0 .. NCells(g) - 1
      BY <2>1, <3>1, GetCellDomHolds
    <3>4. Holds(x, GetCellDom(g, pos[q]), q)'
      BY <1>1, <2>2, <3>2, <3>3
    <3>5. QED BY <3>1, <3>4
  <2>4. CASE ~(opt = "sym" /\ ~IsGhost(q))
    <3>1. Place(g, opt)[q] = GetCell(g, pos[q])
      BY <2>4 DEF Place
    <3>2. GetCell(g, pos[q]) \in 0 .. NCells(g) - 1
      BY <2>1, GetCellHolds
    <3>3. Holds(x, GetCell(g, pos[q]), q)'
      BY <1>1, <2>2, <3>1, <3>2
    <3>4. QED BY <3>3
  <2>5. QED BY <2>3, <2>4
<1>8. UpToDate(x)'
  BY <1>1, <1>3, <1>7 DEF UpToDate
<1>9. QED BY <1>1, <1>6, <1>8

-----------------------------------------------------------------------------
(* The invariant.                                                          *)

\* The cells of a list are as wide as the cut-off they were made for.
Divided(l) == made[l] \in Nat /\ (made[l] # 0 => Wide(geo[Cli[l]], made[l]))

RowsOk ==
  /\ DOMAIN nn = Verlets /\ DOMAIN dp = Verlets /\ DOMAIN built = Verlets
  /\ \A l \in Verlets : Listed(client.multi, built[l], nn[l], dp[l])

VInv ==
  /\ CellsOk /\ RowsOk
  /\ DOMAIN made = Verlets /\ \A l \in Verlets : Divided(l)

LEMMA CliTyped ==
  /\ \A l \in Verlets : Cli[l] \in Lists /\ Cli[l] \notin External
  /\ \A l, m \in Verlets : Cli[l] = Cli[m] => l = m
  /\ External \subseteq Lists
BY VerletAssumption

LEMMA NothingListed ==
  ASSUME NEW multi, NEW rows, NEW seq
  PROVE  Listed(multi, NotBuilt, rows, seq)
BY DEF Listed, NotBuilt

LEMMA FrameIsOk ==
  ASSUME NEW f \in Frames, pos = f.at, gm = f.gm, f.multi = client.multi, client.multi \in BOOLEAN
  PROVE  FrameOk
<1>1. /\ IsFiniteSet(DOMAIN f.at) /\ DOMAIN f.at \subseteq Int
      /\ f.at \in [DOMAIN f.at -> Int \X Int]
      /\ 0 \in DOMAIN f.gm /\ DOMAIN f.gm \subseteq 0 .. Phases - 1
      /\ \A v \in DOMAIN f.gm : f.gm[v] \in Nat
      /\ ~f.multi => DOMAIN f.gm = {0}
  BY VerletAssumption, CellAssumption
<1>2. ASSUME NEW q \in DOMAIN pos PROVE pos[q] \in Int \X Int /\ IntPoint(pos[q])
  <2>1. pos[q] \in Int \X Int
    BY <1>1
  <2>2. pos[q][1] \in Int /\ pos[q][2] \in Int
    BY <2>1
  <2>3. QED BY <2>1, <2>2, TwoDims DEF IntPoint
<1>3. QED BY <1>1, <1>2 DEF FrameOk

\* The same of the state after a step.
FramesAreOk ==
  \A f \in Frames :
    pos = f.at /\ gm = f.gm /\ f.multi = client.multi /\ client.multi \in BOOLEAN => FrameOk

LEMMA FramesOk == FramesAreOk
BY FrameIsOk DEF FramesAreOk

LEMMA FrameWillBeOk == FramesAreOk'
BY FramesOk, PTL

LEMMA VInitInv == VInit => VInv
<1> SUFFICES ASSUME VInit PROVE VInv
  OBVIOUS
<1>1. FrameOk
  <2>1. client.multi \in BOOLEAN
    BY VerletAssumption DEF VInit
  <2>2. QED BY <2>1, FrameIsOk DEF VInit
<1>2. PICK g \in Decompositions : /\ geo = [x \in Lists |-> g]
                                  /\ full = [x \in Lists |-> NNcFull(g)]
                                  /\ sym = [x \in Lists |-> NNcSym(g)]
  BY VerletAssumption DEF VInit
<1>3. Sound(g) /\ g.div2 = g.div
  BY GivenUnnested, WholeSound
<1>4. ASSUME NEW x \in Lists PROVE ListOk(x)
  <2>1. cells[x] = Mem!Empty(0)
    BY DEF VInit
  <2>2. DOMAIN cells[x] = {}
    BY <2>1, SMT DEF Mem!Empty
  <2>3. Once(cells[x])
    BY <2>2 DEF Once
  <2>4. QED BY <1>2, <1>3, <2>3 DEF ListOk
<1>5. CellsOk
  BY <1>1, <1>2, <1>4 DEF CellsOk, VInit
<1>6. RowsOk
  BY NothingListed DEF RowsOk, VInit
<1>7. DOMAIN made = Verlets /\ \A l \in Verlets : Divided(l)
  BY DEF VInit, Divided
<1>8. QED BY <1>5, <1>6, <1>7 DEF VInv

\* What Create needs to be told for a record to be kept.
Suits(x, how, r) ==
  IF how = "radius" THEN Thick(geo[x], r) /\ geo[x].div2 = geo[x].div ELSE Wide(geo[x], r)

LEMMA CreateKeeps ==
  ASSUME RowsOk, CellsOk', UNCHANGED client, NEW l \in Verlets, NEW x \in Lists,
         NEW how \in {"full", "radius", "sym"}, NEW v \in DOMAIN gm', NEW r \in Radii,
         NEW enough \in BOOLEAN, enough => Suits(x, how, r)',
         Create(l, x, how, v, r, enough)
  PROVE  RowsOk'
<1>1. /\ nn' = [nn EXCEPT ![l] = Rows(x, how, v, r)']
      /\ dp' = [dp EXCEPT ![l] = {}]
      /\ built' = [built EXCEPT ![l] = Record(x, how, v, r, enough)']
  BY DEF Create
<1>2. PICK b : b = Record(x, how, v, r, enough)'
  OBVIOUS
<1>3. PICK rows : rows = Rows(x, how, v, r)'
  OBVIOUS
<1>4. \/ b = NotBuilt
      \/ UpToDate(x)' /\ Fits(x, how, r)' /\ b = Recorded(x, how, v, r)'
  BY <1>2 DEF Record, Recorded, Fits, Suits
<1>5. RowsRight'
  BY RowsStayRight
<1>6. Listed(client'.multi, b, rows, {})
  <2>1. CASE b = NotBuilt
    BY <2>1, NothingListed
  <2>2. CASE UpToDate(x)' /\ Fits(x, how, r)' /\ b = Recorded(x, how, v, r)'
    BY <1>3, <1>5, <2>2 DEF RowsRight
  <2>3. QED BY <1>4, <2>1, <2>2
<1>7. nn'[l] = rows /\ dp'[l] = {} /\ built'[l] = b
  BY <1>1, <1>2, <1>3 DEF RowsOk
<1>8. ASSUME NEW k \in Verlets, k # l
      PROVE  nn'[k] = nn[k] /\ dp'[k] = dp[k] /\ built'[k] = built[k]
  BY <1>1, <1>8 DEF RowsOk
<1>9. DOMAIN nn' = Verlets /\ DOMAIN dp' = Verlets /\ DOMAIN built' = Verlets
  BY <1>1 DEF RowsOk
<1>10. ASSUME NEW k \in Verlets PROVE Listed(client'.multi, built'[k], nn'[k], dp'[k])
  <2>1. CASE k = l
    BY <1>6, <1>7, <2>1
  <2>2. CASE k # l
    BY <1>8, <2>2 DEF RowsOk
  <2>3. QED BY <2>1, <2>2
<1>11. QED BY <1>9, <1>10 DEF RowsOk

LEMMA CreateCrsKeeps ==
  ASSUME RowsOk, CellsOk', UNCHANGED client, NEW l \in Verlets, NEW r \in Radii,
         NEW enough \in BOOLEAN, enough => Wide(geo[Cli[l]], r)',
         CreateCrs(l, r, enough)
  PROVE  RowsOk'
<1>1. /\ nn' = [nn EXCEPT ![l] = CrsRows(Cli[l], r)']
      /\ dp' = [dp EXCEPT ![l] = CrsParticles(Cli[l])']
      /\ built' = [built EXCEPT ![l] = Record(Cli[l], "crs", 0, r, enough)']
  BY DEF CreateCrs
<1>2. PICK x \in Lists : x = Cli[l]
  BY CliTyped
<1>3. PICK b, rows, seq : /\ b = Record(x, "crs", 0, r, enough)'
                          /\ rows = CrsRows(x, r)' /\ seq = CrsParticles(x)'
  OBVIOUS
<1>4. \/ b = NotBuilt
      \/ UpToDate(x)' /\ Fits(x, "crs", r)' /\ b = Recorded(x, "crs", 0, r)'
  BY <1>2, <1>3 DEF Record, Recorded, Fits
<1>5. RowsRight'
  BY RowsStayRight
<1>6. Listed(client'.multi, b, rows, seq)
  <2>1. CASE b = NotBuilt
    BY <2>1, NothingListed
  <2>2. CASE UpToDate(x)' /\ Fits(x, "crs", r)' /\ b = Recorded(x, "crs", 0, r)'
    BY <1>3, <1>5, <2>2 DEF RowsRight
  <2>3. QED BY <1>4, <2>1, <2>2
<1>7. nn'[l] = rows /\ dp'[l] = seq /\ built'[l] = b
  BY <1>1, <1>2, <1>3 DEF RowsOk
<1>8. ASSUME NEW k \in Verlets, k # l
      PROVE  nn'[k] = nn[k] /\ dp'[k] = dp[k] /\ built'[k] = built[k]
  BY <1>1, <1>8 DEF RowsOk
<1>9. DOMAIN nn' = Verlets /\ DOMAIN dp' = Verlets /\ DOMAIN built' = Verlets
  BY <1>1 DEF RowsOk
<1>10. ASSUME NEW k \in Verlets PROVE Listed(client'.multi, built'[k], nn'[k], dp'[k])
  <2>1. CASE k = l
    BY <1>6, <1>7, <2>1
  <2>2. CASE k # l
    BY <1>8, <2>2 DEF RowsOk
  <2>3. QED BY <2>1, <2>2
<1>11. QED BY <1>9, <1>10 DEF RowsOk

-----------------------------------------------------------------------------
(* Every call keeps it.                                                    *)

LEMMA SameRowsKeep ==
  ASSUME RowsOk, UNCHANGED <<nn, dp, built, client>>
  PROVE  RowsOk'
BY DEF RowsOk

\* A list that is divided again: for a cut-off, or as before.
LEMMA DividedKeeps ==
  ASSUME VInv, NEW l \in Verlets, NEW g, geo' = [geo EXCEPT ![Cli[l]] = g],
         NEW r, r \in Nat, Wide(g, r), made' = [made EXCEPT ![l] = r]
  PROVE  DOMAIN made' = Verlets /\ \A k \in Verlets : Divided(k)'
<1>1. ASSUME NEW k \in Verlets PROVE Divided(k)'
  <2>1. CASE k = l
    <3>1. geo'[Cli[k]] = g /\ made'[k] = r
      BY <2>1, CliTyped DEF VInv, CellsOk
    <3>2. QED BY <3>1 DEF Divided
  <2>2. CASE k # l
    <3>1. Cli[k] # Cli[l] /\ Cli[k] \in Lists
      BY <2>2, CliTyped
    <3>2. geo'[Cli[k]] = geo[Cli[k]] /\ made'[k] = made[k]
      BY <2>2, <3>1 DEF VInv, CellsOk
    <3>3. QED BY <3>2 DEF Divided, VInv
  <2>3. QED BY <2>1, <2>2
<1>2. QED BY <1>1 DEF VInv

\* The cells of the Verlet lists stay.
LEMMA SameDivision ==
  ASSUME VInv, \A l \in Verlets : geo'[Cli[l]] = geo[Cli[l]], UNCHANGED made
  PROVE  DOMAIN made' = Verlets /\ \A k \in Verlets : Divided(k)'
BY DEF VInv, Divided

LEMMA InitializeBoxKeeps ==
  ASSUME VInv, NEW l \in Verlets, NEW r \in Radii, NEW opt \in Options, InitializeBox(l, r, opt)
  PROVE  VInv' /\ built'[l].how = opt
<1>1. PICK x \in Lists : x = Cli[l] /\ x \notin External
  BY CliTyped
<1>2. PICK g : g = ParamCalculate(r)
  OBVIOUS
<1>3. Sound(g) /\ g.div2 = g.div /\ Wide(g, r) /\ r \in Nat
  BY <1>2, ParamSound, CellAssumption
<1>4. /\ InitCl(x, g, opt) /\ UNCHANGED client /\ made' = [made EXCEPT ![l] = r]
      /\ Create(l, x, opt, 0, r, TRUE)
  BY <1>1, <1>2 DEF InitializeBox, Call
<1>5. CellsOk /\ RowsOk
  BY DEF VInv
<1>6. CellsOk' /\ UpToDate(x)' /\ geo' = [geo EXCEPT ![x] = g]
  BY <1>1, <1>3, <1>4, <1>5, InitClKeeps
<1>7. geo'[x] = g
  BY <1>5, <1>6 DEF CellsOk
<1>8. 0 \in DOMAIN gm' /\ Wide(geo'[x], r) /\ opt \in {"full", "radius", "sym"} /\ opt # "radius"
  BY <1>3, <1>6, <1>7 DEF CellsOk, FrameOk, Options
<1>9. RowsOk'
  <2>1. Suits(x, opt, r)'
    BY <1>8 DEF Suits
  <2>2. QED BY <1>4, <1>5, <1>6, <1>8, <2>1, CreateKeeps
<1>10. DOMAIN made' = Verlets /\ \A k \in Verlets : Divided(k)'
  BY <1>1, <1>3, <1>4, <1>6, DividedKeeps
<1>11. built'[l] = Recorded(x, opt, 0, r)'
  BY <1>4, <1>5, <1>6, <1>8 DEF Create, Record, Recorded, RowsOk
<1>12. QED BY <1>6, <1>9, <1>10, <1>11 DEF VInv, Recorded

LEMMA InitializeSymKeeps ==
  ASSUME VInv, NEW l \in Verlets, NEW r \in Radii, InitializeSym(l, r)
  PROVE  VInv' /\ built'[l].how = "sym"
<1>1. PICK x \in Lists : x = Cli[l] /\ x \notin External
  BY CliTyped
<1>2. PICK g : g = ParamCalculateSym(r)
  OBVIOUS
<1>3. Sound(g) /\ Wide(g, r) /\ r \in Nat
  BY <1>2, ParamSymSound, CellAssumption
<1>4. /\ InitCl(x, g, "sym") /\ UNCHANGED client /\ made' = [made EXCEPT ![l] = r]
      /\ Create(l, x, "sym", 0, r, TRUE)
  BY <1>1, <1>2 DEF InitializeSym, Call
<1>5. CellsOk /\ RowsOk
  BY DEF VInv
<1>6. CellsOk' /\ UpToDate(x)' /\ geo' = [geo EXCEPT ![x] = g]
  BY <1>1, <1>3, <1>4, <1>5, InitClKeeps
<1>7. geo'[x] = g
  BY <1>5, <1>6 DEF CellsOk
<1>8. 0 \in DOMAIN gm' /\ Wide(geo'[x], r)
  BY <1>3, <1>6, <1>7 DEF CellsOk, FrameOk
<1>9. RowsOk'
  <2>1. Suits(x, "sym", r)'
    BY <1>8 DEF Suits
  <2>2. QED BY <1>4, <1>5, <1>6, <1>8, <2>1, CreateKeeps
<1>10. DOMAIN made' = Verlets /\ \A k \in Verlets : Divided(k)'
  BY <1>1, <1>3, <1>4, <1>6, DividedKeeps
<1>11. built'[l] = Recorded(x, "sym", 0, r)'
  BY <1>4, <1>5, <1>6, <1>8 DEF Create, Record, Recorded, RowsOk
<1>12. QED BY <1>6, <1>9, <1>10, <1>11 DEF VInv, Recorded

LEMMA InitializeCrsKeeps ==
  ASSUME VInv, NEW l \in Verlets, NEW r \in Radii, InitializeCrs(l, r)
  PROVE  VInv'
<1>1. PICK x \in Lists : x = Cli[l] /\ x \notin External
  BY CliTyped
<1>2. PICK g : g = ParamCalculateSym(r)
  OBVIOUS
<1>3. Sound(g) /\ Wide(g, r) /\ r \in Nat
  BY <1>2, ParamSymSound, CellAssumption
<1>4. /\ InitCl(x, g, "sym") /\ made' = [made EXCEPT ![l] = r]
      /\ UNCHANGED <<nn, dp, built, client>>
  BY <1>1, <1>2 DEF InitializeCrs, Call
<1>5. CellsOk /\ RowsOk
  BY DEF VInv
<1>6. CellsOk' /\ geo' = [geo EXCEPT ![x] = g]
  BY <1>1, <1>3, <1>4, <1>5, InitClKeeps
<1>7. RowsOk'
  BY <1>4, <1>5, SameRowsKeep
<1>8. DOMAIN made' = Verlets /\ \A k \in Verlets : Divided(k)'
  BY <1>1, <1>3, <1>4, <1>6, DividedKeeps
<1>9. QED BY <1>6, <1>7, <1>8 DEF VInv

\* A list that is filled again keeps its cells.
LEMMA FilledAgain ==
  ASSUME VInv, NEW x \in Lists, NEW opt, InitCl(x, geo[x], opt), UNCHANGED <<made, client>>
  PROVE  /\ CellsOk' /\ UpToDate(x)' /\ \A y \in Lists : geo'[y] = geo[y]
         /\ DOMAIN made' = Verlets /\ \A k \in Verlets : Divided(k)'
<1>1. PICK g : g = geo[x]
  OBVIOUS
<1>2. CellsOk /\ Sound(g) /\ (x \in External => g.div2 = g.div)
  BY <1>1 DEF VInv, CellsOk, ListOk
<1>3. InitCl(x, g, opt)
  BY <1>1
<1>4. CellsOk' /\ UpToDate(x)' /\ geo' = [geo EXCEPT ![x] = g]
  BY <1>2, <1>3, InitClKeeps
<1>5. \A y \in Lists : geo'[y] = geo[y]
  BY <1>1, <1>2, <1>4 DEF CellsOk
<1>6. QED BY <1>4, <1>5, CliTyped, SameDivision

\* The cut-off the list was made for, or less, suits its cells.
LEMMA WideBelow ==
  ASSUME NEW g, Sound(g), NEW r \in Nat, NEW m \in Nat, Wide(g, m), r <= m
  PROVE  Wide(g, r)
<1>1. ASSUME NEW s \in Dims PROVE r <= g.unit[s]
  <2>1. g.unit[s] \in Nat /\ m <= g.unit[s]
    BY DEF Sound, Wide
  <2>2. QED BY <2>1
<1>2. QED BY <1>1 DEF Wide

LEMMA UpdateKeeps ==
  ASSUME VInv, NEW l \in Verlets, NEW r \in Radii, NEW opt \in Options, Update(l, r, opt)
  PROVE  VInv'
<1>1. PICK x \in Lists : x = Cli[l]
  BY CliTyped
<1>2. PICK m \in Nat : m = made[l] /\ m # 0 /\ Wide(geo[x], m)
  BY <1>1 DEF VInv, Divided, Update
<1>3. InitCl(x, geo[x], opt) /\ UNCHANGED <<made, client>>
  BY <1>1 DEF Update, Call
<1>4. /\ CellsOk' /\ geo'[x] = geo[x]
      /\ DOMAIN made' = Verlets /\ \A k \in Verlets : Divided(k)'
  BY <1>3, FilledAgain
<1>5. PICK enough \in BOOLEAN : enough <=> r <= m
  OBVIOUS
<1>6. Create(l, x, opt, 0, r, enough)
  BY <1>1, <1>2, <1>3, <1>5 DEF Update, Create, Record
<1>7. opt \in {"full", "radius", "sym"} /\ opt # "radius" /\ 0 \in DOMAIN gm'
  BY <1>4 DEF Options, CellsOk, FrameOk
<1>8. enough => Suits(x, opt, r)'
  <2>1. r \in Nat /\ Sound(geo[x])
    BY CellAssumption DEF VInv, CellsOk, ListOk
  <2>2. enough => Wide(geo[x], r)
    BY <1>2, <1>5, <2>1, WideBelow
  <2>3. QED BY <1>4, <1>7, <2>2 DEF Suits
<1>9. RowsOk'
  BY <1>3, <1>4, <1>6, <1>7, <1>8, CreateKeeps DEF VInv
<1>10. QED BY <1>4, <1>9 DEF VInv

LEMMA CrsCallsKeep ==
  ASSUME VInv, NEW l \in Verlets, NEW r \in Radii, CreateVerletCrs(l, r) \/ UpdateCrs(l, r)
  PROVE  VInv'
<1>1. PICK x \in Lists : x = Cli[l]
  BY CliTyped
<1>2. PICK m \in Nat : m = made[l] /\ m # 0 /\ Wide(geo[x], m)
  BY <1>1 DEF VInv, Divided, CreateVerletCrs, UpdateCrs
<1>3. UNCHANGED <<made, client>>
  BY DEF CreateVerletCrs, UpdateCrs, Call
<1>4. /\ CellsOk' /\ geo'[x] = geo[x]
      /\ DOMAIN made' = Verlets /\ \A k \in Verlets : Divided(k)'
  <2>1. CASE CreateVerletCrs(l, r)
    <3>1. UNCHANGED <<vars, gm>>
      BY <2>1 DEF CreateVerletCrs, Unchanged
    <3>2. CellsOk'
      BY <1>3, <3>1 DEF VInv, CellsOk, FrameOk, ListOk, vars
    <3>3. \A y \in Lists : geo'[y] = geo[y]
      BY <3>1 DEF vars
    <3>4. QED BY <1>3, <3>2, <3>3, CliTyped, SameDivision
  <2>2. CASE UpdateCrs(l, r)
    <3>1. InitCl(x, geo[x], "sym")
      BY <1>1, <2>2 DEF UpdateCrs
    <3>2. QED BY <1>3, <3>1, FilledAgain
  <2>3. QED BY <2>1, <2>2
<1>5. PICK enough \in BOOLEAN : enough <=> r <= m
  OBVIOUS
<1>6. CreateCrs(l, r, enough)
  BY <1>1, <1>2, <1>3, <1>5 DEF CreateVerletCrs, UpdateCrs, CreateCrs, Record
<1>7. enough => Wide(geo[Cli[l]], r)'
  <2>1. r \in Nat /\ Sound(geo[x])
    BY CellAssumption DEF VInv, CellsOk, ListOk
  <2>2. enough => Wide(geo[x], r)
    BY <1>2, <1>5, <2>1, WideBelow
  <2>3. QED BY <1>1, <1>4, <2>2
<1>8. RowsOk'
  BY <1>3, <1>4, <1>6, <1>7, CreateCrsKeeps DEF VInv
<1>9. QED BY <1>4, <1>8 DEF VInv

LEMMA FillKeeps ==
  ASSUME VInv, NEW x \in External, NEW g \in Decompositions, Fill(x, g)
  PROVE  VInv'
<1>1. x \in Lists /\ Sound(g) /\ g.div2 = g.div
  BY CliTyped, GivenUnnested, WholeSound
<1>2. /\ InitCl(x, g, "full") /\ UNCHANGED client
      /\ UNCHANGED <<nn, dp, built, client>> /\ UNCHANGED made
  BY DEF Fill, Call
<1>3. CellsOk /\ RowsOk
  BY DEF VInv
<1>4. CellsOk' /\ geo' = [geo EXCEPT ![x] = g]
  BY <1>1, <1>2, <1>3, InitClKeeps
<1>5. \A l \in Verlets : geo'[Cli[l]] = geo[Cli[l]]
  BY <1>3, <1>4, CliTyped DEF CellsOk
<1>6. DOMAIN made' = Verlets /\ \A k \in Verlets : Divided(k)'
  BY <1>2, <1>5, SameDivision
<1>7. RowsOk'
  BY <1>2, <1>3, SameRowsKeep
<1>8. QED BY <1>4, <1>6, <1>7 DEF VInv

\* From cells of the client: with a radius when they are too small.
LEMMA FromCellsKeeps ==
  ASSUME VInv, NEW l \in Verlets, NEW x \in External, NEW v \in DOMAIN gm, NEW r \in Radii,
         NEW opt \in Options, InitializeFromCells(l, x, v, r, opt)
  PROVE  VInv'
<1>1. x \in Lists
  BY CliTyped
<1>2. CellsOk /\ RowsOk /\ ListOk(x) /\ Sound(geo[x]) /\ geo[x].div2 = geo[x].div
  BY <1>1 DEF VInv, CellsOk, ListOk
<1>3. UNCHANGED <<geo, full, sym, cells, stale, pos, gm, made, client>>
  BY DEF InitializeFromCells, Call
<1>4. PICK wr \in BOOLEAN : wr <=> Wide(geo[x], r)
  OBVIOUS
<1>5. DOMAIN rcache' = Lists
  BY <1>2 DEF InitializeFromCells, CellsOk
<1>6. CellsOk'
  BY <1>2, <1>3, <1>5 DEF CellsOk, FrameOk, ListOk
<1>7. v \in DOMAIN gm' /\ r \in Nat
  BY <1>3, CellAssumption
<1>8. RowsOk'
  <2>1. CASE wr \/ opt = "sym"
    <3>1. Create(l, x, opt, v, r, wr)
      <4>1. Create(l, x, opt, v, r, \A s \in Dims : r <= geo[x].unit[s])
        BY <1>4, <2>1 DEF InitializeFromCells, Wide
      <4>2. wr <=> \A s \in Dims : r <= geo'[x].unit[s]
        BY <1>3, <1>4 DEF Wide
      <4>3. QED BY <4>1, <4>2 DEF Create, Record
    <3>2. opt \in {"full", "radius", "sym"} /\ opt # "radius"
      BY DEF Options
    <3>3. wr => Suits(x, opt, r)'
      BY <1>3, <1>4, <3>2 DEF Suits
    <3>4. QED BY <1>1, <1>2, <1>3, <1>6, <1>7, <3>1, <3>2, <3>3, CreateKeeps
  <2>2. CASE ~(wr \/ opt = "sym")
    <3>1. /\ Create(l, x, "radius", v, r, TRUE)
          /\ \A s \in Dims : Reach(geo[x], r, s) <= geo[x].off
      BY <1>4, <2>2 DEF InitializeFromCells, Wide
    <3>2. Thick(geo[x], r)
      BY <1>2, <1>7, <3>1, ReachIsThick
    <3>3. Suits(x, "radius", r)'
      BY <1>2, <1>3, <3>2 DEF Suits
    <3>4. QED BY <1>1, <1>2, <1>3, <1>6, <1>7, <3>1, <3>3, CreateKeeps
  <2>3. QED BY <2>1, <2>2
<1>9. DOMAIN made' = Verlets /\ \A k \in Verlets : Divided(k)'
  BY <1>3, SameDivision
<1>10. QED BY <1>6, <1>8, <1>9 DEF VInv

\* Two lists exchange their cells: both the client's or both of Verlet lists.
LEMMA SwapKeepsCells ==
  ASSUME CellsOk, NEW x \in Lists, NEW y \in Lists, x \in External <=> y \in External,
         Swap(x, y), UNCHANGED <<gm, client>>
  PROVE  CellsOk'
<1>1. /\ geo' = Exchanged(geo, x, y) /\ full' = Exchanged(full, x, y)
      /\ sym' = Exchanged(sym, x, y)
      /\ cells' = [cells EXCEPT ![x] = cells[y], ![y] = cells[x]]
      /\ UNCHANGED <<rcache, pos, stale>>
  BY DEF Swap, Mem!Swap
<1>2. ASSUME NEW z \in Lists
      PROVE  \E t \in Lists : /\ z \in External <=> t \in External
                              /\ geo'[z] = geo[t] /\ full'[z] = full[t]
                              /\ sym'[z] = sym[t] /\ cells'[z] = cells[t]
  <2>1. PICK t \in Lists : t = IF z = y THEN x ELSE IF z = x THEN y ELSE z
    OBVIOUS
  <2>2. /\ geo'[z] = geo[t] /\ full'[z] = full[t]
        /\ sym'[z] = sym[t] /\ cells'[z] = cells[t]
    BY <1>1, <2>1 DEF Exchanged, CellsOk
  <2>3. QED BY <2>1, <2>2
<1>3. ASSUME NEW z \in Lists PROVE ListOk(z)'
  BY <1>2 DEF CellsOk, ListOk
<1>4. /\ DOMAIN geo' = Lists /\ DOMAIN full' = Lists /\ DOMAIN sym' = Lists
      /\ DOMAIN cells' = Lists /\ DOMAIN rcache' = Lists
  BY <1>1 DEF Exchanged, CellsOk
<1>5. QED BY <1>1, <1>3, <1>4 DEF CellsOk, FrameOk

LEMMA MoveCellsKeeps ==
  ASSUME VInv, NEW x \in External, NEW y \in External, MoveCells(x, y)
  PROVE  VInv'
<1>1. x \in Lists /\ y \in Lists
  BY CliTyped
<1>2. Swap(x, y) /\ UNCHANGED <<gm, client>> /\ UNCHANGED <<nn, dp, built, client>>
      /\ UNCHANGED made
  BY DEF MoveCells, MoveM, Call
<1>3. CellsOk /\ RowsOk
  BY DEF VInv
<1>4. CellsOk'
  BY <1>1, <1>2, <1>3, SwapKeepsCells
<1>5. \A l \in Verlets : geo'[Cli[l]] = geo[Cli[l]]
  BY <1>1, <1>2, <1>3, CliTyped DEF Swap, Exchanged, CellsOk
<1>6. DOMAIN made' = Verlets /\ \A k \in Verlets : Divided(k)'
  BY <1>2, <1>5, SameDivision
<1>7. RowsOk'
  BY <1>2, <1>3, SameRowsKeep
<1>8. QED BY <1>4, <1>6, <1>7 DEF VInv

LEMMA DriftKeeps ==
  ASSUME VInv, Drift
  PROVE  VInv'
<1>1. /\ UNCHANGED <<geo, full, sym, rcache, cells, stale, nn, dp, built, made, client>>
      /\ \E f \in Frames : f.multi = client.multi /\ pos' = f.at /\ gm' = f.gm
  BY DEF Drift, Call
<1>2. CellsOk /\ RowsOk
  BY DEF VInv
<1>3. FrameOk'
  <2>1. PICK f \in Frames : f.multi = client'.multi /\ pos' = f.at /\ gm' = f.gm
    BY <1>1
  <2>2. client'.multi \in BOOLEAN
    BY <1>1, <1>2 DEF CellsOk, FrameOk
  <2>3. QED BY <2>1, <2>2, FrameWillBeOk DEF FramesAreOk
<1>4. CellsOk'
  BY <1>1, <1>2, <1>3 DEF CellsOk, ListOk
<1>5. RowsOk'
  BY <1>1, <1>2, SameRowsKeep
<1>6. DOMAIN made' = Verlets /\ \A k \in Verlets : Divided(k)'
  BY <1>1, SameDivision
<1>7. QED BY <1>4, <1>5, <1>6 DEF VInv

\* A list takes the rows of another one, whole.
LEMMA RowsFrom ==
  ASSUME RowsOk, UNCHANGED client,
         DOMAIN nn' = Verlets, DOMAIN dp' = Verlets, DOMAIN built' = Verlets,
         \A k \in Verlets :
           \/ built'[k] = NotBuilt
           \/ \E m \in Verlets : nn'[k] = nn[m] /\ dp'[k] = dp[m] /\ built'[k] = built[m]
  PROVE  RowsOk'
<1>1. ASSUME NEW k \in Verlets PROVE Listed(client'.multi, built'[k], nn'[k], dp'[k])
  <2>1. CASE built'[k] = NotBuilt
    BY <2>1, NothingListed
  <2>2. CASE \E m \in Verlets : nn'[k] = nn[m] /\ dp'[k] = dp[m] /\ built'[k] = built[m]
    BY <2>2 DEF RowsOk
  <2>3. QED BY <2>1, <2>2
<1>2. QED BY <1>1 DEF RowsOk

LEMMA ClearRowsKeeps ==
  ASSUME VInv, NEW l \in Verlets, ClearRows(l)
  PROVE  VInv'
<1>1. /\ UNCHANGED <<vars, gm, dp, made, client>>
      /\ built' = [built EXCEPT ![l] = NotBuilt]
      /\ DOMAIN nn' = DOMAIN nn /\ \A k \in DOMAIN nn : k # l => nn'[k] = nn[k]
  BY DEF ClearRows, Call, Unchanged
<1>2. CellsOk /\ RowsOk
  BY DEF VInv
<1>3. CellsOk'
  BY <1>1, <1>2 DEF CellsOk, ListOk, FrameOk, vars
<1>4. DOMAIN made' = Verlets /\ \A k \in Verlets : Divided(k)'
  BY <1>1, SameDivision DEF vars
<1>5. ASSUME NEW k \in Verlets
      PROVE  \/ built'[k] = NotBuilt
             \/ \E m \in Verlets : nn'[k] = nn[m] /\ dp'[k] = dp[m] /\ built'[k] = built[m]
  <2>1. CASE k = l
    BY <1>1, <1>2, <2>1 DEF RowsOk
  <2>2. CASE k # l
    BY <1>1, <1>2, <2>2 DEF RowsOk
  <2>3. QED BY <2>1, <2>2
<1>6. RowsOk'
  <2>1. DOMAIN nn' = Verlets /\ DOMAIN dp' = Verlets /\ DOMAIN built' = Verlets
    BY <1>1, <1>2 DEF RowsOk
  <2>2. QED BY <1>1, <1>2, <1>5, <2>1, RowsFrom
<1>7. QED BY <1>3, <1>4, <1>6 DEF VInv

LEMMA CopyListKeeps ==
  ASSUME VInv, NEW l \in Verlets, NEW m \in Verlets, l # m, CopyList(l, m)
  PROVE  VInv'
<1>1. PICK x \in Lists, y \in Lists :
        x = Cli[l] /\ y = Cli[m] /\ x \notin External /\ y \notin External
  BY CliTyped
<1>2. /\ geo' = [geo EXCEPT ![x] = geo[y]] /\ full' = [full EXCEPT ![x] = full[y]]
      /\ sym' = [sym EXCEPT ![x] = sym[y]] /\ cells' = [cells EXCEPT ![x] = cells[y]]
      /\ stale' = stale \ {x} /\ UNCHANGED <<rcache, pos, gm, client>>
      /\ nn' = [nn EXCEPT ![l] = nn[m]] /\ dp' = [dp EXCEPT ![l] = dp[m]]
      /\ built' = [built EXCEPT ![l] = built[m]] /\ made' = [made EXCEPT ![l] = made[m]]
  BY <1>1 DEF CopyList, Copy, Mem!Copy, Call
<1>3. CellsOk /\ RowsOk
  BY DEF VInv
<1>4. CellsOk'
  <2>1. ASSUME NEW z \in Lists PROVE ListOk(z)'
    <3>1. PICK t \in Lists : t = (IF z = x THEN y ELSE z) /\ (z \in External <=> t \in External)
      BY <1>1
    <3>2. /\ geo'[z] = geo[t] /\ full'[z] = full[t]
          /\ sym'[z] = sym[t] /\ cells'[z] = cells[t]
      BY <1>2, <1>3, <3>1 DEF CellsOk
    <3>3. QED BY <1>3, <3>1, <3>2 DEF CellsOk, ListOk
  <2>2. QED BY <1>2, <1>3, <2>1 DEF CellsOk, FrameOk
<1>5. RowsOk'
  <2>1. DOMAIN nn' = Verlets /\ DOMAIN dp' = Verlets /\ DOMAIN built' = Verlets
    BY <1>2, <1>3 DEF RowsOk
  <2>2. ASSUME NEW k \in Verlets
        PROVE  \E j \in Verlets : nn'[k] = nn[j] /\ dp'[k] = dp[j] /\ built'[k] = built[j]
    <3>1. PICK j \in Verlets : j = IF k = l THEN m ELSE k
      OBVIOUS
    <3>2. nn'[k] = nn[j] /\ dp'[k] = dp[j] /\ built'[k] = built[j]
      BY <1>2, <1>3, <3>1 DEF RowsOk
    <3>3. QED BY <3>2
  <2>3. QED BY <1>2, <1>3, <2>1, <2>2, RowsFrom
<1>6. Wide(geo[y], made[m]) \/ made[m] = 0
  BY <1>1 DEF VInv, Divided
<1>7. ASSUME NEW k \in Verlets PROVE Divided(k)'
  <2>1. PICK j \in Verlets : j = IF k = l THEN m ELSE k
    OBVIOUS
  <2>2. geo'[Cli[k]] = geo[Cli[j]]
    BY <1>1, <1>2, <1>3, <2>1, CliTyped DEF CellsOk
  <2>3. made'[k] = made[j]
    BY <1>2, <2>1 DEF VInv
  <2>4. QED BY <2>2, <2>3 DEF Divided, VInv
<1>8. DOMAIN made' = Verlets
  BY <1>2 DEF VInv
<1>9. QED BY <1>4, <1>5, <1>7, <1>8 DEF VInv

LEMMA SwapListsKeeps ==
  ASSUME VInv, NEW l \in Verlets, NEW m \in Verlets, l # m, SwapLists(l, m)
  PROVE  VInv'
<1>1. PICK x \in Lists, y \in Lists :
        x = Cli[l] /\ y = Cli[m] /\ x \notin External /\ y \notin External
  BY CliTyped
<1>2. /\ Swap(x, y) /\ UNCHANGED <<gm, client>>
      /\ nn' = [nn EXCEPT ![l] = nn[m], ![m] = nn[l]]
      /\ dp' = [dp EXCEPT ![l] = dp[m], ![m] = dp[l]]
      /\ built' = [built EXCEPT ![l] = built[m], ![m] = built[l]]
      /\ made' = [made EXCEPT ![l] = made[m], ![m] = made[l]]
  BY <1>1 DEF SwapLists, Exchanged, Call
<1>3. CellsOk /\ RowsOk
  BY DEF VInv
<1>4. CellsOk'
  BY <1>1, <1>2, <1>3, SwapKeepsCells
<1>5. ASSUME NEW k \in Verlets
      PROVE  \E j \in Verlets :
               /\ nn'[k] = nn[j] /\ dp'[k] = dp[j] /\ built'[k] = built[j]
               /\ made'[k] = made[j] /\ geo'[Cli[k]] = geo[Cli[j]]
  <2>1. PICK j \in Verlets : j = IF k = m THEN l ELSE IF k = l THEN m ELSE k
    OBVIOUS
  <2>2. nn'[k] = nn[j] /\ dp'[k] = dp[j] /\ built'[k] = built[j] /\ made'[k] = made[j]
    BY <1>2, <1>3, <2>1 DEF RowsOk, VInv
  <2>3. geo' = [geo EXCEPT ![x] = geo[y], ![y] = geo[x]]
    BY <1>2 DEF Swap, Exchanged
  <2>4. geo'[Cli[k]] = geo[Cli[j]]
    <3>1. Cli[k] \in Lists /\ (Cli[k] = x <=> k = l) /\ (Cli[k] = y <=> k = m)
      BY <1>1, CliTyped
    <3>2. QED BY <1>1, <1>3, <2>1, <2>3, <3>1 DEF CellsOk
  <2>5. QED BY <2>2, <2>4
<1>6. RowsOk'
  <2>1. DOMAIN nn' = Verlets /\ DOMAIN dp' = Verlets /\ DOMAIN built' = Verlets
    BY <1>2, <1>3 DEF RowsOk
  <2>2. QED BY <1>2, <1>3, <1>5, <2>1, RowsFrom
<1>7. DOMAIN made' = Verlets /\ \A k \in Verlets : Divided(k)'
  BY <1>2, <1>5 DEF VInv, Divided
<1>8. QED BY <1>4, <1>6, <1>7 DEF VInv

LEMMA MoveListKeeps ==
  ASSUME VInv, NEW l \in Verlets, NEW m \in Verlets, l # m, MoveList(l, m)
  PROVE  VInv'
<1>1. /\ UNCHANGED <<vars, gm, made, client>>
      /\ nn' = [nn EXCEPT ![l] = nn[m]]
      /\ dp' = [dp EXCEPT ![l] = dp[m], ![m] = dp[l]]
      /\ built' = [built EXCEPT ![l] = built[m], ![m] = NotBuilt]
  BY DEF MoveList, Exchanged, Call, Unchanged
<1>2. CellsOk /\ RowsOk
  BY DEF VInv
<1>3. CellsOk'
  BY <1>1, <1>2 DEF CellsOk, ListOk, FrameOk, vars
<1>4. DOMAIN made' = Verlets /\ \A k \in Verlets : Divided(k)'
  BY <1>1, SameDivision DEF vars
<1>5. ASSUME NEW k \in Verlets
      PROVE  \/ built'[k] = NotBuilt
             \/ \E j \in Verlets : nn'[k] = nn[j] /\ dp'[k] = dp[j] /\ built'[k] = built[j]
  <2>1. CASE k = m
    BY <1>1, <1>2, <2>1 DEF RowsOk
  <2>2. CASE k = l
    BY <1>1, <1>2, <2>2 DEF RowsOk
  <2>3. CASE k # l /\ k # m
    BY <1>1, <1>2, <2>3 DEF RowsOk
  <2>4. QED BY <2>1, <2>2, <2>3
<1>6. RowsOk'
  <2>1. DOMAIN nn' = Verlets /\ DOMAIN dp' = Verlets /\ DOMAIN built' = Verlets
    BY <1>1, <1>2 DEF RowsOk
  <2>2. QED BY <1>1, <1>2, <1>5, <2>1, RowsFrom
<1>7. QED BY <1>3, <1>4, <1>6 DEF VInv

LEMMA VNextInv == VInv /\ [VNext]_vvars => VInv'
<1> SUFFICES ASSUME VInv, [VNext]_vvars PROVE VInv'
  OBVIOUS
<1>1. CASE Drift
  BY <1>1, DriftKeeps
<1>2. ASSUME NEW l \in Verlets, NEW r \in Radii, NEW opt \in Options,
             InitializeBox(l, r, opt) \/ Update(l, r, opt)
      PROVE  VInv'
  BY <1>2, InitializeBoxKeeps, UpdateKeeps
<1>3. ASSUME NEW l \in Verlets, NEW r \in Radii,
             InitializeSym(l, r) \/ InitializeCrs(l, r) \/ CreateVerletCrs(l, r) \/ UpdateCrs(l, r)
      PROVE  VInv'
  BY <1>3, InitializeSymKeeps, InitializeCrsKeeps, CrsCallsKeep
<1>4. ASSUME NEW l \in Verlets, NEW r \in Radii, NEW x \in External, NEW v \in DOMAIN gm,
             NEW opt \in Options, InitializeFromCells(l, x, v, r, opt)
      PROVE  VInv'
  BY <1>4, FromCellsKeeps
<1>5. ASSUME NEW x \in External, NEW g \in Decompositions, Fill(x, g) PROVE VInv'
  BY <1>5, FillKeeps
<1>6. ASSUME NEW x \in External, NEW y \in External, MoveCells(x, y) PROVE VInv'
  BY <1>6, MoveCellsKeeps
<1>7. ASSUME NEW l \in Verlets, ClearRows(l) PROVE VInv'
  BY <1>7, ClearRowsKeeps
<1>8. ASSUME NEW l \in Verlets, NEW m \in Verlets, l # m,
             CopyList(l, m) \/ SwapLists(l, m) \/ MoveList(l, m)
      PROVE  VInv'
  BY <1>8, CopyListKeeps, SwapListsKeeps, MoveListKeeps
<1>9. CASE UNCHANGED vvars
  BY <1>9 DEF VInv, CellsOk, RowsOk, FrameOk, ListOk, Divided, vvars, vars
<1>10. QED BY <1>1, <1>2, <1>3, <1>4, <1>5, <1>6, <1>7, <1>8, <1>9 DEF VNext

LEMMA VInvHolds == VSpec => []VInv
BY VInitInv, VNextInv, PTL DEF VSpec

-----------------------------------------------------------------------------

\* Built from the full neighbourhood of cells as wide as the cut-off or with a
\* radius, and then copied, swapped, moved or updated, whatever the particles
\* did in between: the list of a particle of the domain has exactly those that
\* were nearer than the cut-off, each once.
THEOREM FullListsExact == VSpec => []FullListExact
<1>1. VInv => FullListExact
  BY DEF VInv, RowsOk, Listed, FullListed, FullListExact
<1>2. QED BY <1>1, VInvHolds, PTL

\* What SymListOnce says of the lists l and m, made as b and c tell, and of the
\* particle p of the first.
SymMeets(l, m, b, c, p) ==
  /\ l = m => \A q \in DOMAIN b.at : nn[l][GetP(p)][q] <= Near(b, p, q)
  /\ \A q \in Owners(c) :
       LET met == nn[l][GetP(p)][q] + nn[m][GetP(q)][p]
       IN  IF p = q THEN met = 2
           ELSE IF b.at[p] = b.at[q] /\ b.v # c.v THEN met = 2
           ELSE met = Near(b, p, q)

\* Two symmetric lists of one place and cut-off.
SymTogether(l, m, b, c) ==
  /\ b.how = "sym" /\ c.how = "sym"
  /\ b.at = c.at /\ b.geo = c.geo /\ b.r = c.r /\ (l = m \/ b.v # c.v)

LEMMA SymPairsMet ==
  VInv => \A l, m \in Verlets :
            SymTogether(l, m, built[l], built[m]) =>
              \A p \in Owners(built[l]) : SymMeets(l, m, built[l], built[m], p)
<1>1. SUFFICES ASSUME VInv, NEW l \in Verlets, NEW m \in Verlets,
                      SymTogether(l, m, built[l], built[m]), NEW p \in Owners(built[l])
               PROVE  SymMeets(l, m, built[l], built[m], p)
  OBVIOUS
<1>2. PICK b, c, multi, rows, others :
        /\ b = built[l] /\ c = built[m]
        /\ multi = client.multi /\ rows = nn[l] /\ others = nn[m]
  OBVIOUS
<1>3. /\ RecordOk(multi, b) /\ SymListed(multi, b, rows)
      /\ RecordOk(multi, c) /\ SymListed(multi, c, others)
  BY <1>1, <1>2 DEF VInv, RowsOk, Listed, SymTogether
<1>4. /\ b.v = c.v => rows = others
      /\ b.at = c.at /\ b.geo = c.geo /\ b.r = c.r
      /\ p \in Owners(b)
  BY <1>1, <1>2 DEF SymTogether
<1>5. ASSUME NEW q \in DOMAIN b.at PROVE rows[GetP(p)][q] <= Near(b, p, q)
  <2>1. rows[GetP(p)][q] \in {0, Near(b, p, q)}
    BY <1>3, <1>4 DEF SymListed
  <2>2. Near(b, p, q) \in {0, 1}
    BY DEF Near
  <2>3. QED BY <2>1, <2>2
<1>6. ASSUME NEW q \in Owners(c)
      PROVE  LET met == rows[GetP(p)][q] + others[GetP(q)][p]
             IN  IF p = q THEN met = 2
                 ELSE IF b.at[p] = b.at[q] /\ b.v # c.v THEN met = 2
                 ELSE met = Near(b, p, q)
  BY <1>3, <1>4, SymPair
<1>7. SymMeets(l, m, b, c, p)
  BY <1>2, <1>5, <1>6 DEF SymMeets
<1>8. QED BY <1>2, <1>7

\* In a symmetric list, or in those of two phases, two near particles of the
\* domain are in one order and once; of the rest nothing is listed that is not
\* near.
THEOREM SymListsOnce == VSpec => []SymListOnce
<1>1. VInv => SymListOnce
  BY SymPairsMet, Zenon DEF SymListOnce, SymTogether, SymMeets
<1>2. QED BY <1>1, VInvHolds, PTL

\* The CRS scheme: of a particle of the domain and one near it, ghosts
\* included, one is in the list of the other, once, and the particles the
\* scheme goes through have all the lists that are not empty.
THEOREM CrsListsOnce == VSpec => []CrsListOnce
<1>1. VInv => CrsListOnce
  BY DEF VInv, RowsOk, Listed, CrsListed, CrsListOnce
<1>2. QED BY <1>1, VInvHolds, PTL

\* The theorems above are about lists that are on record, and one that was
\* just made from its own cells is: these hold the particles where they are
\* now, and are as wide as the cut-off.
THEOREM MadeIsRecorded ==
  VSpec => [][\A l \in Verlets, r \in Radii :
                /\ \A opt \in Options : InitializeBox(l, r, opt) => built'[l].how = opt
                /\ InitializeSym(l, r) => built'[l].how = "sym"]_vvars
<1>1. VInv => \A l \in Verlets, r \in Radii :
                /\ \A opt \in Options : InitializeBox(l, r, opt) => built'[l].how = opt
                /\ InitializeSym(l, r) => built'[l].how = "sym"
  BY InitializeBoxKeeps, InitializeSymKeeps
<1>2. QED BY <1>1, VInvHolds, PTL DEF VSpec

=============================================================================
