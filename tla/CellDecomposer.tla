--------------------------- MODULE CellDecomposer ---------------------------
(***************************************************************************)
(* CellDecomposer_sm (src/src/NN/CellList/CellDecomposer.hpp) in two       *)
(* dimensions, on a lattice of integer coordinates: from a point to the    *)
(* cell that stores it.  A decomposition is a record                       *)
(*                                                                         *)
(*   low        P1 of the box                                              *)
(*   unit       the sides of a cell, box_unit                              *)
(*   div        the cells of the box: gr_cell without the padding          *)
(*   div2       the cells of the nested box: gr_cell2 without the padding  *)
(*   off        the layers of padding cells on every side                  *)
(*   cell_shift the first cell of gr_cell2 in gr_cell                      *)
(*                                                                         *)
(* and a box is a record of two corners, low and high.  Rounding of        *)
(* floating point, and the transform (a rotation or a shift), are left     *)
(* out.                                                                    *)
(***************************************************************************)
EXTENDS Integers

Dims == {1, 2}

\* gr_cell.size(s) and gr_cell2.size(s)
Size(g, s) == g.div[s] + 2 * g.off
Size2(g, s) == g.div2[s] + 2 * g.off

High(g, s) == g.low[s] + g.unit[s] * g.div[s]

\* The cells of gr_cell2, the ones a cell list stores.
NCells(g) == Size2(g, 1) * Size2(g, 2)

\* grid_sm::LinId of a cell or of an offset, in a grid of width w.
LinId(w, k) == k[1] + w * k[2]

\* setDimensions(box, div, pad): no nested box.
Whole(low, unit, div, pad) ==
  [low |-> low, unit |-> unit, div |-> div, div2 |-> div, off |-> pad,
   cell_shift |-> <<0, 0>>]

-----------------------------------------------------------------------------

Floor(x, u) == x \div u
Ceil(x, u) == -((-x) \div u)

\* convertDomainSpaceIntoCellUnits with NON_PERIODIC borders: the cells of
\* cd a box covers, from corner `low' to before corner `high'.
ToCellUnits(cd, dom) ==
  LET Border(x, s, other) ==
        CASE x = cd.low[s] -> cd.off
          [] x = High(cd, s) -> Size(cd, s) - cd.off
          [] OTHER -> other + cd.off
  IN  [low  |-> [s \in Dims |->
                   Border(dom.low[s], s, Floor(dom.low[s] - cd.low[s], cd.unit[s]))],
       high |-> [s \in Dims |->
                   Border(dom.high[s], s, Ceil(dom.high[s] - cd.low[s], cd.unit[s]))]]

\* CellList::setCellDecomposer and setDimensions(box, div, div2, pad, shift):
\* the decomposition of a cell list for the part `dom' of cd.
Nested(cd, dom, pad) ==
  LET bx == ToCellUnits(cd, dom)
  IN  [cd EXCEPT !.div2 = [s \in Dims |-> bx.high[s] - bx.low[s]],
                 !.off = pad,
                 !.cell_shift = [s \in Dims |-> bx.low[s] - pad]]

-----------------------------------------------------------------------------

\* A mutant of SizeTFloor: the conversion to an integer alone.
SizeTTrunc(x, u) == IF x >= 0 THEN x \div u ELSE -((-x) \div u)

\* size_t_floor: truncate, then one less for every negative coordinate,
\* which takes a multiple of the side one cell too far.
SizeTFloor(x, u) == IF x >= 0 THEN x \div u ELSE -((-x) \div u) - 1

\* ConvertToID_ns: a negative id is a huge size_t.
ConvertToID_ns(g, pt, s) ==
  LET id == SizeTFloor(pt[s] - g.low[s], g.unit[s]) + g.off
  IN  IF id \in 0 .. Size(g, s) - 1 THEN id ELSE Size(g, s) - 1

\* The cell of gr_cell2 with the given coordinates in gr_cell.
InNested(g, id) ==
  LinId(Size2(g, 1), [s \in Dims |-> id[s] - g.cell_shift[s]])

GetCell(g, pt) == InNested(g, [s \in Dims |-> ConvertToID_ns(g, pt, s)])

\* The padding cell next to the border becomes the domain cell next to it.
IntoDomain(g, s, id) ==
  CASE id = Size(g, s) - g.off -> Size(g, s) - g.off - 1
    [] id = g.off - 1 -> g.off
    [] OTHER -> id

GetCellDom(g, pt) ==
  InNested(g, [s \in Dims |-> IntoDomain(g, s, ConvertToID_ns(g, pt, s))])

-----------------------------------------------------------------------------
(* The neighbourhoods, as sets of offsets between cell ids: a padded grid  *)
(* is at least as wide as a neighbourhood, so no two of its cells have the *)
(* same offset.  The order of the visit is left out.                       *)

\* A mutant of NNcFull: the width of the grid that is not nested.
NNcFullWhole(g) == {LinId(Size(g, 1), k) : k \in (-1 .. 1) \X (-1 .. 1)}

\* NNc_array::init_full and init_sym: the second half starts at the cell.
NNcFull(g) == {LinId(Size2(g, 1), k) : k \in (-1 .. 1) \X (-1 .. 1)}
NNcSym(g) == {d \in NNcFull(g) : d >= 0}

\* A mutant of Gap: from corner to corner.
GapOfCorners(k, u) == IF k > 0 THEN k * u ELSE -k * u

\* Box::min_distance of two cells k apart, in one dimension.
Gap(k, u) == IF k > 0 THEN (k - 1) * u ELSE IF k < 0 THEN (-k - 1) * u ELSE 0

SquaredNorm(x, y) == x * x + y * y

\* The cells a radius may reach, on one side.
Reach(g, r, s) == Ceil(r, g.unit[s])

\* NNcalc_rad(r): the cells whose box is not farther than r, as offsets in
\* gr_cell, which is what getGrid returns.
NNcalcRad(g, r) ==
  {LinId(Size(g, 1), k) :
     k \in {k \in (-Reach(g, r, 1) .. Reach(g, r, 1))
                    \X (-Reach(g, r, 2) .. Reach(g, r, 2)) :
              SquaredNorm(Gap(k[1], g.unit[1]), Gap(k[2], g.unit[2])) <= r * r}}
=============================================================================
