------------------------------- MODULE GridSm -------------------------------
(***************************************************************************)
(* grid_sm (src/src/Grid/grid_sm.hpp): the linear index of a key in a grid *)
(* of sz cells, the first dimension fastest; and the elements of the       *)
(* hyper-cube around a cell (src/src/Space/Shape/HyperCube.hpp).           *)
(* A key is a function from the dimensions 1 .. dim.                       *)
(***************************************************************************)
EXTENDS Integers, Sequences, FiniteSets, FiniteSetsExt, Functions

Prod(f, S) == FoldFunctionOnSet(LAMBDA a, b : a * b, 1, f, S)

\* sz_s, with the 1 the code leaves implicit: cells of the dimensions before s
Stride(sz, s) == Prod(sz, 1 .. s - 1)
Size(sz) == Prod(sz, DOMAIN sz)
Keys(sz) == {k \in [DOMAIN sz -> 0 .. Size(sz) - 1] : \A s \in DOMAIN sz : k[s] < sz[s]}
LinId(sz, k) == SumFunction([s \in DOMAIN sz |-> k[s] * Stride(sz, s)])
InvLinId(sz, id) == [s \in DOMAIN sz |-> (id \div Stride(sz, s)) % sz[s]]

\* LinId<CheckExistence> of a key shifted by c, through the borders of the
\* dimensions bc; -1 when it leaves the grid.
\* (mutant: without the positive_modulo)
LinIdShiftedUnwrapped(sz, k, c, bc) ==
  IF \E s \in DOMAIN sz \ bc : k[s] + c[s] \notin 0 .. sz[s] - 1 THEN -1
  ELSE LinId(sz, [s \in DOMAIN sz |-> k[s] + c[s]])
LinIdShifted(sz, k, c, bc) ==
  IF \E s \in DOMAIN sz \ bc : k[s] + c[s] \notin 0 .. sz[s] - 1 THEN -1
  ELSE LinId(sz, [s \in DOMAIN sz |-> (k[s] + c[s]) % sz[s]])

\* getCombinations_R: the elements of dimension d of the hyper-cube, as their
\* position around its centre.  The code lists them in a fixed order.
getCombinations_R(dim, d) ==
  {c \in [1 .. dim -> {-1, 0, 1}] : Cardinality({s \in 1 .. dim : c[s] = 0}) = d}
=============================================================================
