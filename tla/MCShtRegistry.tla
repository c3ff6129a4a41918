--------------------------- MODULE MCShtRegistry ---------------------------
(* Small instances of the registry for TLC.                                *)
EXTENDS ShtRegistry, TLC

Size(l, m, r, n) == [lmax |-> l, mmax |-> m, mres |-> r, norm |-> n]
Grid(n, p, f, v, q) ==
  [nlat |-> n, nphi |-> p, fly |-> f, vect |-> v, quick |-> q]

(* Sizes that differ in one parameter at a time, one of them with its own  *)
(* analysis recurrence.                                                    *)
MCSizes ==
  {Size(3, 2, 1, "orthonormal"), Size(3, 1, 1, "schmidt"),
   Size(2, 2, 1, "orthonormal")}

(* A size for which rotations are possible. *)
MCTriangular == {Size(2, 2, 1, "schmidt")}

MCAxisymmetric == {Size(3, 0, 1, "orthonormal")}

MCNoGrids == {}
MCGrids == {Grid(8, 8, TRUE, FALSE, TRUE), Grid(6, 8, FALSE, FALSE, TRUE)}
(* One meridian and no vectors: nothing is allocated that is never freed,  *)
(* so grids can be set any number of times.                                *)
MCScalarGrids == {Grid(6, 1, FALSE, FALSE, FALSE), Grid(8, 1, TRUE, FALSE, TRUE)}

Perms == Permutations(Cfg)
=============================================================================
