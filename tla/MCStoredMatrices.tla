-------------------------- MODULE MCStoredMatrices --------------------------
(***************************************************************************)
(* Even and odd truncations and numbers of latitudes, with and without     *)
(* orders after 0, with and without vectors.                               *)
(***************************************************************************)
EXTENDS StoredMatrices

Sizes ==
  {[lmax |-> 4, mmax |-> 2, mres |-> 2, n |-> 3, vect |-> TRUE],
   [lmax |-> 5, mmax |-> 2, mres |-> 1, n |-> 4, vect |-> TRUE],
   [lmax |-> 4, mmax |-> 0, mres |-> 1, n |-> 3, vect |-> TRUE],
   [lmax |-> 7, mmax |-> 0, mres |-> 1, n |-> 2, vect |-> TRUE],
   [lmax |-> 6, mmax |-> 3, mres |-> 2, n |-> 5, vect |-> TRUE],
   [lmax |-> 5, mmax |-> 2, mres |-> 2, n |-> 3, vect |-> FALSE]}

\* Only order 0, and the number of latitudes and the last degree are odd.
Odds == {[lmax |-> 3, mmax |-> 0, mres |-> 1, n |-> 3, vect |-> TRUE]}

MCConfigs == Sizes
MCOdd == Odds

MCCalls == [dir: {"synth", "analys"}, f: {"Q", "V", "3"}, llim: 1..7, simd: BOOLEAN]

All == {"Q", "V", "3"}
MCUses == {[synth |-> All, analys |-> All], [synth |-> {"3", "V"}, analys |-> {"3"}],
           [synth |-> {"V"}, analys |-> {"Q"}], [synth |-> {"Q"}, analys |-> {}]}
=============================================================================
